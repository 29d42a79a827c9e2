---------------------------- MODULE PeerCollection ----------------------------
(***************************************************************************)
(* The peers a server_event_socket owns: peer_collection and socket_set    *)
(* (src/socket_set.cpp), with the listener that accepts and closes them    *)
(* (src/server_event_socket.cpp, tcp_listen of src/socket.cpp).            *)
(*                                                                         *)
(* One thread runs all of it, but closing a peer or the listener calls the *)
(* application's on_close handler, writing to a peer calls on_error and    *)
(* on_write, and a handler may call the server again.  `stack' holds the   *)
(* calls in progress, the innermost last; user code runs when it is empty  *)
(* or when its last frame stands at a handler.                             *)
(*                                                                         *)
(* A peer is the address of its object: a destroyed peer's address may be  *)
(* given to the next accepted one.                                         *)
(***************************************************************************)
EXTENDS Integers, Sequences, FiniteSets

CONSTANTS
    Peers,          \* addresses of peer objects
    PerTurn,        \* bound: peers user code retires in one turn of close_owned_peers
    HandlersListen, \* TRUE: handlers call listen()
    Broadcasts,     \* TRUE: the application calls peers().broadcast()
    MaxOps,         \* bound: calls user code makes in a behaviour
    MaxDepth        \* bound: calls in progress at a time

ASSUME BoundsAssumption ==
    /\ PerTurn \in Nat /\ MaxOps \in Nat /\ MaxDepth \in Nat
    /\ HandlersListen \in BOOLEAN /\ Broadcasts \in BOOLEAN

VARIABLES
    owned, members, closing,    \* peer_collection::state
    alive, open,                \* peer objects, and those with a descriptor
    sockfd,                     \* listener's descriptor, 0: invalid
    stack,                      \* calls in progress
    ops,                        \* calls of user code so far
    opened,                     \* history: listener descriptors the OS has open
    fresh,                      \* history: peers accepted since closing was set
    undefined,                  \* history: broadcast used an invalid iterator
    usedDead                    \* history: write() went on in a destroyed peer

collVars == <<owned, members, closing, alive, open>>
vars == <<collVars, sockfd, stack, ops, opened, fresh, undefined, usedDead>>

Elements(seq) == {seq[i] : i \in DOMAIN seq}

\* erase() of one entry of a vector, and of the first one that is p, if there is one.
Erase(seq, i) == [k \in 1..(Len(seq) - 1) |-> IF k < i THEN seq[k] ELSE seq[k + 1]]
Without(seq, p) ==
    IF p \notin Elements(seq) THEN seq
    ELSE Erase(seq, CHOOSE i \in DOMAIN seq : seq[i] = p /\ \A j \in 1..(i - 1) : seq[j] # p)

\* A call in progress: the function, where it stands, the peer it closes or
\* writes to, its index (from 0), how many peers were retired since its last turn
\* began, and the vector its iterators were taken from.
Frame(fn, at, peer) ==
    [fn |-> fn, at |-> at, peer |-> peer, index |-> 0, retired |-> 0, view |-> <<>>]

NoPeer == "none"
Top == stack[Len(stack)]
Below == SubSeq(stack, 1, Len(stack) - 1)
Push(frame) == Append(stack, frame)
Replace(frame) == Append(Below, frame)
At(place) == [Top EXCEPT !.at = place]
In(fn, at) == stack # <<>> /\ Top.fn = fn /\ Top.at = at

\* The runs of close_owned_peers, and the stack after one more peer was retired.
ClosingAll == {k \in DOMAIN stack : stack[k].fn = "close_all"}
Counted == [k \in DOMAIN stack |->
                IF k \in ClosingAll THEN [stack[k] EXCEPT !.retired = @ + 1] ELSE stack[k]]

\* A server that listens and has no peers yet.
Init ==
    /\ owned = <<>> /\ members = <<>> /\ closing = FALSE
    /\ alive = {} /\ open = {}
    /\ sockfd = 1 /\ opened = {1}
    /\ stack = <<>> /\ ops = 0 /\ fresh = {}
    /\ undefined = FALSE /\ usedDead = FALSE

-------------------------------------------------------------------------------
(* Calls made by user code                                                 *)

UserRuns == stack # <<>> => Top.at = "handler"

Calls ==
    /\ UserRuns /\ ops < MaxOps /\ Len(stack) < MaxDepth
    /\ ops' = ops + 1

\* accept(): a connection was waiting, a peer object is made and owned.
Accept ==
    /\ Calls /\ sockfd # 0
    /\ \E p \in Peers \ alive :
          /\ alive' = alive \union {p} /\ open' = open \union {p}
          /\ owned' = Append(owned, p) /\ members' = Append(members, p)
          /\ fresh' = fresh \union {p}
    /\ UNCHANGED <<closing, sockfd, stack, opened, undefined, usedDead>>

\* accept() without a peer: the listener is closed, nothing was waiting, or the
\* descriptor or its peer could not be set up and was closed again.
AcceptFails ==
    /\ Calls
    /\ UNCHANGED <<collVars, sockfd, stack, opened, fresh, undefined, usedDead>>

\* Mutant: the retired peer stays in the member view.
RemovePeerOnly(p) ==
    /\ Calls /\ p \in Elements(owned)
    /\ stack = <<>>
    /\ owned' = Without(owned, p)
    /\ alive' = alive \ {p} /\ open' = open \ {p} /\ fresh' = fresh \ {p}
    /\ UNCHANGED <<members, closing, sockfd, stack, opened, undefined, usedDead>>

\* remove_owned_peer up to retired->close().  A peer already closed has no
\* handler to run and is destroyed at once.
RemovePeer(p) ==
    /\ Calls /\ p \in Elements(owned)
    /\ \A k \in ClosingAll : stack[k].retired < PerTurn
    /\ owned' = Without(owned, p) /\ members' = Without(members, p)
    /\ IF p \in open
       THEN /\ open' = open \ {p}
            /\ stack' = Append(Counted, Frame("remove", "handler", p))
            /\ UNCHANGED <<alive, fresh>>
       ELSE /\ alive' = alive \ {p} /\ fresh' = fresh \ {p}
            /\ stack' = Counted
            /\ UNCHANGED open
    /\ UNCHANGED <<closing, sockfd, opened, undefined, usedDead>>

\* peer->close(), by the application or by poll().
ClosePeer(p) ==
    /\ Calls /\ p \in open /\ p \in Elements(owned)
    /\ open' = open \ {p}
    /\ stack' = Push(Frame("peer_close", "handler", p))
    /\ UNCHANGED <<owned, members, closing, alive, sockfd, opened, fresh, undefined, usedDead>>

\* peers().remove(index, count): the view loses members, the server keeps them.
RemoveMembers(i, count) ==
    /\ Calls /\ i \in DOMAIN members /\ count # 0
    /\ members' = SubSeq(members, 1, i - 1) \o SubSeq(members, i + count, Len(members))
    /\ UNCHANGED <<owned, closing, alive, open, sockfd, stack, opened, fresh, undefined, usedDead>>

Close ==
    /\ Calls
    /\ stack' = Push(Frame("close", "start", NoPeer))
    /\ UNCHANGED <<collVars, sockfd, opened, fresh, undefined, usedDead>>

\* tcp_listen begins with the virtual close().
Listen ==
    /\ Calls
    /\ stack # <<>> => HandlersListen
    /\ stack' = Append(Push(Frame("listen", "socket", NoPeer)),
                       Frame("close", "start", NoPeer))
    /\ UNCHANGED <<collVars, sockfd, opened, fresh, undefined, usedDead>>

\* peer->write(): nothing for a closed peer; on_error first if send failed.
Written(p) == {Frame("write", "handler", p), Frame("write", "report", p)}

WritePeer(p) ==
    /\ Calls /\ Broadcasts /\ p \in open /\ p \in Elements(owned)
    /\ stack' \in {Push(f) : f \in Written(p)}
    /\ UNCHANGED <<collVars, sockfd, opened, fresh, undefined, usedDead>>

Broadcast ==
    /\ Calls /\ Broadcasts
    /\ stack' = Push([Frame("broadcast", "loop", NoPeer) EXCEPT !.view = members])
    /\ UNCHANGED <<collVars, sockfd, opened, fresh, undefined, usedDead>>

UserCall ==
    \/ Accept \/ AcceptFails
    \/ \E p \in Peers : RemovePeer(p) \/ ClosePeer(p) \/ WritePeer(p)
    \/ \E i \in DOMAIN members, count \in 1..Len(members) : RemoveMembers(i, count)
    \/ Close
    \/ Listen
    \/ Broadcast

-------------------------------------------------------------------------------
(* server_event_socket::close and listen                                   *)

\* event_socket::close of the listener: on_close runs if it was open.
CloseListener ==
    /\ In("close", "start")
    /\ sockfd' = 0 /\ opened' = opened \ {sockfd}
    /\ stack' = Replace(At(IF sockfd = 0 THEN "peers" ELSE "handler"))
    /\ UNCHANGED <<collVars, ops, fresh, undefined, usedDead>>

\* close_owned_peers(): nothing if one is already running.
EnterClosePeers(caller) ==
    IF closing
    THEN stack' = caller /\ UNCHANGED <<closing, fresh>>
    ELSE /\ closing' = TRUE /\ fresh' = {}
         /\ stack' = Append(caller, Frame("close_all", "loop", NoPeer))

\* return close_owned_peers() || changed
ClosePeersOfListener ==
    /\ In("close", "peers")
    /\ EnterClosePeers(Below)
    /\ UNCHANGED <<owned, members, alive, open, sockfd, ops, opened, undefined, usedDead>>

\* sockfd = ::socket(...), the lowest number that is free; bind, listen.
ListenSocket ==
    /\ In("listen", "socket")
    /\ \/ /\ sockfd' = 0 /\ stack' = Below
          /\ UNCHANGED opened
       \/ \E n \in 1..(MaxOps + 2) :
          /\ n \notin opened /\ \A k \in 1..(n - 1) : k \in opened
          /\ sockfd' = n /\ opened' = opened \union {n}
          /\ stack' \in {Replace(At("peers")),
                         Append(Replace(At("failed")), Frame("close", "start", NoPeer))}
    /\ UNCHANGED <<collVars, ops, fresh, undefined, usedDead>>

ListenFailed ==
    /\ In("listen", "failed")
    /\ stack' = Below
    /\ UNCHANGED <<collVars, sockfd, ops, opened, fresh, undefined, usedDead>>

\* Do not leave live peers attached to a replaced listener.
ListenClosesPeers ==
    /\ In("listen", "peers")
    /\ EnterClosePeers(Replace(At("finish")))
    /\ UNCHANGED <<owned, members, alive, open, sockfd, ops, opened, undefined, usedDead>>

\* set_blocking(false), then on_listen; socket::close on failure.
ListenFinish ==
    /\ In("listen", "finish")
    /\ \/ /\ sockfd # 0
          /\ stack' = Replace(At("handler"))
          /\ UNCHANGED <<sockfd, opened>>
       \/ /\ sockfd' = 0 /\ opened' = opened \ {sockfd}
          /\ stack' = Below
    /\ UNCHANGED <<collVars, ops, fresh, undefined, usedDead>>

-------------------------------------------------------------------------------
(* The loops: close_owned_peers and broadcast                              *)

\* while (index < owned.size()) owned[index]->close()
ClosePeersStep ==
    /\ In("close_all", "loop") /\ Top.index < Len(owned)
    /\ LET p == owned[Top.index + 1] IN
       /\ open' = open \ {p}
       /\ stack' = Replace([Top EXCEPT !.peer = p, !.retired = 0,
                                       !.at = IF p \in open THEN "handler" ELSE "next"])
    /\ UNCHANGED <<owned, members, closing, alive, sockfd, ops, opened, fresh, undefined, usedDead>>

\* Mutants: the index always advances, or never does.
AlwaysNext ==
    /\ In("close_all", "next")
    /\ stack' = Replace([Top EXCEPT !.at = "loop", !.peer = NoPeer, !.index = @ + 1])
    /\ UNCHANGED <<collVars, sockfd, ops, opened, fresh, undefined, usedDead>>
NeverNext ==
    /\ In("close_all", "next")
    /\ stack' = Replace([Top EXCEPT !.at = "loop", !.peer = NoPeer])
    /\ UNCHANGED <<collVars, sockfd, ops, opened, fresh, undefined, usedDead>>

\* Recheck the current slot: advance only if it still holds the closed peer.
ClosePeersNext ==
    /\ In("close_all", "next")
    /\ LET same == Top.index < Len(owned) /\ owned[Top.index + 1] = Top.peer IN
       stack' = Replace([Top EXCEPT !.at = "loop", !.peer = NoPeer,
                                    !.index = IF same THEN @ + 1 ELSE @])
    /\ UNCHANGED <<collVars, sockfd, ops, opened, fresh, undefined, usedDead>>

ClosePeersEnd ==
    /\ In("close_all", "loop") /\ Top.index >= Len(owned)
    /\ closing' = FALSE
    /\ stack' = Below
    /\ UNCHANGED <<owned, members, alive, open, sockfd, ops, opened, fresh, undefined, usedDead>>

\* for (auto* peer : sockets) peer->write(...): erase and push_back leave the
\* loop with invalid iterators, after which nothing is promised.
BroadcastStep ==
    /\ In("broadcast", "loop") /\ members = Top.view /\ Top.index < Len(members)
    /\ LET p == members[Top.index + 1]
           advanced == Replace([Top EXCEPT !.index = @ + 1])
       IN  stack' \in IF p \in open THEN {Append(advanced, f) : f \in Written(p)}
                                    ELSE {advanced}
    /\ UNCHANGED <<collVars, sockfd, ops, opened, fresh, undefined, usedDead>>

BroadcastEnd ==
    /\ In("broadcast", "loop")
    /\ members = Top.view => Top.index >= Len(members)
    /\ undefined' = (undefined \/ members # Top.view)
    /\ stack' = Below
    /\ UNCHANGED <<collVars, sockfd, ops, opened, fresh, usedDead>>

\* fire_on_write, a member function of the peer, after on_error.
WriteReport ==
    /\ In("write", "report")
    /\ usedDead' = (usedDead \/ Top.peer \notin alive)
    /\ stack' = Replace(Frame("written", "handler", Top.peer))
    /\ UNCHANGED <<collVars, sockfd, ops, opened, fresh, undefined>>

-------------------------------------------------------------------------------
(* The end of a handler                                                    *)

\* `retired' goes out of scope: the peer is destroyed.
Destroy(p) == alive' = alive \ {p} /\ fresh' = fresh \ {p}

HandlerReturns ==
    /\ stack # <<>> /\ Top.at = "handler"
    /\ stack' = CASE Top.fn = "close"     -> Replace(At("peers"))
                  [] Top.fn = "close_all" -> Replace(At("next"))
                  [] Top.fn = "write"     -> Replace(At("report"))
                  [] OTHER                -> Below
    /\ IF Top.fn = "remove" THEN Destroy(Top.peer) ELSE UNCHANGED <<alive, fresh>>
    /\ UNCHANGED <<owned, members, closing, open, sockfd, ops, opened, undefined, usedDead>>

\* An exception leaves the call that ran the handler, with the clean-up of its
\* locals, and every library call between it and the handler outside, which
\* may catch it.
Passes(k) == stack[k].at # "handler"
Outer == {k \in 1..(Len(stack) - 1) : ~Passes(k)}
Unwound == IF Outer = {} THEN <<>>
           ELSE SubSeq(stack, 1, CHOOSE k \in Outer : \A j \in Outer : j <= k)

HandlerThrows ==
    /\ stack # <<>> /\ Top.at = "handler"
    /\ stack' = Unwound
    /\ LET left == SubSeq(stack, Len(Unwound) + 1, Len(stack)) IN
       closing' = (closing /\ \A f \in Elements(left) : f.fn # "close_all")
    /\ IF Top.fn = "remove" THEN Destroy(Top.peer) ELSE UNCHANGED <<alive, fresh>>
    /\ UNCHANGED <<owned, members, open, sockfd, ops, opened, undefined, usedDead>>

ServerStep ==
    \/ CloseListener \/ ClosePeersOfListener
    \/ ListenSocket \/ ListenFailed \/ ListenClosesPeers \/ ListenFinish
    \/ ClosePeersStep \/ ClosePeersNext \/ ClosePeersEnd
    \/ BroadcastStep \/ BroadcastEnd \/ WriteReport

Next == UserCall \/ ServerStep \/ HandlerReturns \/ HandlerThrows

Spec == Init /\ [][Next]_vars

\* The server's own steps are taken and handlers end.
FairSpec == Spec /\ WF_vars(ServerStep) /\ WF_vars(HandlerReturns \/ HandlerThrows)

-------------------------------------------------------------------------------
(* Properties                                                              *)

Frames == [fn : {"remove", "peer_close", "close", "listen", "close_all", "broadcast",
                 "write", "written"},
           at : {"handler", "start", "peers", "socket", "failed", "finish", "loop",
                 "next", "report"},
           peer : Peers \union {NoPeer}, index : Nat, retired : Nat, view : Seq(Peers)]

\* Type invariant of the collection, the listener and the calls in progress.
TypeOK ==
    /\ owned \in Seq(Peers) /\ members \in Seq(Peers) /\ closing \in BOOLEAN
    /\ alive \subseteq Peers /\ open \subseteq Peers /\ fresh \subseteq Peers
    /\ sockfd \in Nat /\ opened \subseteq Nat /\ ops \in Nat
    /\ stack \in Seq(Frames)
    /\ undefined \in BOOLEAN /\ usedDead \in BOOLEAN

Retiring == {k \in DOMAIN stack : stack[k].fn = "remove"}
Injective(seq) == \A i, j \in DOMAIN seq : seq[i] = seq[j] => i = j

\* Every peer object has exactly one owner, the vector or one remove_owned_peer
\* in progress, so that it is destroyed once and never lost, whatever close
\* handlers remove and throw; the member view holds no peer the server does not
\* own, and a peer on its way out is closed.  closing_peers is set exactly while
\* one close_owned_peers runs: reentrant closes do not recurse, and an exception
\* never leaves the flag behind.
OwnershipConsistent ==
    /\ TypeOK
    /\ Injective(owned) /\ Injective(members)
    /\ Elements(members) \subseteq Elements(owned)
    /\ open \subseteq Elements(owned)
    /\ alive = Elements(owned) \union {stack[k].peer : k \in Retiring}
    /\ \A k \in Retiring : stack[k].peer \notin Elements(owned)
    /\ \A j, k \in Retiring : stack[j].peer = stack[k].peer => j = k
    /\ Cardinality(ClosingAll) = IF closing THEN 1 ELSE 0

\* When close_owned_peers returns, the peers it found are closed, whatever user
\* code accepted, closed and, up to PerTurn peers in a turn, retired meanwhile.
CloseAllComplete ==
    [][In("close_all", "loop") /\ ~closing' =>
          \A p \in Elements(owned) \ fresh : p \notin open]_vars

\* The listener's object owns every listening descriptor it has opened.
ListenerOwned == opened \subseteq {sockfd}

\* broadcast reaches the other peers whatever a failing peer's handler does.
BroadcastDefined == ~undefined

\* A peer retired by its own on_error handler is not used again by write().
NoUseAfterRetire == ~usedDead

\* close(), listen(), remove_peer() and broadcast() return, reentered or not.
CallsReturn == stack # <<>> ~> stack = <<>>
===============================================================================
