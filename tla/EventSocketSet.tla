---------------------------- MODULE EventSocketSet ----------------------------
(***************************************************************************)
(* event_socket_set: the registries of non-owning tokens and the dispatch  *)
(* of one poll() (src/event_socket_set.cpp).                               *)
(*                                                                         *)
(* poll() works on a snapshot.  For each watched descriptor it runs a      *)
(* short script of user callbacks and closes, and user code that runs in   *)
(* a callback may add, remove, close, reconnect or destroy any socket,     *)
(* the one being dispatched included.  `todo' is what is left of the       *)
(* current script; the order of its entries is the order of the code.      *)
(*                                                                         *)
(* A descriptor number says nothing of the connection behind it: gen[s]    *)
(* counts the descriptors opened by s, so that gen tells two connections   *)
(* with the same number apart.                                             *)
(***************************************************************************)
EXTENDS Integers, Sequences, FiniteSets

CONSTANTS
    Streams,        \* event_socket objects, listeners excluded
    Listeners,      \* server_event_socket objects
    Datagrams,      \* udp_event_socket objects
    Tls,            \* the streams with a TLS transport
    Reuse,          \* TRUE: the OS hands out the lowest free number (POSIX)
    Threads,        \* TRUE: another thread adds and removes registrations
    CanDestroy,     \* TRUE: callbacks destroy sockets they deregistered
    MaxTokens,      \* bound: registrations made in a behaviour
    MaxOps          \* bound: operations of user code in a behaviour

Tcp == Streams \union Listeners
Sockets == Tcp \union Datagrams

ASSUME KindsAssumption ==
    /\ Tls \subseteq Streams
    /\ Streams \cap Listeners = {} /\ Tcp \cap Datagrams = {}
    /\ IsFiniteSet(Sockets)
ASSUME SwitchAssumption ==
    /\ Reuse \in BOOLEAN /\ Threads \in BOOLEAN /\ CanDestroy \in BOOLEAN
    /\ MaxTokens \in Nat /\ MaxOps \in Nat

VARIABLES
    alive,          \* objects not destroyed
    fd, gen,        \* sockfd (0: invalid) and the count of descriptors opened
    lastFd,         \* highest number handed out
    tokens,         \* tokens[t]: the socket of registration t, in creation order
    active,         \* registrations whose atomic flag is still set
    tcp, udp,       \* entries_ of the two registries
    pc,             \* poll(): "idle", "snapshot", "wait", "dispatch"
    snap,           \* entries of the snapshots not looked at yet
    watched,        \* descriptors watched by this poll
    cursor,         \* index of the one being dispatched
    todo,           \* rest of its script
    cb,             \* the callback that is running, or NoCallback
    ops,            \* operations of user code so far
    usedDead,       \* history: poll() read an object after its destruction
    nullUse,        \* history: poll() called through a token that gave null
    late            \* history: tokens another thread deactivated between poll()'s
                    \* check and the call it had decided on, until that call ends

objVars == <<alive, fd, gen, lastFd>>
regVars == <<tokens, active, tcp, udp>>
pollVars == <<snap, watched, cursor, todo>>
vars == <<objVars, regVars, pc, pollVars, cb, ops, usedDead, nullUse, late>>

NoCallback == [level |-> "none", ev |-> "none", tok |-> 0]

ToSet(seq) == {seq[i] : i \in DOMAIN seq}

\* The numbers the OS gave the sockets first: some choice of different ones.
Numbering == CHOOSE n \in [Sockets -> 1..Cardinality(Sockets)] :
                \A s, r \in Sockets : s # r => n[s] # n[r]

Init ==
    /\ alive = Sockets
    /\ fd = Numbering
    /\ gen = [s \in Sockets |-> 1]
    /\ lastFd = Cardinality(Sockets)
    /\ tokens = <<>> /\ active = {} /\ tcp = <<>> /\ udp = <<>>
    /\ pc = "idle" /\ snap = <<>> /\ watched = <<>> /\ cursor = 0 /\ todo = <<>>
    /\ cb = NoCallback /\ ops = 0 /\ usedDead = FALSE /\ nullUse = FALSE /\ late = {}

-------------------------------------------------------------------------------
(* Registration: add, remove_socket, remove_index, under the registry mutex *)

\* find: an entry whose flag is set and whose pointer is s.
Registered(s) == \E t \in active : tokens[t] = s

Add(s) ==
    /\ ~Registered(s)
    /\ Len(tokens) < MaxTokens
    /\ tokens' = Append(tokens, s)
    /\ active' = active \union {Len(tokens) + 1}
    /\ IF s \in Datagrams
       THEN udp' = Append(udp, Len(tokens) + 1) /\ UNCHANGED tcp
       ELSE tcp' = Append(tcp, Len(tokens) + 1) /\ UNCHANGED udp
    /\ UNCHANGED objVars

\* entries_.erase(entries_.begin() + i - 1)
Erase(registry, i) ==
    [k \in 1..(Len(registry) - 1) |-> IF k < i THEN registry[k] ELSE registry[k + 1]]

\* Mutant: the token of an erased entry stays active.
RemoveTcpActive(i) == tcp' = Erase(tcp, i) /\ UNCHANGED <<tokens, active, udp, objVars>>

\* deactivate(), then erase.
RemoveTcp(i) ==
    /\ active' = active \ {tcp[i]}
    /\ tcp' = Erase(tcp, i)
    /\ UNCHANGED <<tokens, udp, objVars>>

RemoveUdp(i) ==
    /\ active' = active \ {udp[i]}
    /\ udp' = Erase(udp, i)
    /\ UNCHANGED <<tokens, tcp, objVars>>

\* remove_socket, remove_udp_socket
RemoveSocket(s) ==
    \/ \E i \in DOMAIN tcp : tcp[i] \in active /\ tokens[tcp[i]] = s /\ RemoveTcp(i)
    \/ \E i \in DOMAIN udp : udp[i] \in active /\ tokens[udp[i]] = s /\ RemoveUdp(i)

\* remove(index): TCP registrations first, then UDP.
RemoveIndex(index) ==
    \/ index < Len(tcp) /\ RemoveTcp(index + 1)
    \/ index >= Len(tcp) /\ index - Len(tcp) < Len(udp) /\ RemoveUdp(index - Len(tcp) + 1)

-------------------------------------------------------------------------------
(* Sockets as user code drives them.  Destruction follows deregistration.  *)

InUse == {fd[s] : s \in Sockets}
LowestFree(taken) == CHOOSE n \in 1..(Cardinality(Sockets) + 1) :
                        n \notin taken /\ \A m \in 1..(n - 1) : m \in taken

CloseSocket(s) ==
    /\ s \in alive /\ fd[s] # 0
    /\ fd' = [fd EXCEPT ![s] = 0]
    /\ UNCHANGED <<alive, gen, lastFd, regVars>>

\* connect(), listen(): TCP closes its descriptor before it opens another, UDP
\* replaces it once the new one is bound.
Reconnect(s) ==
    /\ s \in alive
    /\ LET taken == IF s \in Datagrams THEN InUse ELSE InUse \ {fd[s]}
           n == IF Reuse THEN LowestFree(taken) ELSE lastFd + 1
       IN  /\ fd' = [fd EXCEPT ![s] = n]
           /\ lastFd' = IF n > lastFd THEN n ELSE lastFd
    /\ gen' = [gen EXCEPT ![s] = @ + 1]
    /\ UNCHANGED <<alive, regVars>>

Destroy(s) ==
    /\ CanDestroy
    /\ s \in alive /\ ~Registered(s)
    /\ alive' = alive \ {s}
    /\ fd' = [fd EXCEPT ![s] = 0]
    /\ UNCHANGED <<gen, lastFd, regVars>>

RegistrationOp ==
    \/ \E s \in alive : Add(s) \/ RemoveSocket(s)
    \/ \E index \in 0..(Len(tcp) + Len(udp) - 1) : RemoveIndex(index)

\* poll() is about to make a call of the set's handlers.
Calling == pc = "dispatch" /\ cb = NoCallback /\ todo # <<>> /\ Head(todo).op = "call"

\* One operation of user code: between polls, or in a callback of this poll.
UserOp ==
    /\ ops < MaxOps
    /\ ops' = ops + 1
    /\ \/ /\ pc = "idle" \/ cb # NoCallback
          /\ \/ RegistrationOp
             \/ \E s \in Sockets : CloseSocket(s) \/ Reconnect(s) \/ Destroy(s)
       \/ Threads /\ RegistrationOp
    /\ late' = IF Calling THEN late \union (active \ active') ELSE late
    /\ UNCHANGED <<pc, pollVars, cb, usedDead, nullUse>>

-------------------------------------------------------------------------------
(* poll()                                                                  *)

\* Script entries: socket-level and set-level callbacks, closes, the flush.
Events == {"none", "data", "error", "close", "connect", "listen", "datagram", "drain"}
Entries == [op : {"sock", "set", "set_same", "call", "close", "close_active",
                  "close_same_terminal", "flush", "due"}, ev : Events]

Sock(ev)    == [op |-> "sock", ev |-> ev]
Set(ev)     == [op |-> "set", ev |-> ev]
SetSame(ev) == [op |-> "set_same", ev |-> ev]
Call(ev)    == [op |-> "call", ev |-> ev]
Step(op)    == [op |-> op, ev |-> "none"]

Failure == <<Sock("error"), Set("error")>>

\* poll(): try_lock, then the TCP snapshot.  (A poll that does not get the
\* mutex returns -1 and changes nothing.)
PollEnter ==
    /\ pc = "idle"
    /\ snap' = tcp
    /\ pc' = "snapshot"
    /\ UNCHANGED <<objVars, regVars, watched, cursor, todo, cb, ops, usedDead, nullUse, late>>

Watchable(t) == t \in active /\ fd[tokens[t]] # 0

\* The UDP snapshot follows; another thread may change the registries between.
PollSnapshot ==
    /\ pc = "snapshot"
    /\ snap' = snap \o udp
    /\ pc' = "wait"
    /\ UNCHANGED <<objVars, regVars, watched, cursor, todo, cb, ops, usedDead, nullUse, late>>

\* One turn of the loops that fill `watched': a registration that is still active
\* is watched, with the descriptor it has now.
PollWatch ==
    /\ pc = "wait" /\ snap # <<>>
    /\ snap' = Tail(snap)
    /\ LET t == Head(snap)
           s == tokens[t]
       IN  watched' = IF Watchable(t)
                      THEN Append(watched, [tok |-> t, fd |-> fd[s], gen |-> gen[s]])
                      ELSE watched
    /\ UNCHANGED <<objVars, regVars, pc, cursor, todo, cb, ops, usedDead, nullUse, late>>

\* Leave poll(): the locals die, the mutex is released.
Leave ==
    /\ pc' = "idle" /\ watched' = <<>> /\ cursor' = 0 /\ todo' = <<>> /\ late' = {}
    /\ UNCHANGED <<objVars, regVars, snap, ops, usedDead, nullUse>>

\* The native poll timed out or failed.
PollNothing == pc = "wait" /\ snap = <<>> /\ Leave /\ UNCHANGED cb

PollReady ==
    /\ pc = "wait" /\ snap = <<>>
    /\ pc' = "dispatch"
    /\ UNCHANGED <<objVars, regVars, pollVars, cb, ops, usedDead, nullUse, late>>

Current == watched[cursor]
Subject == tokens[Current.tok]
IsActive == Current.tok \in active
IsOpen == fd[Subject] # 0
IsSame == fd[Subject] = Current.fd

\* Reading a member of an object that no longer exists.
Touches(s) == usedDead' = (usedDead \/ s \notin alive)

\* What one descriptor may be ready for.  POLLHUP counts as IN; POLLNVAL is
\* handled like POLLERR.
Ready(s) ==
    IF s \in Listeners \union Datagrams THEN {{"IN"}, {"ERR"}}
    ELSE {{"IN"}, {"OUT"}, {"IN", "OUT"}, {"ERR"}, {"ERR", "OUT"}}

Flush == <<Step("flush")>>

\* A plain stream: poll_step() is 1.  poll_receive gives data, end of stream, a
\* fatal error, or would block; the queue is flushed when the stream is writable.
StreamScripts(flags) ==
    LET reads == {<<Sock("data"), Set("data")>>, <<Step("close"), Set("close")>>,
                  Failure \o <<Step("close_same_terminal")>>, <<>>}
        handled == IF "IN" \in flags THEN reads
                   ELSE IF "ERR" \in flags THEN {Failure} ELSE {<<>>}
    IN  {script \o (IF "OUT" \in flags THEN Flush ELSE <<>>) : script \in handled}

\* A TLS stream: poll_step() is -1 (failed, or a deadline has passed), 3 (orderly
\* shutdown complete), 0 (pending), 2 (handshake complete, on_connect fired inside
\* it), or 1; then either direction may let it read or flush.
TlsScripts(flags) ==
    LET failed == Failure \o <<Step("close_active")>>
        over   == <<Step("close"), Set("close")>>
    IN  CASE "DUE" \in flags -> {failed}
          [] "ERR" \in flags -> {failed, over}
          [] OTHER -> {failed, over, <<>>, <<Sock("connect"), SetSame("connect")>>,
                       <<Sock("data"), Set("data")>> \o Flush,
                       Failure \o <<Step("close_same_terminal")>> \o Flush, Flush}

Scripts(s, flags) ==
    CASE s \in Listeners -> IF "IN" \in flags THEN {<<Call("listen")>>} ELSE {Failure}
      [] s \in Datagrams -> IF "IN" \in flags
                            THEN {<<Sock("datagram"), Set("datagram")>>, Failure, <<>>}
                            ELSE {Failure}
      [] s \in Tls       -> TlsScripts(flags)
      [] OTHER           -> StreamScripts(flags)

Idling == pc = "dispatch" /\ todo = <<>> /\ cb = NoCallback

\* The next watched descriptor.  With flags, a script is chosen for a socket
\* that is still registered and has the same descriptor; without, an active TCP
\* socket is asked for its deadline.
Dispatch ==
    /\ Idling /\ cursor < Len(watched)
    /\ cursor' = cursor + 1
    /\ LET w == watched[cursor + 1]
           s == tokens[w.tok]
       IN  \/ /\ todo' = IF w.tok \in active /\ s \in Tcp THEN <<Step("due")>> ELSE <<>>
              /\ UNCHANGED usedDead
           \/ /\ w.tok \in active
              /\ Touches(s)
              /\ fd[s] # 0 /\ fd[s] = w.fd
              /\ \E flags \in Ready(s) : todo' \in Scripts(s, flags)
    /\ UNCHANGED <<objVars, regVars, pc, snap, watched, cb, ops, nullUse, late>>

\* get_if_active()->poll_timeout_ms() == 0: the token is read a second time.
CheckDue ==
    /\ pc = "dispatch" /\ todo # <<>> /\ cb = NoCallback
    /\ Head(todo).op = "due"
    /\ IF IsActive
       THEN /\ Touches(Subject)
            /\ \/ todo' = <<>>
               \/ /\ Subject \in Tls /\ IsOpen /\ IsSame
                  /\ todo' \in Scripts(Subject, {"DUE"})
            /\ UNCHANGED nullUse
       ELSE nullUse' = TRUE /\ todo' = <<>> /\ UNCHANGED usedDead
    /\ UNCHANGED <<objVars, regVars, pc, snap, watched, cursor, cb, ops, late>>

\* Mutant: poll() waits again after it has dispatched everything.
PollAgain ==
    /\ Idling /\ cursor = Len(watched)
    /\ pc' = "wait" /\ cursor' = 0
    /\ UNCHANGED <<objVars, regVars, snap, watched, todo, cb, ops, usedDead, nullUse, late>>

PollDone == Idling /\ cursor = Len(watched) /\ Leave /\ UNCHANGED cb

Fire(level, ev) == cb' = [level |-> level, ev |-> ev, tok |-> Current.tok]

\* event_socket::close by poll(): on_close runs if a descriptor was open and the
\* OS closed it without an error.
CloseByPoll ==
    /\ fd' = [fd EXCEPT ![Subject] = 0]
    /\ IF IsOpen THEN Fire("sock", "close") \/ UNCHANGED cb ELSE UNCHANGED cb

ScriptStep ==
    /\ pc = "dispatch" /\ todo # <<>> /\ cb = NoCallback
    /\ UNCHANGED <<regVars, pc, snap, watched, cursor, alive, gen, lastFd, ops, nullUse, late>>

\* The head of the script is done.
Consume == todo' = Tail(todo)

FireSocket ==
    /\ ScriptStep /\ Head(todo).op = "sock"
    /\ Consume /\ Touches(Subject) /\ Fire("sock", Head(todo).ev)
    /\ UNCHANGED fd

\* What was checked is called, by a step of its own: another thread may deactivate
\* the registration in between.
Decide(granted) ==
    todo' = IF granted THEN <<Call(Head(todo).ev)>> \o Tail(todo) ELSE Tail(todo)

\* Mutant: the registration is not checked again after the socket's handler.
CheckSetStale ==
    /\ ScriptStep /\ Head(todo).op = "set"
    /\ Decide(TRUE)
    /\ UNCHANGED <<fd, cb, usedDead>>

\* if (watch.tcp->get_if_active())
CheckSet ==
    /\ ScriptStep /\ Head(todo).op = "set"
    /\ Decide(IsActive)
    /\ UNCHANGED <<fd, cb, usedDead>>

\* if (watch.tcp->get_if_active() && s->is_valid_socket() && s->sockfd == watch.fd)
CheckSetSame ==
    /\ ScriptStep /\ Head(todo).op = "set_same"
    /\ Decide(IsActive /\ IsOpen /\ IsSame)
    /\ IF IsActive THEN Touches(Subject) ELSE UNCHANGED usedDead
    /\ UNCHANGED <<fd, cb>>

\* fire_on_socket_...(s)
FireSet ==
    /\ ScriptStep /\ Head(todo).op = "call"
    /\ Consume /\ Fire("set", Head(todo).ev) /\ Touches(Subject)
    /\ UNCHANGED fd

\* s->close(), unconditional: nothing ran since the socket was checked.
CloseNow ==
    /\ ScriptStep /\ Head(todo).op = "close"
    /\ Consume /\ Touches(Subject) /\ CloseByPoll

\* Mutant: the registration is not checked before the close.
CloseStale ==
    /\ ScriptStep /\ Head(todo).op = "close_active"
    /\ Consume /\ Touches(Subject)
    /\ IF IsOpen THEN CloseByPoll ELSE UNCHANGED <<fd, cb>>

\* After a failed poll_step: if (active && valid) s->close()
CloseActive ==
    /\ ScriptStep /\ Head(todo).op = "close_active"
    /\ Consume
    /\ IF IsActive THEN Touches(Subject) ELSE UNCHANGED usedDead
    /\ IF IsActive /\ IsOpen THEN CloseByPoll ELSE UNCHANGED <<fd, cb>>

\* After a read or flush error: the same, for the same descriptor of a TLS socket.
CloseSameTerminal ==
    /\ ScriptStep /\ Head(todo).op = "close_same_terminal"
    /\ Consume
    /\ IF IsActive THEN Touches(Subject) ELSE UNCHANGED usedDead
    /\ IF IsActive /\ IsOpen /\ IsSame /\ Subject \in Tls
       THEN CloseByPoll ELSE UNCHANGED <<fd, cb>>

\* Mutant: the descriptor is not compared again before the flush.
FlushReplaced ==
    /\ ScriptStep /\ Head(todo).op = "flush"
    /\ IF IsActive THEN Touches(Subject) ELSE UNCHANGED usedDead
    /\ todo' \in IF IsActive /\ IsOpen
                 THEN {<<>>, Failure \o <<Step("close_same_terminal")>>,
                       <<Sock("drain"), Set("drain")>>}
                 ELSE {<<>>}
    /\ UNCHANGED <<fd, cb>>

\* flush_queued: nothing to report, an error, or drained.
FlushOutput ==
    /\ ScriptStep /\ Head(todo).op = "flush"
    /\ IF IsActive THEN Touches(Subject) ELSE UNCHANGED usedDead
    /\ todo' \in IF IsActive /\ IsOpen /\ IsSame
                 THEN {<<>>, Failure \o <<Step("close_same_terminal")>>,
                       <<Sock("drain"), Set("drain")>>}
                 ELSE {<<>>}
    /\ UNCHANGED <<fd, cb>>

CallbackReturns ==
    /\ cb # NoCallback
    /\ cb' = NoCallback /\ late' = {}
    /\ UNCHANGED <<objVars, regVars, pc, pollVars, ops, usedDead, nullUse>>

\* Exceptions of callbacks propagate out of poll().
CallbackThrows == cb # NoCallback /\ cb' = NoCallback /\ Leave

PollStep ==
    \/ PollEnter \/ PollSnapshot \/ PollWatch \/ PollNothing \/ PollReady \/ Dispatch
    \/ PollDone \/ FireSocket \/ CheckSet \/ CheckSetSame \/ FireSet \/ CloseNow
    \/ CloseActive \/ CloseSameTerminal \/ FlushOutput \/ CheckDue

Next == PollStep \/ CallbackReturns \/ CallbackThrows \/ UserOp

Spec == Init /\ [][Next]_vars

\* poll() advances, and callbacks return or throw.
FairSpec ==
    /\ Spec
    /\ WF_vars(PollStep)
    /\ WF_vars(CallbackReturns \/ CallbackThrows)

-------------------------------------------------------------------------------
(* Properties                                                              *)

Watches == [tok : Nat, fd : Nat, gen : Nat]
Callbacks == [level : {"none", "sock", "set"}, ev : Events, tok : Nat]

\* Type invariant of the registries and of the poll in progress.
TypeOK ==
    /\ alive \subseteq Sockets
    /\ fd \in [Sockets -> Nat] /\ gen \in [Sockets -> Nat] /\ lastFd \in Nat
    /\ tokens \in Seq(Sockets) /\ active \subseteq Nat
    /\ tcp \in Seq(Nat) /\ udp \in Seq(Nat) /\ snap \in Seq(Nat)
    /\ pc \in {"idle", "snapshot", "wait", "dispatch"}
    /\ watched \in Seq(Watches)
    /\ cursor \in Nat /\ ops \in Nat /\ usedDead \in BOOLEAN /\ nullUse \in BOOLEAN
    /\ todo \in Seq(Entries)
    /\ cb \in Callbacks /\ late \subseteq Nat

\* The flags of the tokens and the two entry lists agree at every moment:
\* an entry is active, an active token is an entry of the registry of its kind,
\* and no socket is registered twice.
RegistryConsistent ==
    /\ TypeOK
    /\ active = ToSet(tcp) \union ToSet(udp)
    /\ \A t \in active : t \in DOMAIN tokens
    /\ \A t \in ToSet(tcp) : tokens[t] \in Tcp
    /\ \A t \in ToSet(udp) : tokens[t] \in Datagrams
    /\ \A t, u \in active : tokens[t] = tokens[u] => t = u

\* poll() never reads a socket that a callback destroyed, the one it is
\* dispatching included, as long as it was deregistered first.
NoUseAfterDestroy == ~usedDead

\* poll() never calls a socket through the null pointer a deactivated token
\* gives, also when another thread removes the registration under it.
NoNullToken == ~nullUse

\* Set-level callbacks run only for a registration that was active when this
\* poll took its snapshot and that no callback has removed since: only a removal
\* by another thread, after the last check of the token, may come too late.  And
\* one poll dispatches a socket once: a socket that was removed and added again
\* waits for the next poll.
FanoutIsRegistered ==
    [][cb = NoCallback /\ cb'.level = "set" =>
          /\ cb'.tok \in active \union late
          /\ \A k \in DOMAIN watched : tokens[watched[k].tok] = Subject => k = cursor]_vars

\* The socket still has the connection poll() watched: the same one, or, where the
\* OS reuses numbers, one that poll() cannot tell from it.
StillWatched == gen[Subject] = Current.gen \/ (Reuse /\ IsSame)

\* A failure is reported to the connection on which poll() saw it, and a close of
\* poll() hits that connection, never one that a callback opened meanwhile on the
\* same socket.  (The close after a failed TLS step is the exception that
\* ClosesWhatItWatched is about.)
ActsOnWatched ==
    [][/\ cb = NoCallback /\ pc = "dispatch"
       /\ \/ cb'.level = "sock" /\ cb'.ev = "error"
          \/ fd' # fd /\ Head(todo).op # "close_active"
       => StillWatched]_vars

\* Every close of poll() hits the connection it watched, never one that a callback
\* opened meanwhile on the same socket.
ClosesWhatItWatched ==
    [][cb = NoCallback /\ pc = "dispatch" /\ fd' # fd => StillWatched]_vars

\* A poll that found something ready ends, whatever the callbacks do.
PollEnds == pc = "dispatch" ~> pc = "idle"
===============================================================================
