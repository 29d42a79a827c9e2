--------------------------------- MODULE Pong ---------------------------------
(***************************************************************************)
(* The UDP Pong example: a server with two seats (example/pong_server.cpp) *)
(* and its clients (example/pong-client.cpp) over a network that loses,    *)
(* duplicates and reorders datagrams, with a server that may stop and      *)
(* start again, in the same process or in a new one.                       *)
(*                                                                         *)
(* Commands U, D and N do to a seat what a heartbeat does, besides moving  *)
(* a paddle; the field is modelled in PongField.  Sequence numbers only    *)
(* matter by comparison.  Snapshots of one server process are numbered in  *)
(* order; those of two processes compare in any way.  A snapshot is        *)
(* therefore `cur' or `old', by the process that sent it, and a client's   *)
(* view is the process whose snapshot it shows, or `none' before the first.*)
(***************************************************************************)
EXTENDS PongField, FiniteSets

CONSTANTS
    Clients,    \* pong-client processes
    Others,     \* other programs, which send any command at any time
    NoOne,      \* the endpoint of a free seat
    IdleTicks,  \* steps after which a silent seat is freed (5000 ms / tick_ms)
    MaxNet,     \* bound: datagrams in flight
    MaxDups,    \* bound: datagrams duplicated in a behaviour
    MaxStops    \* bound: stops of the server in a behaviour

ASSUME PongAssumption ==
    /\ Clients \cap Others = {} /\ NoOne \notin Clients \union Others
    /\ IsFiniteSet(Clients) /\ IsFiniteSet(Others)
    /\ IdleTicks \in Nat \ {0} /\ MaxNet \in Nat /\ MaxDups \in Nat /\ MaxStops \in Nat

VARIABLES
    up,         \* server: running_
    seats,      \* server: players_[i]: endpoint and inactivity
    running,    \* running[c]: the client's loop goes on
    player,     \* player[c]: the number it was told, or 0
    view,       \* view[c]: whose snapshot it shows
    quiet,      \* quiet[c]: no snapshot accepted for more than three seconds
    net,        \* datagrams in flight
    dups, stops \* how many duplicates and stops so far

clientVars == <<running, player, view, quiet>>
vars == <<up, seats, clientVars, net, dups, stops>>

Seats == {1, 2}
Endpoints == Clients \union Others
Free == [endpoint |-> NoOne, idle |-> 0]
Taken(i) == seats[i].endpoint # NoOne

\* Datagrams: commands to the server, and its answers to a client.
Command(c, cmd) == [client |-> c, dir |-> "server", what |-> cmd]
Answer(c, what) == [client |-> c, dir |-> "client", what |-> what]
Welcome(c, i)   == Answer(c, IF i = 1 THEN "W1" ELSE "W2")

Init ==
    /\ up = TRUE /\ seats = [i \in Seats |-> Free]
    /\ running = [c \in Clients |-> TRUE] /\ player = [c \in Clients |-> 0]
    /\ view = [c \in Clients |-> "none"] /\ quiet = [c \in Clients |-> FALSE]
    /\ net = {} /\ dups = 0 /\ stops = 0

-------------------------------------------------------------------------------
(* The network                                                             *)

\* `taken' leave the network, and of the datagrams sent any may be lost.
Exchange(taken, sent) ==
    \E kept \in SUBSET sent :
        /\ net' = (net \ taken) \union kept
        /\ Cardinality(net') <= MaxNet

\* A datagram arrives; a copy of it may arrive again.  Those of other programs come
\* at any time, so that the network need not hold them.
Arrives(m, sent) ==
    /\ m \in net \/ m.client \in Others
    /\ \/ Exchange({m}, sent) /\ UNCHANGED dups
       \/ m \in net /\ dups < MaxDups /\ dups' = dups + 1 /\ Exchange({}, sent)

Lose(m) ==
    /\ m \in net
    /\ net' = net \ {m}
    /\ UNCHANGED <<up, seats, clientVars, dups, stops>>

-------------------------------------------------------------------------------
(* Server: datagram(), step(), stop(), start()                             *)

\* seat(from)
SeatOf(e) == {i \in Seats : seats[i].endpoint = e /\ Taken(i)}

\* snapshot(): one frame to every seated player (nobody models the others' ends).
Snapshot(s) == {Answer(s[i].endpoint, "cur") : i \in {j \in Seats : s[j].endpoint \in Clients}}

ToClients(answers) == {m \in answers : m.client \in Clients}

\* Mutant: a seat is looked for without asking who has one.
OfferedAgain(e) == {i \in Seats : ~Taken(i) /\ \A j \in Seats : j < i => Taken(j)}

\* The first free seat goes to an endpoint that has none.
Offered(e) ==
    IF SeatOf(e) # {} THEN SeatOf(e)
    ELSE {i \in Seats : ~Taken(i) /\ \A j \in Seats : j < i => Taken(j)}

\* "J"
ServerJoin(e) ==
    LET m == Command(e, "J") IN
    /\ up
    /\ \/ \E i \in Offered(e) :
             /\ seats' = [seats EXCEPT ![i] = [endpoint |-> e, idle |-> 0]]
             /\ Arrives(m, ToClients({Welcome(e, i)}) \union Snapshot(seats'))
       \/ /\ Offered(e) = {}
          /\ Arrives(m, ToClients({Answer(e, "FULL")}))
          /\ UNCHANGED seats
    /\ UNCHANGED <<up, clientVars, stops>>

\* "Q"
ServerQuit(e) ==
    LET m == Command(e, "Q") IN
    /\ up
    /\ IF SeatOf(e) = {} THEN Arrives(m, {}) /\ UNCHANGED seats
       ELSE \E i \in SeatOf(e) :
               /\ seats' = [seats EXCEPT ![i] = Free]
               /\ Arrives(m, Snapshot(seats'))
    /\ UNCHANGED <<up, clientVars, stops>>

\* "H", "U", "D", "N"
ServerHeartbeat(e) ==
    LET m == Command(e, "H") IN
    /\ up
    /\ seats' = [i \in Seats |-> IF i \in SeatOf(e) THEN [seats[i] EXCEPT !.idle = 0] ELSE seats[i]]
    /\ Arrives(m, {})
    /\ UNCHANGED <<up, clientVars, stops>>

\* Mutant: a snapshot sent counts as a sign of life.
AgedNever(p) == p

\* The inactivity of a seat grows with each step; a silent one is freed.
Aged(p) ==
    IF p.endpoint = NoOne THEN p
    ELSE IF p.idle + 1 >= IdleTicks THEN Free ELSE [p EXCEPT !.idle = @ + 1]

\* step(), called by advance() once per tick_ms
ServerStep ==
    /\ up
    /\ seats' = [i \in Seats |-> Aged(seats[i])]
    /\ Exchange({}, Snapshot(seats'))
    /\ UNCHANGED <<up, clientVars, dups, stops>>

\* stop(): the seats are gone, the sequence number is kept.
ServerStop ==
    /\ up /\ stops < MaxStops
    /\ up' = FALSE /\ seats' = [i \in Seats |-> Free]
    /\ stops' = stops + 1
    /\ UNCHANGED <<clientVars, net, dups>>

ServerStart ==
    /\ ~up
    /\ up' = TRUE
    /\ UNCHANGED <<seats, clientVars, net, dups, stops>>

\* A new server process, numbering from 1: what the last one sent is old.
Ages(what) == IF what = "cur" THEN "old" ELSE what

ServerRestart ==
    /\ ~up
    /\ up' = TRUE
    /\ net' = {[m EXCEPT !.what = Ages(@)] : m \in net}
    /\ view' = [c \in Clients |-> Ages(view[c])]
    /\ UNCHANGED <<seats, running, player, quiet, dups, stops>>

-------------------------------------------------------------------------------
(* Client                                                                  *)

\* Three seconds of the loop without a snapshot.
ClientQuiet(c) ==
    /\ running[c] /\ ~quiet[c]
    /\ quiet' = [quiet EXCEPT ![c] = TRUE]
    /\ UNCHANGED <<up, seats, running, player, view, net, dups, stops>>

\* Mutant: the old sequence is not discarded.
RejoinKeeps(c) ==
    /\ running[c] /\ player[c] # 0 /\ quiet[c]
    /\ player' = [player EXCEPT ![c] = 0]
    /\ quiet' = [quiet EXCEPT ![c] = FALSE]
    /\ Exchange({}, {Command(c, "J")})
    /\ UNCHANGED <<up, seats, running, view, dups, stops>>

\* "Connection lost; rejoining": forget the seat and the view, and join at once.
Rejoin(c) ==
    /\ running[c] /\ player[c] # 0 /\ quiet[c]
    /\ player' = [player EXCEPT ![c] = 0]
    /\ view' = [view EXCEPT ![c] = "none"]
    /\ quiet' = [quiet EXCEPT ![c] = FALSE]
    /\ Exchange({}, {Command(c, "J")})
    /\ UNCHANGED <<up, seats, running, dups, stops>>

\* "J" every half second without a seat, "H" (or a move) with one.
ClientSends(c) ==
    /\ running[c]
    /\ Exchange({}, {Command(c, IF player[c] = 0 THEN "J" ELSE "H")})
    /\ UNCHANGED <<up, seats, clientVars, dups, stops>>

\* The loop ends: a seated client says so, and what the process knew dies with it.
Leaves(c, taken) ==
    /\ running[c]
    /\ running' = [running EXCEPT ![c] = FALSE]
    /\ player' = [player EXCEPT ![c] = 0]
    /\ view' = [view EXCEPT ![c] = "none"] /\ quiet' = [quiet EXCEPT ![c] = FALSE]
    /\ Exchange(taken, IF player[c] = 0 THEN {} ELSE {Command(c, "Q")})
    /\ UNCHANGED <<up, seats, dups, stops>>

\* Key q, or an interruption.
ClientQuits(c) == Leaves(c, {})

ClientWelcome(c, i) ==
    LET m == Welcome(c, i) IN
    /\ running[c]
    /\ player' = [player EXCEPT ![c] = i]
    /\ Arrives(m, {})
    /\ UNCHANGED <<up, seats, running, view, quiet, stops>>

\* "FULL", also for a client that is seated by now.
ClientFull(c) == Answer(c, "FULL") \in net /\ Leaves(c, {Answer(c, "FULL")})

\* parse_state with a higher sequence number than the view's.
ClientShows(c, sender) ==
    LET m == Answer(c, sender) IN
    /\ running[c]
    /\ view' = [view EXCEPT ![c] = sender]
    /\ quiet' = [quiet EXCEPT ![c] = FALSE]
    /\ Arrives(m, {})
    /\ UNCHANGED <<up, seats, running, player, stops>>

\* The number is not higher: overtaken, a duplicate, or of another process.  Every
\* number is higher than that of a view with none.
ClientIgnores(c, sender) ==
    LET m == Answer(c, sender) IN
    /\ running[c]
    /\ view[c] # "none"
    /\ Arrives(m, {})
    /\ UNCHANGED <<up, seats, clientVars, stops>>

-------------------------------------------------------------------------------
ServerNext ==
    \/ \E e \in Endpoints : ServerJoin(e) \/ ServerQuit(e) \/ ServerHeartbeat(e)
    \/ ServerStep \/ ServerStop \/ ServerStart \/ ServerRestart

ClientNext(c) ==
    \/ ClientQuiet(c) \/ Rejoin(c) \/ ClientSends(c) \/ ClientQuits(c) \/ ClientFull(c)
    \/ \E i \in Seats : ClientWelcome(c, i)
    \/ \E sender \in {"cur", "old"} : ClientShows(c, sender) \/ ClientIgnores(c, sender)

Next ==
    \/ ServerNext
    \/ \E c \in Clients : ClientNext(c)
    \/ \E m \in net : Lose(m)

Spec == Init /\ [][Next]_vars

\* The server steps and is started again after a stop; a client's clock runs; and a
\* datagram sent again and again sometimes arrives: a join, its welcome, and a
\* snapshot.  The network does not stay full for ever.  A snapshot just sent has a
\* higher number than any view of the same process.
FairSpec ==
    /\ Spec
    /\ WF_vars(ServerStep) /\ WF_vars(ServerStart \/ ServerRestart)
    /\ WF_vars(\E m \in net : Lose(m))
    /\ \A c \in Clients :
          /\ WF_vars(ClientQuiet(c)) /\ WF_vars(Rejoin(c))
          /\ SF_vars(ClientSends(c) /\ Command(c, "J") \in net')
          /\ SF_vars(ServerJoin(c) /\ \E i \in Seats : Welcome(c, i) \in net')
          /\ SF_vars(\E i \in Seats : ClientWelcome(c, i))
          /\ SF_vars((ServerJoin(c) \/ ServerStep) /\ Answer(c, "cur") \in net')
          /\ SF_vars(view[c] # "old" /\ ClientShows(c, "cur"))

-------------------------------------------------------------------------------
(* Properties                                                              *)

\* Type invariant of the seats, the clients and the network.
TypeOK ==
    /\ up \in BOOLEAN
    /\ seats \in [Seats -> [endpoint : Endpoints \union {NoOne}, idle : 0..(IdleTicks - 1)]]
    /\ running \in [Clients -> BOOLEAN] /\ player \in [Clients -> {0} \union Seats]
    /\ view \in [Clients -> {"none", "cur", "old"}] /\ quiet \in [Clients -> BOOLEAN]
    /\ net \subseteq [client : Endpoints, dir : {"server", "client"},
                      what : {"J", "H", "Q", "W1", "W2", "FULL", "cur", "old"}]
    /\ dups \in Nat /\ stops \in Nat

\* No endpoint has two seats, however often and however late its joins arrive.
SeatsDistinct ==
    /\ TypeOK
    /\ \A i, j \in Seats : i # j /\ Taken(i) => seats[i].endpoint # seats[j].endpoint

\* While the match is on, every step leaves paddles and ball where the client's
\* parse_state accepts them: no snapshot is refused for its contents.
SnapshotsParse == (\A i \in Seats : Taken(i)) => FieldSound

\* The seat of a client that is gone is freed, even if its "Q" is lost or a delayed
\* "J" or "H" of it arrives after it has left.
GhostsExpire == \A c \in Clients : (~running[c] /\ SeatOf(c) # {}) ~> SeatOf(c) = {}

\* A client that keeps running comes to show snapshots of the server process that
\* is up, after every restart, unless others have taken both seats: it does not stay
\* deaf because its view's sequence number is ahead of the new process.
ClientFollows ==
    \A c \in Clients :
        running[c] ~> \/ ~running[c] \/ view[c] = "cur"
                      \/ SeatOf(c) = {} /\ \A i \in Seats : Taken(i)
===============================================================================
