------------------------------ MODULE PongProofs ------------------------------
(***************************************************************************)
(* Proofs about the Pong example, for every size of the field and every    *)
(* set of clients and other programs.                                      *)
(***************************************************************************)
EXTENDS Pong, TLAPS

-------------------------------------------------------------------------------
(* The field                                                               *)

\* The middle of a board is on it.
LEMMA BallInMiddle ==
    ASSUME NEW n \in Nat, n >= 2
    PROVE  n \div 2 \in 0..(n - 1)
OBVIOUS

\* A ball put back in the middle is on the board.
LEMMA ResetOnBoard ==
    ASSUME NEW ly \in 0..(Height - PaddleHeight), NEW ry \in 0..(Height - PaddleHeight),
           NEW x, NEW y, NEW dx, NEW dy, NEW direction \in Velocities
    PROVE  ResetBall([ly |-> ly, ry |-> ry, x |-> x, y |-> y, dx |-> dx, dy |-> dy],
                     direction) \in Fields
<1>1. Width \div 2 \in 0..(Width - 1) /\ Height \div 2 \in 0..(Height - 1)
  BY FieldAssumption, BallInMiddle
<1>2. 1 \in Velocities
  BY DEF Velocities
<1> QED BY <1>1, <1>2 DEF ResetBall, Fields

\* One step keeps paddles and ball on the board.
LEMMA StepOnBoard ==
    ASSUME NEW f \in Fields, NEW left \in Directions, NEW right \in Directions
    PROVE  FieldStep(f, left, right) \in Fields
<1> DEFINE ly == Clamp(f.ly + left, 0, Height - PaddleHeight)
           ry == Clamp(f.ry + right, 0, Height - PaddleHeight)
           dy == IF f.y + f.dy < 0 \/ f.y + f.dy >= Height THEN -f.dy ELSE f.dy
           y  == f.y + dy
           hitLeft  == f.x + f.dx = 2 /\ f.dx < 0 /\ Covers(ly, y)
           hitRight == f.x + f.dx = Width - 3 /\ f.dx > 0 /\ Covers(ry, y)
           dx == IF hitLeft THEN 1 ELSE IF hitRight THEN -1 ELSE f.dx
           g  == [ly |-> ly, ry |-> ry, x |-> f.x + dx, y |-> y, dx |-> dx, dy |-> dy]
<1>1. /\ f.ly \in Int /\ f.ry \in Int /\ f.x \in 0..(Width - 1) /\ f.y \in 0..(Height - 1)
      /\ f.dx \in Velocities /\ f.dy \in Velocities
      /\ left \in Int /\ right \in Int /\ Height - PaddleHeight \in Int
      /\ 0 <= Height - PaddleHeight
  BY FieldAssumption DEF Fields, Directions
<1>2. ly \in 0..(Height - PaddleHeight)
  BY <1>1, FieldAssumption DEF Clamp
<1>3. ry \in 0..(Height - PaddleHeight)
  BY <1>1, FieldAssumption DEF Clamp
<1>4. dy \in Velocities /\ y \in 0..(Height - 1)
  BY <1>1, FieldAssumption DEF Velocities
<1>5. dx \in Velocities
  BY <1>1 DEF Velocities
<1>6. f.x + dx \in Int
  BY <1>1, <1>5 DEF Velocities
<1>7. FieldStep(f, left, right) =
        IF g.x <= 0 THEN ResetBall(g, 1) ELSE IF g.x >= Width - 1 THEN ResetBall(g, -1) ELSE g
  BY DEF FieldStep
<1> HIDE DEF ly, ry, dy, y, dx
<1>8. CASE g.x <= 0
  <2>1. ResetBall(g, 1) \in Fields
    BY <1>2, <1>3, ResetOnBoard DEF Velocities
  <2> QED BY <1>7, <1>8, <2>1
<1>9. CASE ~(g.x <= 0) /\ g.x >= Width - 1
  <2>1. ResetBall(g, -1) \in Fields
    BY <1>2, <1>3, ResetOnBoard DEF Velocities
  <2> QED BY <1>7, <1>9, <2>1
<1>10. CASE ~(g.x <= 0) /\ ~(g.x >= Width - 1)
  <2>1. g.x \in 0..(Width - 1)
    BY <1>6, <1>10, FieldAssumption
  <2>2. g \in Fields
    BY <1>2, <1>3, <1>4, <1>5, <2>1 DEF Fields
  <2> QED BY <1>7, <1>10, <2>2
<1> QED BY <1>8, <1>9, <1>10

\* On a board of any size with room for the paddles, and for which the client was
\* built too, every snapshot is one that the client's parse_state accepts.
THEOREM FieldStaysSound == FieldSound
<1>1. StartField \in Fields
  <2>1. StartY \in 0..(Height - PaddleHeight) /\ 1 \in Velocities
    BY FieldAssumption DEF Velocities
  <2> QED BY <2>1, ResetOnBoard DEF StartField
<1>2. ASSUME NEW f \in Fields PROVE Parses(f) /\ ResetBall(f, 1) \in Fields
  <2>1. Parses(f)
    BY FieldAssumption, ViewAssumption DEF Fields, Parses
  <2>2. f = [ly |-> f.ly, ry |-> f.ry, x |-> f.x, y |-> f.y, dx |-> f.dx, dy |-> f.dy]
    BY DEF Fields
  <2>3. f.ly \in 0..(Height - PaddleHeight) /\ f.ry \in 0..(Height - PaddleHeight)
    BY DEF Fields
  <2>4. 1 \in Velocities
    BY DEF Velocities
  <2>5. ResetBall([ly |-> f.ly, ry |-> f.ry, x |-> f.x, y |-> f.y, dx |-> f.dx, dy |-> f.dy], 1)
            \in Fields
    BY <2>3, <2>4, ResetOnBoard
  <2> QED BY <2>1, <2>2, <2>5
<1>3. \A f \in Fields, left \in Directions, right \in Directions :
          FieldStep(f, left, right) \in Fields
  BY StepOnBoard
<1> QED BY <1>1, <1>2, <1>3 DEF FieldSound

\* Therefore no snapshot of a running match is refused for its contents, whatever
\* the players and the network do.
THEOREM SnapshotsAccepted == Spec => []SnapshotsParse
<1>1. SnapshotsParse
  BY FieldStaysSound DEF SnapshotsParse
<1> QED BY <1>1, PTL

-------------------------------------------------------------------------------
(* The seats                                                               *)

Messages == [client : Endpoints, dir : {"server", "client"},
             what : {"J", "H", "Q", "W1", "W2", "FULL", "cur", "old"}]
SeatType == [endpoint : Endpoints \union {NoOne}, idle : 0..(IdleTicks - 1)]
Distinct == \A i, j \in Seats : i # j /\ Taken(i) => seats[i].endpoint # seats[j].endpoint

\* What the server and the clients send is a message.
LEMMA MessageTypes ==
    ASSUME NEW e \in Endpoints
    PROVE  /\ \A cmd \in {"J", "H", "Q"} : Command(e, cmd) \in Messages
           /\ \A what \in {"FULL", "cur", "old"} : Answer(e, what) \in Messages
           /\ \A i \in Seats : Welcome(e, i) \in Messages
BY DEF Command, Answer, Welcome, Messages

\* A datagram that is answered leaves a set of datagrams.
LEMMA ExchangeTyped ==
    ASSUME net \in SUBSET Messages, NEW taken, NEW sent \in SUBSET Messages, Exchange(taken, sent)
    PROVE  net' \in SUBSET Messages
BY DEF Exchange

\* So does one that arrives, whether or not a copy stays behind.
LEMMA ArrivesTyped ==
    ASSUME net \in SUBSET Messages, dups \in Nat, NEW m, NEW sent \in SUBSET Messages, Arrives(m, sent)
    PROVE  net' \in SUBSET Messages /\ dups' \in Nat
<1>1. CASE Exchange({m}, sent) /\ UNCHANGED dups
  BY <1>1, ExchangeTyped
<1>2. CASE dups' = dups + 1 /\ Exchange({}, sent)
  BY <1>2, ExchangeTyped
<1> QED BY <1>1, <1>2 DEF Arrives

\* And a snapshot sent to the seated endpoints.
LEMMA SnapshotTyped ==
    ASSUME NEW s, \A i \in Seats : s[i].endpoint \in Endpoints \union {NoOne}
    PROVE  Snapshot(s) \in SUBSET Messages
<1>1. \A i \in Seats : s[i].endpoint \in Clients => Answer(s[i].endpoint, "cur") \in Messages
  BY MessageTypes DEF Endpoints
<1> QED BY <1>1 DEF Snapshot

\* The types that the steps of the server need.
LEMMA TypeParts ==
    ASSUME TypeOK
    PROVE  /\ seats \in [Seats -> SeatType] /\ net \in SUBSET Messages
           /\ dups \in Nat /\ stops \in Nat
           /\ \A i \in Seats : seats[i].endpoint \in Endpoints \union {NoOne}
BY DEF TypeOK, SeatType, Messages

\* Seats of the right type that are not shared stay so when one seat is freed or
\* given to an endpoint that had none.
LEMMA SeatChange ==
    ASSUME seats \in [Seats -> SeatType], Distinct,
           NEW i \in Seats, NEW p \in SeatType,
           \A j \in Seats : j # i /\ p.endpoint # NoOne => seats[j].endpoint # p.endpoint,
           seats' = [seats EXCEPT ![i] = p]
    PROVE  seats' \in [Seats -> SeatType] /\ Distinct'
BY DEF Distinct, Taken

\* A free seat is a seat.
LEMMA FreeTyped == Free \in SeatType
BY PongAssumption DEF Free, SeatType

\* A join takes no second seat.
LEMMA JoinKeeps ==
    ASSUME TypeOK, Distinct, NEW e \in Endpoints, ServerJoin(e)
    PROVE  TypeOK' /\ Distinct'
<1>t. /\ seats \in [Seats -> SeatType] /\ net \in SUBSET Messages /\ dups \in Nat
      /\ \A i \in Seats : seats[i].endpoint \in Endpoints \union {NoOne}
  BY TypeParts
<1>n. e # NoOne
  BY PongAssumption DEF Endpoints
<1>1. ASSUME NEW i \in Offered(e),
             seats' = [seats EXCEPT ![i] = [endpoint |-> e, idle |-> 0]],
             Arrives(Command(e, "J"), ToClients({Welcome(e, i)}) \union Snapshot(seats'))
      PROVE  seats' \in [Seats -> SeatType] /\ Distinct'
             /\ net' \in SUBSET Messages /\ dups' \in Nat
  <2>1. i \in Seats
    BY <1>1 DEF Offered, SeatOf
  <2>2. [endpoint |-> e, idle |-> 0] \in SeatType
    BY PongAssumption DEF SeatType
  <2>3. \A j \in Seats : j # i => seats[j].endpoint # e
    <3>1. CASE SeatOf(e) # {}
      BY <1>1, <1>n, <2>1, <3>1 DEF Offered, SeatOf, Taken, Distinct
    <3>2. CASE SeatOf(e) = {}
      BY <1>n, <3>2 DEF SeatOf, Taken
    <3> QED BY <3>1, <3>2
  <2>4. seats' \in [Seats -> SeatType] /\ Distinct'
    BY <1>t, <1>1, <2>1, <2>2, <2>3, SeatChange
  <2>5. \A j \in Seats : seats'[j].endpoint \in Endpoints \union {NoOne}
    BY <2>4 DEF SeatType
  <2>6. ToClients({Welcome(e, i)}) \union Snapshot(seats') \in SUBSET Messages
    BY <2>1, <2>5, SnapshotTyped, MessageTypes DEF ToClients
  <2> QED BY <1>t, <1>1, <2>4, <2>6, ArrivesTyped
<1>2. ASSUME Arrives(Command(e, "J"), ToClients({Answer(e, "FULL")})), UNCHANGED seats
      PROVE  seats' \in [Seats -> SeatType] /\ Distinct'
             /\ net' \in SUBSET Messages /\ dups' \in Nat
  <2>1. ToClients({Answer(e, "FULL")}) \in SUBSET Messages
    BY MessageTypes DEF ToClients
  <2>2. Distinct'
    BY <1>2 DEF Distinct, Taken
  <2> QED BY <1>t, <1>2, <2>1, <2>2, ArrivesTyped
<1>3. seats' \in [Seats -> SeatType] /\ Distinct' /\ net' \in SUBSET Messages /\ dups' \in Nat
  BY <1>1, <1>2 DEF ServerJoin
<1>4. UNCHANGED <<up, running, player, view, quiet, stops>>
  BY DEF ServerJoin, clientVars
<1> QED BY <1>3, <1>4 DEF TypeOK, SeatType, Messages

\* Every step of the server keeps the seats distinct.
LEMMA ServerKeeps ==
    ASSUME TypeOK, Distinct, ServerNext
    PROVE  TypeOK' /\ Distinct'
<1>t. /\ seats \in [Seats -> SeatType] /\ net \in SUBSET Messages /\ dups \in Nat /\ stops \in Nat
      /\ \A i \in Seats : seats[i].endpoint \in Endpoints \union {NoOne}
  BY TypeParts
<1>e. {} \in SUBSET Messages
  OBVIOUS
<1>1. ASSUME NEW e \in Endpoints, ServerJoin(e) PROVE TypeOK' /\ Distinct'
  BY <1>1, JoinKeeps
<1>2. ASSUME NEW e \in Endpoints, ServerQuit(e) PROVE TypeOK' /\ Distinct'
  <2>1. CASE SeatOf(e) = {}
    <3>1. Arrives(Command(e, "Q"), {}) /\ UNCHANGED seats
      BY <1>2, <2>1 DEF ServerQuit
    <3>2. net' \in SUBSET Messages /\ dups' \in Nat
      BY <1>t, <1>e, <3>1, ArrivesTyped
    <3>3. UNCHANGED <<up, running, player, view, quiet, stops>>
      BY <1>2 DEF ServerQuit, clientVars
    <3> QED BY <1>t, <3>1, <3>2, <3>3 DEF TypeOK, SeatType, Messages, Distinct, Taken
  <2>2. CASE SeatOf(e) # {}
    <3>1. PICK i \in SeatOf(e) : /\ seats' = [seats EXCEPT ![i] = Free]
                                 /\ Arrives(Command(e, "Q"), Snapshot(seats'))
      BY <1>2, <2>2 DEF ServerQuit
    <3>2. i \in Seats /\ Free.endpoint = NoOne
      BY <3>1 DEF SeatOf, Free
    <3>3. seats' \in [Seats -> SeatType] /\ Distinct'
      BY <1>t, <3>1, <3>2, FreeTyped, SeatChange
    <3>4. Snapshot(seats') \in SUBSET Messages
      BY <3>3, SnapshotTyped DEF SeatType
    <3>5. net' \in SUBSET Messages /\ dups' \in Nat
      BY <1>t, <3>1, <3>4, ArrivesTyped
    <3>6. UNCHANGED <<up, running, player, view, quiet, stops>>
      BY <1>2 DEF ServerQuit, clientVars
    <3> QED BY <3>3, <3>5, <3>6 DEF TypeOK, SeatType, Messages
  <2> QED BY <2>1, <2>2
<1>3. ASSUME NEW e \in Endpoints, ServerHeartbeat(e) PROVE TypeOK' /\ Distinct'
  <2>1. seats' = [i \in Seats |-> IF i \in SeatOf(e) THEN [seats[i] EXCEPT !.idle = 0] ELSE seats[i]]
    BY <1>3 DEF ServerHeartbeat
  <2>2. seats' \in [Seats -> SeatType] /\ \A i \in Seats : seats'[i].endpoint = seats[i].endpoint
    BY <1>t, <2>1, PongAssumption DEF SeatType
  <2>3. net' \in SUBSET Messages /\ dups' \in Nat
    BY <1>t, <1>e, <1>3, ArrivesTyped DEF ServerHeartbeat
  <2>4. UNCHANGED <<up, running, player, view, quiet, stops>>
    BY <1>3 DEF ServerHeartbeat, clientVars
  <2>5. Distinct'
    BY <2>2 DEF Distinct, Taken
  <2> QED BY <2>2, <2>3, <2>4, <2>5 DEF TypeOK, SeatType, Messages
<1>4. ASSUME ServerStep PROVE TypeOK' /\ Distinct'
  <2>1. seats' = [i \in Seats |-> Aged(seats[i])]
    BY <1>4 DEF ServerStep
  <2>2. ASSUME NEW p \in SeatType
        PROVE  Aged(p) \in SeatType /\ (Aged(p).endpoint = NoOne \/ Aged(p).endpoint = p.endpoint)
    BY <2>2, FreeTyped, PongAssumption DEF Aged, SeatType, Free
  <2>3. seats' \in [Seats -> SeatType]
        /\ \A i \in Seats : seats'[i].endpoint = NoOne \/ seats'[i].endpoint = seats[i].endpoint
    BY <1>t, <2>1, <2>2
  <2>4. Distinct'
    BY <2>3 DEF Distinct, Taken
  <2>5. Snapshot(seats') \in SUBSET Messages
    BY <2>3, SnapshotTyped DEF SeatType
  <2>6. net' \in SUBSET Messages
    BY <1>t, <1>4, <2>5, ExchangeTyped DEF ServerStep
  <2>7. UNCHANGED <<up, running, player, view, quiet, dups, stops>>
    BY <1>4 DEF ServerStep, clientVars
  <2> QED BY <2>3, <2>4, <2>6, <2>7 DEF TypeOK, SeatType, Messages
<1>5. ASSUME ServerStop PROVE TypeOK' /\ Distinct'
  <2>1. seats' = [i \in Seats |-> Free] /\ up' = FALSE /\ stops' \in Nat
        /\ UNCHANGED <<running, player, view, quiet, net, dups>>
    BY <1>5, <1>t DEF ServerStop, clientVars
  <2>2. seats' \in [Seats -> SeatType] /\ Distinct'
    BY <2>1, FreeTyped DEF Distinct, Taken, Free
  <2> QED BY <2>1, <2>2 DEF TypeOK, SeatType
<1>6. ASSUME ServerStart PROVE TypeOK' /\ Distinct'
  BY <1>6 DEF ServerStart, clientVars, TypeOK, Distinct, Taken
<1>7. ASSUME ServerRestart PROVE TypeOK' /\ Distinct'
  <2>1. /\ up' = TRUE /\ net' = {[m EXCEPT !.what = Ages(@)] : m \in net}
        /\ view' = [c \in Clients |-> Ages(view[c])]
        /\ UNCHANGED <<seats, running, player, quiet, dups, stops>>
    BY <1>7 DEF ServerRestart
  <2>2. ASSUME NEW m \in Messages PROVE [m EXCEPT !.what = Ages(@)] \in Messages
    BY DEF Messages, Ages
  <2>3. net' \in SUBSET Messages
    BY <1>t, <2>1, <2>2
  <2>4. view' \in [Clients -> {"none", "cur", "old"}]
    BY <2>1 DEF TypeOK, Ages
  <2> QED BY <2>1, <2>3, <2>4 DEF TypeOK, Messages, Distinct, Taken
<1> QED BY <1>1, <1>2, <1>3, <1>4, <1>5, <1>6, <1>7 DEF ServerNext

\* A step that leaves the seats and the server alone.
LEMMA ClientSide ==
    ASSUME TypeOK, Distinct, UNCHANGED <<up, seats, stops>>,
           running' \in [Clients -> BOOLEAN], player' \in [Clients -> {0} \union Seats],
           view' \in [Clients -> {"none", "cur", "old"}], quiet' \in [Clients -> BOOLEAN],
           net' \in SUBSET Messages, dups' \in Nat
    PROVE  TypeOK' /\ Distinct'
BY DEF TypeOK, Messages, Distinct, Taken

\* No step of a client touches the seats.
LEMMA ClientKeeps ==
    ASSUME TypeOK, Distinct, NEW c \in Clients, ClientNext(c)
    PROVE  TypeOK' /\ Distinct'
<1>t. /\ net \in SUBSET Messages /\ dups \in Nat
      /\ running \in [Clients -> BOOLEAN] /\ player \in [Clients -> {0} \union Seats]
      /\ view \in [Clients -> {"none", "cur", "old"}] /\ quiet \in [Clients -> BOOLEAN]
  BY TypeParts DEF TypeOK
<1>m. /\ c \in Endpoints /\ {} \in SUBSET Messages
      /\ \A cmd \in {"J", "H", "Q"} : {Command(c, cmd)} \in SUBSET Messages
  BY MessageTypes DEF Endpoints
<1>1. ASSUME ClientQuiet(c) PROVE TypeOK' /\ Distinct'
  BY <1>1, <1>t, ClientSide DEF ClientQuiet
<1>2. ASSUME Rejoin(c) PROVE TypeOK' /\ Distinct'
  <2>1. net' \in SUBSET Messages
    BY <1>2, <1>t, <1>m, ExchangeTyped DEF Rejoin
  <2> QED BY <1>2, <1>t, <2>1, ClientSide DEF Rejoin
<1>3. ASSUME ClientSends(c) PROVE TypeOK' /\ Distinct'
  <2>1. {Command(c, IF player[c] = 0 THEN "J" ELSE "H")} \in SUBSET Messages
    BY <1>m
  <2>2. net' \in SUBSET Messages
    BY <1>3, <1>t, <2>1, ExchangeTyped DEF ClientSends
  <2> QED BY <1>3, <1>t, <2>2, ClientSide DEF ClientSends, clientVars
<1>4. ASSUME NEW taken, Leaves(c, taken) PROVE TypeOK' /\ Distinct'
  <2>1. (IF player[c] = 0 THEN {} ELSE {Command(c, "Q")}) \in SUBSET Messages
    BY <1>m
  <2>2. net' \in SUBSET Messages
    BY <1>4, <1>t, <2>1, ExchangeTyped DEF Leaves
  <2> QED BY <1>4, <1>t, <2>2, ClientSide DEF Leaves
<1>5. ASSUME NEW i \in Seats, ClientWelcome(c, i) PROVE TypeOK' /\ Distinct'
  <2>1. net' \in SUBSET Messages /\ dups' \in Nat
    BY <1>5, <1>t, <1>m, ArrivesTyped DEF ClientWelcome
  <2> QED BY <1>5, <1>t, <2>1, ClientSide DEF ClientWelcome
<1>6. ASSUME NEW sender \in {"cur", "old"}, ClientShows(c, sender) PROVE TypeOK' /\ Distinct'
  <2>1. net' \in SUBSET Messages /\ dups' \in Nat
    BY <1>6, <1>t, <1>m, ArrivesTyped DEF ClientShows
  <2> QED BY <1>6, <1>t, <2>1, ClientSide DEF ClientShows
<1>7. ASSUME NEW sender \in {"cur", "old"}, ClientIgnores(c, sender) PROVE TypeOK' /\ Distinct'
  <2>1. net' \in SUBSET Messages /\ dups' \in Nat
    BY <1>7, <1>t, <1>m, ArrivesTyped DEF ClientIgnores
  <2> QED BY <1>7, <1>t, <2>1, ClientSide DEF ClientIgnores, clientVars
<1> QED BY <1>1, <1>2, <1>3, <1>4, <1>5, <1>6, <1>7 DEF ClientNext, ClientQuits, ClientFull

\* However often the network repeats or delays the joins of any number of clients
\* and other programs, and however the server stops and starts, no endpoint ever has
\* two seats of one server.
THEOREM SeatsStayDistinct == Spec => []SeatsDistinct
<1>1. Init => TypeOK /\ Distinct
  <2> SUFFICES ASSUME Init PROVE TypeOK /\ Distinct
    OBVIOUS
  <2>1. seats \in [Seats -> SeatType]
    BY FreeTyped DEF Init
  <2>2. Distinct
    BY DEF Init, Distinct, Taken, Free
  <2> QED BY <2>1, <2>2 DEF Init, TypeOK, SeatType
<1>2. TypeOK /\ Distinct /\ [Next]_vars => TypeOK' /\ Distinct'
  <2> SUFFICES ASSUME TypeOK, Distinct, [Next]_vars PROVE TypeOK' /\ Distinct'
    OBVIOUS
  <2>1. CASE ServerNext
    BY <2>1, ServerKeeps
  <2>2. ASSUME NEW c \in Clients, ClientNext(c) PROVE TypeOK' /\ Distinct'
    BY <2>2, ClientKeeps
  <2>3. ASSUME NEW m \in net, Lose(m) PROVE TypeOK' /\ Distinct'
    BY <2>3 DEF Lose, clientVars, TypeOK, Distinct, Taken
  <2>4. CASE UNCHANGED vars
    BY <2>4 DEF vars, clientVars, TypeOK, Distinct, Taken
  <2> QED BY <2>1, <2>2, <2>3, <2>4 DEF Next
<1>3. TypeOK /\ Distinct => SeatsDistinct
  BY DEF SeatsDistinct, Distinct
<1> QED BY <1>1, <1>2, <1>3, PTL DEF Spec
===============================================================================
