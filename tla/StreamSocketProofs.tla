------------------------- MODULE StreamSocketProofs -------------------------
(***************************************************************************)
(* Proofs about StreamSocket, for all buffer sizes, all streams a peer     *)
(* sends and any number of calls and connection attempts.                  *)
(***************************************************************************)
EXTENDS StreamSocket, SequenceTheorems, TLAPS

-----------------------------------------------------------------------------
(* The inductive invariant.                                                *)

\* The bytes a call in progress has received and not yet delivered.
Pending == IF call.op \in {"until", "line"} THEN call.got ELSE 0

\* What was delivered and what is pending is what was received.
Upto(n) == [i \in 1..n |-> i]
DeliveredInv == Pending <= taken /\ delivered = Upto(taken - Pending)

\* A loop of reads goes on only while it has room.
RoomInv == call.op \in {"until", "line"} => call.got < call.want

\* A socket that is not connected has no peer, or one whose stream has ended.
EndInv == ~connected => \/ peer \in {"none", "dead"}
                        \/ peer = "closed" /\ taken = Len(stream)

\* An attempt that has closed the old descriptor has no peer, and no guard before the
\* new one is made; one that failed has a cause; no result is kept while a call is in
\* progress.
AttemptInv ==
    /\ call.op = "connect" /\ call.got # 0 => ~connected /\ peer = "none"
    /\ call.op = "connect" /\ call.got = 1 => valid
    /\ call.op = "connect" /\ call.got # 1 => ~call.timed
    /\ call.op = "connect" /\ call.got \notin {0, 1} => error_code # "none"
    /\ call.op # "none" => last = NoResult

\* The caller's mode is in the socket, or in the guard of a timed attempt.
ModeInv ==
    IF call.op = "connect" /\ call.got = 1 /\ call.timed
    THEN call.original = wanted
    ELSE blocking = wanted /\ (valid /\ ~untold => nonblock = ~blocking)

\* The bytes of a line: the terminator is not complete while the call goes on.
Complete(str, lo, hi) == \E i, j \in lo..hi : str[i] = "CR" /\ str[j] = "LF"
LineInv ==
    /\ call.op = "line" => ~Complete(stream, taken - call.got + 1, taken)
    /\ last.op = "line" /\ last.n > 0 =>
          /\ last.n <= taken /\ last.n <= last.want
          /\ last.ended <=> Complete(stream, taken - last.n + 1, taken)
          /\ ~Complete(stream, taken - last.n + 1, taken - 1)

StreamInv ==
    /\ TypeOK /\ DeliveredInv /\ RoomInv /\ EndInv /\ AttemptInv /\ ModeInv /\ LineInv
    /\ FailureExplained

-----------------------------------------------------------------------------
(* Operators.                                                              *)

\* The received bytes, continued.
LEMMA UptoConcat ==
  ASSUME NEW a \in Nat, NEW n \in Nat
  PROVE  Upto(a) \o [i \in 1..n |-> a + i] = Upto(a + n) /\ Upto(a) \in Seq(Nat)
<1> DEFINE r == [i \in 1..n |-> a + i]
           c == Upto(a) \o r
<1>1. Upto(a) \in Seq(Nat) /\ Len(Upto(a)) = a /\ \A i \in 1..a : Upto(a)[i] = i
  BY DEF Upto
<1>2. r \in Seq(Nat) /\ Len(r) = n /\ \A i \in 1..n : r[i] = a + i
  OBVIOUS
<1> HIDE DEF r
<1>3. /\ c \in Seq(Nat) /\ Len(c) = a + n
      /\ \A i \in 1..(a + n) : c[i] = IF i <= a THEN Upto(a)[i] ELSE r[i - a]
  BY <1>1, <1>2, ConcatProperties
<1> HIDE DEF c
<1>4. \A i \in 1..(a + n) : c[i] = i
  <2> TAKE i \in 1..(a + n)
  <2>1. CASE i <= a
    BY <1>1, <1>3, <2>1
  <2>2. CASE i > a
    <3>1. i - a \in 1..n /\ ~(i <= a)
      BY <2>2
    <3> QED
      BY <1>2, <1>3, <3>1
  <2> QED
    BY <2>1, <2>2
<1>5. c = [i \in 1..(a + n) |-> c[i]]
  BY <1>3
<1> QED
  BY <1>1, <1>4, <1>5 DEF Upto, c, r

\* The caller gets what was received since the last delivery.
LEMMA DeliverFacts ==
  ASSUME NEW a \in Nat, NEW n \in Nat, delivered = Upto(a), Deliver(n), taken' = a + n
  PROVE  delivered' = Upto(taken') /\ delivered' \in Seq(Nat)
<1>1. taken' - n = a /\ a + n \in Nat
  OBVIOUS
<1>2. delivered' = Upto(a) \o [i \in 1..n |-> a + i]
  BY <1>1 DEF Deliver
<1> QED
  BY <1>1, <1>2, UptoConcat

\* The fields of a call that begins.
LEMMA CallingFacts ==
  ASSUME NEW op, op \in {"none", "until", "line", "connect"}, NEW want \in Nat
  PROVE  /\ Calling(op, want) \in CallsInProgress /\ Calling(op, want).op = op
         /\ Calling(op, want).want = want /\ Calling(op, want).got = 0
         /\ ~Calling(op, want).timed
BY DEF Calling, CallsInProgress

\* No call in progress.
LEMMA IdleFacts ==
  Idle \in CallsInProgress /\ Idle.op = "none" /\ Idle.got = 0
BY CallingFacts DEF Idle

\* No result yet.
LEMMA NoResultFacts ==
  NoResult \in Results /\ NoResult.op = "none"
BY DEF NoResult, Results

\* A free socket has no call; a call that has begun is not Idle.
LEMMA FreeFacts ==
  ASSUME TypeOK
  PROVE  /\ Free => call.op = "none" /\ Pending = 0
         /\ call.op # "none" => ~Free
BY IdleFacts DEF Free, Pending

\* What recv() may return.
LEMMA RecvFacts ==
  ASSUME TypeOK, NEW size \in Nat \ {0}, NEW n \in Recv(size)
  PROVE  /\ n \in Int
         /\ n > 0 => n <= size /\ taken + n <= Len(stream) /\ peer \in {"open", "closed"}
         /\ n = 0 => peer = "dead" \/ (peer = "closed" /\ taken = Len(stream))
<1>1. Len(stream) \in Nat /\ taken \in Nat /\ taken <= Len(stream) /\ Unread = Len(stream) - taken
  BY DEF TypeOK, Unread
<1>2. Smaller(size, Unread) \in Int /\ Smaller(size, Unread) <= size /\ Smaller(size, Unread) <= Unread
      /\ (Unread > 0 => Smaller(size, Unread) > 0)
  BY <1>1 DEF Smaller
<1>3. CASE peer \in {"none", "reset"}
  <2>1. n = -1
    BY <1>3 DEF Recv
  <2> QED
    BY <2>1
<1>4. CASE peer \in {"open", "closed"} /\ Unread > 0
  <2>1. n = Smaller(size, Unread)
    BY <1>1, <1>4 DEF Recv
  <2> QED
    BY <1>1, <1>2, <1>4, <2>1
<1>5. CASE peer = "dead" \/ (peer = "closed" /\ Unread = 0)
  <2>1. n = 0
    BY <1>5 DEF Recv
  <2> QED
    BY <1>1, <1>5, <2>1
<1>6. CASE peer = "open" /\ ~(Unread > 0)
  <2>1. n = -1
    BY <1>6 DEF Recv
  <2> QED
    BY <2>1
<1> QED
  BY <1>1, <1>3, <1>4, <1>5, <1>6 DEF TypeOK

\* What socket::read may return: less than a byte is explained, and only the end of
\* the stream disconnects.
LEMMA OutcomeFacts ==
  ASSUME TypeOK, NEW size \in Nat \ {0}, NEW o \in ReadOutcomes(size)
  PROVE  /\ o.n \in Int /\ o.error \in Errors /\ o.eof \in BOOLEAN /\ o.reset \in BOOLEAN
         /\ o.n > 0 => o.n <= size /\ taken + o.n <= Len(stream) /\ peer \in {"open", "closed"}
         /\ o.n <= 0 => o.error # "none" \/ o.eof
         /\ o.eof => o.n = 0 /\ (peer = "dead" \/ (peer = "closed" /\ taken = Len(stream)))
         /\ o.reset => o.n < 0 /\ peer = "reset"
<1>1. CASE o = [n |-> -1, error |-> "native", eof |-> FALSE, reset |-> FALSE]
  BY <1>1 DEF Errors
<1>2. CASE o = [n |-> 0, error |-> "timeout", eof |-> FALSE, reset |-> FALSE]
  BY <1>2 DEF Errors
<1>3. ASSUME NEW n \in Recv(size),
             o = [n |-> n, error |-> IF n < 0 THEN "native" ELSE "none", eof |-> n = 0,
                  reset |-> n < 0 /\ peer = "reset"]
      PROVE  /\ o.n \in Int /\ o.error \in Errors /\ o.eof \in BOOLEAN /\ o.reset \in BOOLEAN
             /\ o.n > 0 => o.n <= size /\ taken + o.n <= Len(stream) /\ peer \in {"open", "closed"}
             /\ o.n <= 0 => o.error # "none" \/ o.eof
             /\ o.eof => o.n = 0 /\ (peer = "dead" \/ (peer = "closed" /\ taken = Len(stream)))
             /\ o.reset => o.n < 0 /\ peer = "reset"
  <2>1. /\ n \in Int
        /\ n > 0 => n <= size /\ taken + n <= Len(stream) /\ peer \in {"open", "closed"}
        /\ n = 0 => peer = "dead" \/ (peer = "closed" /\ taken = Len(stream))
    BY RecvFacts
  <2>2. /\ o.n = n /\ (o.eof <=> n = 0) /\ o.eof \in BOOLEAN /\ o.reset \in BOOLEAN
        /\ o.reset <=> n < 0 /\ peer = "reset"
        /\ o.error = IF n < 0 THEN "native" ELSE "none"
    BY <1>3
  <2> QED
    BY <2>1, <2>2 DEF Errors
<1>4. \/ o = [n |-> -1, error |-> "native", eof |-> FALSE, reset |-> FALSE]
      \/ o = [n |-> 0, error |-> "timeout", eof |-> FALSE, reset |-> FALSE]
      \/ \E n \in Recv(size) :
            o = [n |-> n, error |-> IF n < 0 THEN "native" ELSE "none", eof |-> n = 0,
                 reset |-> n < 0 /\ peer = "reset"]
  BY Zenon DEF ReadOutcomes
<1> QED
  BY <1>1, <1>2, <1>3, <1>4

\* What recv() does to the connection, if the socket is told of the end of the stream.
LEMMA ReceiveFacts ==
  ASSUME TypeOK, EndInv, NEW n \in Int, NEW reset \in BOOLEAN, Receive(n, reset),
         n > 0 => taken + n <= Len(stream) /\ peer \in {"open", "closed"},
         reset => n < 0 /\ peer = "reset",
         ~connected' => ~connected
                        \/ (n = 0 /\ (peer = "dead" \/ (peer = "closed" /\ taken = Len(stream))))
  PROVE  /\ stream' \in Seq(Bytes) /\ taken' \in 0..Len(stream') /\ stream' = stream
         /\ peer' \in {"none", "open", "closed", "reset", "dead"}
         /\ taken' = IF n > 0 THEN taken + n ELSE taken
         /\ EndInv'
<1>1. stream \in Seq(Bytes) /\ Len(stream) \in Nat /\ taken \in Nat /\ taken <= Len(stream)
      /\ peer \in {"none", "open", "closed", "reset", "dead"}
  BY DEF TypeOK
<1>2. /\ taken' = (IF n > 0 THEN taken + n ELSE taken) /\ stream' = stream
      /\ peer' = IF reset THEN "dead" ELSE peer
  BY DEF Receive
<1>3. EndInv'
  BY <1>1, <1>2 DEF EndInv
<1> QED
  BY <1>1, <1>2, <1>3

-----------------------------------------------------------------------------
(* The steps.                                                              *)

\* What the invariant says, in the form the steps use it.
LEMMA InvTypes ==
  ASSUME StreamInv
  PROVE  /\ call.op \in {"none", "until", "line", "connect"} /\ call.got \in Nat /\ call.want \in Nat
         /\ call.timed \in BOOLEAN /\ call.original \in BOOLEAN
         /\ last.op \in {"none", "read", "until", "line", "write", "connect"} /\ last.n \in Int
         /\ last.want \in Nat /\ last.ended \in BOOLEAN
         /\ stream \in Seq(Bytes) /\ Len(stream) \in Nat /\ taken \in Nat /\ taken <= Len(stream)
BY DEF StreamInv, TypeOK, CallsInProgress, Results

\* A byte arrives, or the peer leaves: only a connected socket has an open peer.
LEMMA PeerStep ==
  ASSUME StreamInv,
         \/ \E b \in Bytes : PeerSends(b)
         \/ \E how \in {"closed", "reset"} : PeerLeaves(how)
  PROVE  StreamInv'
<1>1. /\ UNCHANGED <<valid, modeVars, connected, error_code, timeout, taken, call, last, delivered,
                     conns, ops>>
      /\ peer = "open" /\ peer' \in {"open", "closed", "reset"}
  BY DEF PeerSends, PeerLeaves
<1>2. connected
  BY <1>1 DEF StreamInv, EndInv
<1>3. /\ stream' \in Seq(Bytes) /\ Len(stream') >= Len(stream) /\ Len(stream') \in Nat
      /\ \A i \in 1..Len(stream) : stream'[i] = stream[i]
  <2>1. stream' = stream \/ \E b \in Bytes : stream' = Append(stream, b)
    BY DEF PeerSends, PeerLeaves
  <2> QED
    BY SMTT(30), <2>1, InvTypes
<1>4. TypeOK'
  BY <1>1, <1>2, <1>3, InvTypes DEF StreamInv, TypeOK, modeVars
<1>5. (DeliveredInv /\ RoomInv /\ AttemptInv /\ ModeInv /\ FailureExplained)'
  <2>1. (DeliveredInv /\ RoomInv)'
    BY <1>1 DEF StreamInv, DeliveredInv, RoomInv, Pending
  <2>2. (AttemptInv /\ ModeInv)'
    BY <1>1, <1>2 DEF StreamInv, AttemptInv, ModeInv, modeVars
  <2>3. FailureExplained'
    BY <1>1 DEF StreamInv, FailureExplained
  <2> QED
    BY <2>1, <2>2, <2>3
<1>6. EndInv'
  BY <1>1, <1>2 DEF EndInv
<1>7. LineInv'
  <2>1. ASSUME NEW n \in Nat, n <= taken, NEW hi \in Int, hi <= taken
        PROVE  Complete(stream', taken - n + 1, hi) <=> Complete(stream, taken - n + 1, hi)
    <3>1. \A i \in (taken - n + 1)..hi : stream'[i] = stream[i]
      BY <1>3, <2>1, InvTypes
    <3> QED
      BY <3>1 DEF Complete
  <2>2. call.op = "line" => call.got <= taken
    BY DEF StreamInv, DeliveredInv, Pending
  <2>3. last.op = "line" /\ last.n > 0 => last.n \in Nat /\ last.n <= taken
    BY InvTypes DEF StreamInv, LineInv
  <2>4. taken \in Int /\ taken - 1 \in Int /\ taken - 1 <= taken
    BY InvTypes
  <2>5. call.op = "line" => ~Complete(stream', taken - call.got + 1, taken)
    BY <2>1, <2>2, <2>4, InvTypes DEF StreamInv, LineInv
  <2>6. last.op = "line" /\ last.n > 0 =>
          /\ last.n <= taken /\ last.n <= last.want
          /\ last.ended <=> Complete(stream', taken - last.n + 1, taken)
          /\ ~Complete(stream', taken - last.n + 1, taken - 1)
    BY <2>1, <2>3, <2>4, InvTypes DEF StreamInv, LineInv
  <2> QED
    BY <1>1, <2>5, <2>6 DEF LineInv
<1> QED
  BY <1>4, <1>5, <1>6, <1>7 DEF StreamInv

\* read(): what it received it delivers.
LEMMA ReadStep ==
  ASSUME StreamInv, NEW size \in Sizes, Read(size) PROVE StreamInv'
<1>1. /\ Free /\ UNCHANGED <<valid, modeVars, timeout, call, conns, ops>>
  BY DEF Read
<1>2. size \in Nat \ {0} /\ TypeOK /\ call.op = "none" /\ Pending = 0 /\ delivered = Upto(taken)
  <2>1. call.op = "none" /\ Pending = 0
    BY <1>1, FreeFacts DEF StreamInv
  <2> QED
    BY <2>1, StreamAssumption, InvTypes DEF StreamInv, DeliveredInv
<1>3. /\ stream' \in Seq(Bytes) /\ taken' \in 0..Len(stream')
      /\ peer' \in {"none", "open", "closed", "reset", "dead"} /\ EndInv'
      /\ delivered' = Upto(taken') /\ delivered' \in Seq(Nat)
      /\ connected' \in BOOLEAN /\ (connected' => connected) /\ error_code' \in Errors
      /\ \E n \in Int : last' = Result("read", n, size) /\ (n <= 0 => error_code' # "none" \/ ~connected')
  <2>1. CASE ~valid
    <3>1. /\ error_code' \in {"no_socket", error_code} /\ last' = Result("read", -1, size)
          /\ UNCHANGED <<connected, netVars, delivered>>
      BY <2>1 DEF Read
    <3> QED
      BY <1>2, <2>1, <3>1 DEF StreamInv, TypeOK, EndInv, netVars, Errors
  <2>2. CASE valid
    <3>1. PICK o \in ReadOutcomes(size) :
             /\ Receive(o.n, o.reset)
             /\ connected' = StaysConnected(o) /\ error_code' = o.error
             /\ Deliver(IF o.n > 0 THEN o.n ELSE 0)
             /\ last' = Result("read", o.n, size)
      BY <2>2 DEF Read
    <3>2. /\ o.n \in Int /\ o.error \in Errors /\ o.eof \in BOOLEAN /\ o.reset \in BOOLEAN
          /\ o.n > 0 => o.n <= size /\ taken + o.n <= Len(stream) /\ peer \in {"open", "closed"}
          /\ o.n <= 0 => o.error # "none" \/ o.eof
          /\ o.eof => o.n = 0 /\ (peer = "dead" \/ (peer = "closed" /\ taken = Len(stream)))
          /\ o.reset => o.n < 0 /\ peer = "reset"
      BY <1>2, OutcomeFacts
    <3>3. connected' \in BOOLEAN /\ (connected' <=> connected /\ ~o.eof)
      BY <3>1 DEF StaysConnected
    <3>4. /\ stream' \in Seq(Bytes) /\ taken' \in 0..Len(stream') /\ stream' = stream
          /\ peer' \in {"none", "open", "closed", "reset", "dead"}
          /\ taken' = IF o.n > 0 THEN taken + o.n ELSE taken
          /\ EndInv'
      BY <1>2, <3>1, <3>2, <3>3, ReceiveFacts DEF StreamInv
    <3>5. delivered' = Upto(taken') /\ delivered' \in Seq(Nat)
      <4> DEFINE n == IF o.n > 0 THEN o.n ELSE 0
      <4>1. n \in Nat /\ taken' = taken + n /\ taken \in Nat
        BY <3>2, <3>4, InvTypes
      <4> QED
        BY <1>2, <3>1, <4>1, DeliverFacts
    <3> QED
      BY <3>1, <3>2, <3>3, <3>4, <3>5
  <2> QED
    BY <1>2, <2>1, <2>2 DEF TypeOK
<1>4. PICK n \in Int : last' = Result("read", n, size) /\ (n <= 0 => error_code' # "none" \/ ~connected')
  BY <1>3
<1>5. /\ last' \in Results /\ last'.op = "read" /\ last'.n = n
  <2>1. size \in Nat
    BY <1>2
  <2>2. Result("read", n, size) \in Results /\ Result("read", n, size).op = "read" /\ Result("read", n, size).n = n
    BY <2>1 DEF Result, Results
  <2> QED
    BY <1>4, <2>2
<1>6. TypeOK'
  BY <1>1, <1>2, <1>3, <1>5 DEF TypeOK, modeVars
<1>7. Pending' = 0 /\ RoomInv' /\ DeliveredInv'
  <2>1. Pending' = 0 /\ RoomInv'
    BY <1>1, <1>2 DEF Pending, RoomInv
  <2>2. taken' \in Nat
    <3>1. stream' \in Seq(Bytes) /\ taken' \in 0..Len(stream')
      BY <1>3
    <3>2. Len(stream') \in Nat
      BY <3>1
    <3> QED
      BY <3>1, <3>2
  <2> QED
    BY <1>3, <2>1, <2>2 DEF DeliveredInv
<1>8. (AttemptInv /\ ModeInv /\ LineInv)'
  BY <1>1, <1>2, <1>5 DEF StreamInv, AttemptInv, ModeInv, LineInv, modeVars
<1>9. FailureExplained'
  BY <1>4, <1>5 DEF FailureExplained
<1> QED
  BY <1>3, <1>6, <1>7, <1>8, <1>9 DEF StreamInv

\* Steps that set the result, the error and the settings, and leave the connection.
LEMMA SettingSteps ==
  ASSUME StreamInv,
         \/ \E size \in Sizes, timed \in BOOLEAN : Write(size, timed)
         \/ \E flag \in BOOLEAN : SetBlocking(flag)
         \/ \E which \in {"read", "write", "connect"}, ms \in -1..1 : SetTimeout(which, ms)
         \/ SetOption
  PROVE  StreamInv'
<1>1. /\ Free /\ UNCHANGED <<valid, connected, netVars, call, delivered, conns>>
  BY DEF Write, SetBlocking, SetTimeout, SetOption
<1>2. TypeOK /\ call.op = "none"
  BY <1>1, FreeFacts DEF StreamInv
<1>3. /\ nonblock' \in BOOLEAN /\ blocking' \in BOOLEAN /\ wanted' \in BOOLEAN /\ untold' \in BOOLEAN
      /\ ModeInv'
  <2>1. CASE UNCHANGED modeVars
    BY <1>1, <1>2, <2>1 DEF StreamInv, ModeInv, modeVars, TypeOK
  <2>2. ASSUME NEW flag \in BOOLEAN, nonblock' = ~flag, blocking' = flag, wanted' = flag, untold' = FALSE
        PROVE  /\ nonblock' \in BOOLEAN /\ blocking' \in BOOLEAN /\ wanted' \in BOOLEAN
               /\ untold' \in BOOLEAN /\ ModeInv'
    BY <1>1, <1>2, <2>2 DEF ModeInv
  <2>3. \/ UNCHANGED modeVars
        \/ \E flag \in BOOLEAN : nonblock' = ~flag /\ blocking' = flag /\ wanted' = flag /\ untold' = FALSE
    BY DEF Write, SetBlocking, SetTimeout, SetOption
  <2> QED
    BY <2>1, <2>2, <2>3
<1>4. timeout' \subseteq {"read", "write", "connect"} /\ error_code' \in Errors /\ ops' \in 0..MaxOps
  <2>1. CASE \E size \in Sizes, timed \in BOOLEAN : Write(size, timed)
    <3>1. UNCHANGED <<timeout, ops>> /\ error_code' \in {"none", "native", "timeout", "no_socket"}
      <4>1. PICK size \in Sizes, timed \in BOOLEAN : Write(size, timed)
        BY <2>1
      <4>2. PICK n \in -1..size :
               /\ n = 0 => valid
               /\ error_code' = CASE ~valid -> "no_socket" [] valid /\ n < 0 -> "native"
                                  [] n = 0 -> "timeout" [] OTHER -> "none"
        BY <4>1 DEF Write
      <4>3. error_code' \in {"none", "native", "timeout", "no_socket"}
        BY <4>2, StreamAssumption
      <4> QED
        BY <4>1, <4>3 DEF Write
    <3> QED
      BY <1>2, <3>1 DEF TypeOK, Errors
  <2>2. CASE SetOption \/ \E flag \in BOOLEAN : SetBlocking(flag)
    <3>1. /\ timeout' = timeout /\ ops < MaxOps /\ ops' = ops + 1
          /\ error_code' \in {"none", "native", "no_socket"}
      <4>1. CASE SetOption
        BY <4>1 DEF SetOption
      <4>2. ASSUME NEW flag \in BOOLEAN, SetBlocking(flag)
            PROVE  /\ timeout' = timeout /\ ops < MaxOps /\ ops' = ops + 1
                   /\ error_code' \in {"none", "native", "no_socket"}
        BY <4>2 DEF SetBlocking
      <4> QED
        BY <2>2, <4>1, <4>2
    <3> QED
      BY <1>2, <3>1, StreamAssumption DEF TypeOK, Errors
  <2>3. CASE \E which \in {"read", "write", "connect"}, ms \in -1..1 : SetTimeout(which, ms)
    BY <1>2, <2>3, StreamAssumption DEF SetTimeout, TypeOK, Errors
  <2> QED
    BY <2>1, <2>2, <2>3
<1>5. /\ last' \in Results /\ last'.op \in {"none", "write"}
      /\ last'.op = "write" /\ last'.n <= 0 => error_code' # "none"
  <2>1. CASE last' = NoResult
    BY <2>1, NoResultFacts
  <2>2. ASSUME NEW size \in Sizes, NEW timed \in BOOLEAN, Write(size, timed)
        PROVE  /\ last' \in Results /\ last'.op \in {"none", "write"}
               /\ last'.op = "write" /\ last'.n <= 0 => error_code' # "none"
    <3>1. PICK n \in -1..size :
             /\ last' = Result("write", n, size)
             /\ error_code' = CASE ~valid -> "no_socket" [] valid /\ n < 0 -> "native"
                                [] n = 0 -> "timeout" [] OTHER -> "none"
             /\ n = 0 => valid
      BY <2>2 DEF Write
    <3>2. size \in Nat /\ n \in Int
      BY StreamAssumption
    <3>3. last' \in Results /\ last'.op = "write" /\ last'.n = n
      <4>1. /\ Result("write", n, size) \in Results /\ Result("write", n, size).op = "write"
            /\ Result("write", n, size).n = n
        BY <3>2 DEF Result, Results
      <4> QED
        BY <3>1, <4>1
    <3>4. n <= 0 => error_code' # "none"
      BY <3>1, <3>2
    <3> QED
      BY <3>3, <3>4
  <2>3. last' = NoResult \/ \E size \in Sizes, timed \in BOOLEAN : Write(size, timed)
    BY DEF SetBlocking, SetTimeout, SetOption
  <2> QED
    BY <2>1, <2>2, <2>3
<1>6. TypeOK'
  BY <1>1, <1>2, <1>3, <1>4, <1>5 DEF TypeOK, netVars
<1>7. (DeliveredInv /\ RoomInv /\ EndInv)'
  BY <1>1 DEF StreamInv, DeliveredInv, RoomInv, EndInv, Pending, netVars
<1>8. (AttemptInv /\ LineInv)'
  BY <1>1, <1>2, <1>5 DEF AttemptInv, LineInv
<1>9. FailureExplained'
  BY <1>5 DEF FailureExplained
<1> QED
  BY <1>3, <1>6, <1>7, <1>8, <1>9 DEF StreamInv

\* A call that begins has received nothing and has room.
LEMMA Begins ==
  ASSUME StreamInv, Free, NEW op, op \in {"until", "line", "connect"}, NEW w \in Nat \ {0},
         call' = Calling(op, w), last' = NoResult, conns' \in 0..MaxConns,
         UNCHANGED <<valid, modeVars, connected, error_code, timeout, netVars, delivered, ops>>
  PROVE  StreamInv'
<1>1. TypeOK /\ call.op = "none" /\ Pending = 0
  BY FreeFacts DEF StreamInv
<1>2. /\ call' \in CallsInProgress /\ call'.op = op /\ call'.want = w /\ call'.got = 0
      /\ ~call'.timed
  BY DEF Calling, CallsInProgress
<1>3. last' \in Results /\ last'.op = "none"
  BY NoResultFacts
<1>4. TypeOK'
  BY <1>1, <1>2, <1>3 DEF TypeOK, modeVars, netVars
<1>5. Pending' = 0
  BY <1>2 DEF Pending
<1>6. (DeliveredInv /\ RoomInv /\ EndInv)'
  BY <1>1, <1>2, <1>5 DEF StreamInv, DeliveredInv, RoomInv, EndInv, netVars
<1>7. (AttemptInv /\ ModeInv /\ FailureExplained)'
  BY <1>1, <1>2, <1>3 DEF StreamInv, AttemptInv, ModeInv, FailureExplained, modeVars
<1>8. LineInv'
  <2>1. taken \in Nat /\ taken' = taken /\ taken' - call'.got + 1 = taken + 1
    BY <1>2, InvTypes DEF netVars
  <2>2. ~Complete(stream', taken + 1, taken)
    BY <2>1 DEF Complete
  <2> QED
    BY <1>3, <2>1, <2>2 DEF LineInv
<1> QED
  BY <1>4, <1>6, <1>7, <1>8 DEF StreamInv

\* A call that is refused at once.
LEMMA Refused ==
  ASSUME StreamInv, Free, error_code' \in Errors, last' \in Results, conns' \in 0..MaxConns,
         last'.op = "line" => ~(last'.n > 0), FailureExplained',
         UNCHANGED <<valid, modeVars, connected, timeout, netVars, call, delivered, ops>>
  PROVE  StreamInv'
<1>1. TypeOK /\ call.op = "none"
  BY FreeFacts DEF StreamInv
<1>2. TypeOK'
  BY <1>1 DEF TypeOK, modeVars, netVars
<1>3. (DeliveredInv /\ RoomInv /\ EndInv)'
  BY <1>1 DEF StreamInv, DeliveredInv, RoomInv, EndInv, Pending, netVars
<1>4. (AttemptInv /\ ModeInv /\ LineInv)'
  BY <1>1 DEF StreamInv, AttemptInv, ModeInv, LineInv, modeVars
<1> QED
  BY <1>2, <1>3, <1>4 DEF StreamInv

\* A call of read_until, read_line or connect that begins has nothing pending.
LEMMA BeginSteps ==
  ASSUME StreamInv,
         \/ \E size \in Sizes : ReadUntil(size) \/ ReadLine(size)
         \/ \E n \in 0..MaxAddresses : Connect(n)
  PROVE  StreamInv'
<1>0. TypeOK
  BY DEF StreamInv
<1>1. ASSUME NEW size \in Sizes, ReadUntil(size) PROVE StreamInv'
  <2>1. /\ Free /\ conns' \in 0..MaxConns /\ size \in Nat \ {0}
        /\ UNCHANGED <<valid, modeVars, connected, timeout, netVars, delivered, ops>>
    BY <1>0, <1>1, StreamAssumption DEF ReadUntil, TypeOK
  <2>2. CASE valid
    <3>1. call' = Calling("until", size) /\ last' = NoResult /\ UNCHANGED error_code
      BY <1>1, <2>2 DEF ReadUntil
    <3> QED
      BY <2>1, <3>1, Begins
  <2>3. CASE ~valid
    <3>1. error_code' = "no_socket" /\ last' = Result("until", -1, size) /\ call' = call
      BY <1>1, <2>3 DEF ReadUntil
    <3>2. last' \in Results /\ last'.op = "until"
      BY <2>1, <3>1 DEF Result, Results
    <3>3. error_code' \in Errors /\ FailureExplained'
      BY <3>1, <3>2 DEF FailureExplained, Errors
    <3> QED
      BY <2>1, <3>1, <3>2, <3>3, Refused
  <2> QED
    BY <1>0, <2>2, <2>3 DEF TypeOK
<1>2. ASSUME NEW size \in Sizes, ReadLine(size) PROVE StreamInv'
  <2> DEFINE room == Smaller(size, BufferSize) - 1
  <2>1. /\ Free /\ conns' \in 0..MaxConns
        /\ UNCHANGED <<valid, modeVars, connected, error_code, timeout, netVars, delivered, ops>>
    BY <1>0, <1>2 DEF ReadLine, TypeOK
  <2>2. room \in Nat
    BY StreamAssumption DEF Smaller
  <2>3. CASE ~(~valid \/ room = 0)
    <3>1. call' = Calling("line", room) /\ last' = NoResult
      BY <1>2, <2>3 DEF ReadLine
    <3>2. room \in Nat \ {0}
      BY <2>2, <2>3
    <3> QED
      BY <2>1, <3>1, <3>2, Begins
  <2>4. CASE ~valid \/ room = 0
    <3>1. last' = Result("line", IF valid THEN 0 ELSE -1, room) /\ call' = call
      BY <1>2, <2>4 DEF ReadLine
    <3> HIDE DEF room
    <3>2. /\ last' \in Results /\ last'.op = "line" /\ last'.n = (IF valid THEN 0 ELSE -1)
          /\ last'.want = room
      BY <2>2, <3>1 DEF Result, Results
    <3>3. connected => valid
      BY <1>0 DEF TypeOK
    <3>4. FailureExplained'
      BY <2>1, <2>2, <2>4, <3>2, <3>3 DEF FailureExplained
    <3>5. error_code' \in Errors /\ ~(last'.n > 0)
      BY <1>0, <2>1, <3>2 DEF TypeOK
    <3> QED
      BY <2>1, <3>1, <3>2, <3>4, <3>5, Refused
  <2> QED
    BY <2>3, <2>4
<1>3. ASSUME NEW n \in 0..MaxAddresses, Connect(n) PROVE StreamInv'
  <2>1. /\ Free /\ conns' \in 0..MaxConns
        /\ UNCHANGED <<valid, modeVars, connected, timeout, netVars, delivered, ops>>
    BY <1>0, <1>3, StreamAssumption DEF Connect, TypeOK
  <2>2. CASE n = 0
    <3>1. error_code' = "no_host" /\ last' = Result("connect", 0, 1) /\ call' = call
      BY <1>3, <2>2 DEF Connect
    <3>2. last' \in Results /\ last'.op = "connect"
      BY <3>1 DEF Result, Results
    <3>3. error_code' \in Errors /\ FailureExplained'
      BY <3>1, <3>2 DEF FailureExplained, Errors
    <3> QED
      BY <2>1, <3>1, <3>2, <3>3, Refused
  <2>3. CASE n # 0
    <3>1. call' = Calling("connect", n) /\ last' = NoResult /\ UNCHANGED error_code
      BY <1>3, <2>3 DEF Connect
    <3>2. n \in Nat \ {0}
      BY <2>3, StreamAssumption
    <3> QED
      BY <2>1, <3>1, <3>2, Begins
  <2> QED
    BY <2>2, <2>3
<1> QED
  BY <1>1, <1>2, <1>3

\* A close forgets the connection and with it the received bytes.
LEMMA CloseStep ==
  ASSUME StreamInv, Close PROVE StreamInv'
<1>1. /\ Free /\ CloseFd /\ last' = NoResult /\ UNCHANGED <<modeVars, timeout, call, conns, ops>>
      /\ error_code' \in {error_code, "native"}
  BY DEF Close
<1>2. TypeOK /\ call.op = "none"
  BY <1>1, FreeFacts DEF StreamInv
<1>3. last' \in Results /\ last'.op = "none"
  BY <1>1, NoResultFacts
<1>4. /\ valid' \in BOOLEAN /\ ~valid' /\ connected' \in BOOLEAN /\ ~connected' /\ peer' = "none"
      /\ stream' = <<>> /\ taken' = 0 /\ delivered' = <<>>
  BY <1>1 DEF CloseFd
<1>5. TypeOK'
  <2>1. <<>> \in Seq(Bytes) /\ <<>> \in Seq(Nat) /\ 0 \in 0..Len(<<>>)
    OBVIOUS
  <2> QED
    BY <1>1, <1>2, <1>3, <1>4, <2>1 DEF TypeOK, modeVars, Errors
<1>6. Pending' = 0 /\ RoomInv' /\ EndInv'
  BY <1>1, <1>2, <1>4 DEF Pending, RoomInv, EndInv
<1>7. DeliveredInv'
  <2>1. Upto(0) = <<>>
    BY DEF Upto
  <2> QED
    BY <1>4, <1>6, <2>1 DEF DeliveredInv
<1>8. (AttemptInv /\ ModeInv /\ LineInv /\ FailureExplained)'
  BY <1>1, <1>2, <1>3, <1>4 DEF StreamInv, AttemptInv, ModeInv, LineInv, FailureExplained, modeVars
<1> QED
  BY <1>5, <1>6, <1>7, <1>8 DEF StreamInv

\* A turn of the loop of read_until: what it received it delivers, now or later.
LEMMA UntilStep ==
  ASSUME StreamInv, ReadUntilStep PROVE StreamInv'
<1> DEFINE size == call.want - call.got
<1>1. call.op = "until" /\ UNCHANGED <<valid, modeVars, timeout, conns, ops>>
  BY DEF ReadUntilStep
<1>2. PICK o \in ReadOutcomes(size) :
        LET total == IF o.n > 0 THEN call.got + o.n ELSE call.got IN
        /\ Receive(o.n, o.reset)
        /\ connected' = StaysConnected(o) /\ error_code' = o.error
        /\ IF UntilGoesOn(o.n, total, call.want)
           THEN call' = [call EXCEPT !.got = total] /\ UNCHANGED <<last, delivered>>
           ELSE /\ call' = Idle /\ last' = Result("until", UntilTotal(o.n, total), call.want)
                /\ Deliver(UntilTotal(o.n, total))
  BY DEF ReadUntilStep
<1> DEFINE total == IF o.n > 0 THEN call.got + o.n ELSE call.got
<1>3. /\ call.got \in Nat /\ call.want \in Nat /\ call.got < call.want /\ size \in Nat \ {0}
      /\ call \in CallsInProgress /\ taken \in Nat /\ call.got <= taken /\ TypeOK
      /\ delivered = Upto(taken - call.got) /\ delivered \in Seq(Nat) /\ last = NoResult
  <2>1. call.got \in Nat /\ call.want \in Nat /\ call.got < call.want
    BY <1>1, InvTypes DEF StreamInv, RoomInv
  <2>2. size \in Nat \ {0}
    BY <2>1
  <2>3. Pending = call.got
    BY <1>1 DEF Pending
  <2> QED
    BY <1>1, <2>1, <2>2, <2>3, InvTypes DEF StreamInv, DeliveredInv, AttemptInv, TypeOK
<1>4. /\ o.n \in Int /\ o.error \in Errors /\ o.eof \in BOOLEAN /\ o.reset \in BOOLEAN
      /\ o.n > 0 => o.n <= size /\ taken + o.n <= Len(stream) /\ peer \in {"open", "closed"}
      /\ o.n <= 0 => o.error # "none" \/ o.eof
      /\ o.eof => o.n = 0 /\ (peer = "dead" \/ (peer = "closed" /\ taken = Len(stream)))
      /\ o.reset => o.n < 0 /\ peer = "reset"
  BY <1>3, OutcomeFacts
<1>5. connected' \in BOOLEAN /\ (connected' <=> connected /\ ~o.eof)
  BY <1>2 DEF StaysConnected
<1>6. /\ stream' \in Seq(Bytes) /\ taken' \in 0..Len(stream') /\ stream' = stream
      /\ peer' \in {"none", "open", "closed", "reset", "dead"}
      /\ taken' = IF o.n > 0 THEN taken + o.n ELSE taken
      /\ EndInv'
  BY <1>2, <1>3, <1>4, <1>5, ReceiveFacts DEF StreamInv
<1>7. /\ total \in Nat /\ total <= taken' /\ taken' - total = taken - call.got
      /\ taken - call.got \in Nat /\ taken' = (taken - call.got) + total /\ taken' \in Nat
  <2>1. /\ call.got \in Nat /\ taken \in Nat /\ call.got <= taken /\ o.n \in Int
        /\ taken' = IF o.n > 0 THEN taken + o.n ELSE taken
    BY <1>3, <1>4, <1>6
  <2> QED
    BY <2>1
<1>8. CASE UntilGoesOn(o.n, total, call.want)
  <2>1. call' = [call EXCEPT !.got = total] /\ UNCHANGED <<last, delivered>>
    BY <1>2, <1>8
  <2>2. total < call.want
    BY <1>8 DEF UntilGoesOn
  <2> HIDE DEF total
  <2>3. call' \in CallsInProgress /\ call'.op = "until" /\ call'.got = total /\ call'.want = call.want
    BY <1>1, <1>3, <1>7, <2>1 DEF CallsInProgress
  <2>4. last' \in Results /\ last'.op = "none" /\ last' = NoResult
    BY <1>3, <2>1, NoResultFacts
  <2>5. TypeOK'
    BY <1>1, <1>2, <1>3, <1>4, <1>5, <1>6, <2>1, <2>3, <2>4 DEF TypeOK, modeVars
  <2>6. (DeliveredInv /\ RoomInv)'
    BY <1>3, <1>7, <2>1, <2>2, <2>3 DEF DeliveredInv, RoomInv, Pending
  <2>7. (AttemptInv /\ ModeInv /\ LineInv /\ FailureExplained)'
    BY <1>1, <2>3, <2>4 DEF StreamInv, AttemptInv, ModeInv, LineInv, FailureExplained, modeVars
  <2> QED
    BY <1>6, <2>5, <2>6, <2>7 DEF StreamInv
<1>9. CASE ~UntilGoesOn(o.n, total, call.want)
  <2>1. call' = Idle /\ last' = Result("until", total, call.want) /\ Deliver(total)
    BY <1>2, <1>9 DEF UntilTotal
  <2>2. ~(o.n > 0 /\ total < call.want)
    BY <1>9 DEF UntilGoesOn
  <2> HIDE DEF total
  <2>3. call' \in CallsInProgress /\ call'.op = "none"
    BY <2>1, IdleFacts
  <2>4. last' \in Results /\ last'.op = "until" /\ last'.n = total /\ last'.want = call.want
    BY <1>3, <1>7, <2>1 DEF Result, Results
  <2>5. delivered' = Upto(taken') /\ delivered' \in Seq(Nat)
    BY <1>3, <1>7, <2>1, DeliverFacts
  <2>6. TypeOK'
    BY <1>1, <1>2, <1>3, <1>4, <1>5, <1>6, <2>3, <2>4, <2>5 DEF TypeOK, modeVars
  <2>7. (DeliveredInv /\ RoomInv)'
    BY <1>7, <2>3, <2>5 DEF DeliveredInv, RoomInv, Pending
  <2>8. (AttemptInv /\ ModeInv /\ LineInv)'
    BY <1>1, <2>3, <2>4 DEF StreamInv, AttemptInv, ModeInv, LineInv, modeVars
  <2>9. FailureExplained'
    BY <1>2, <1>4, <1>5, <2>2, <2>4 DEF FailureExplained
  <2> QED
    BY <1>6, <2>6, <2>7, <2>8, <2>9 DEF StreamInv
<1> QED
  BY <1>8, <1>9

\* The last g of the first u bytes received, as a line.
LEMMA LineFacts ==
  ASSUME stream \in Seq(Bytes), NEW u \in Nat, NEW g \in Nat, g <= u, u <= Len(stream)
  PROVE  /\ Len(Line(g, u)) = g /\ \A i \in 1..g : Line(g, u)[i] = stream[u - g + i]
         /\ LineEnded(Line(g, u)) <=> Complete(stream, u - g + 1, u)
<1> DEFINE l == Line(g, u)
<1>1. Len(stream) \in Nat
  OBVIOUS
<1>2. Len(l) = g /\ \A i \in 1..g : l[i] = stream[u - g + i]
  <2>1. CASE g = 0
    <3>1. l = <<>>
      BY <1>1, <2>1, SubSeqEmpty DEF Line
    <3> QED
      BY <2>1, <3>1
  <2>2. CASE g > 0
    <3>1. u - g + 1 \in 1..Len(stream) /\ u \in Int /\ u - (u - g + 1) + 1 = g
      BY <1>1, <2>2
    <3>2. \A i \in (u - g + 1)..u : stream[i] \in Bytes
      BY <1>1, <3>1
    <3>3. /\ Len(l) = (IF u - g + 1 <= u THEN u - (u - g + 1) + 1 ELSE 0)
          /\ \A i \in 1..(u - (u - g + 1) + 1) : l[i] = stream[(u - g + 1) + i - 1]
      BY <3>1, <3>2, SubSeqProperties DEF Line
    <3> HIDE DEF l
    <3>4. \A i \in 1..g : l[i] = stream[(u - g + 1) + i - 1] /\ (u - g + 1) + i - 1 = u - g + i
      BY <3>1, <3>3
    <3> QED
      BY <2>2, <3>1, <3>3, <3>4
  <2> QED
    BY <2>1, <2>2
<1> HIDE DEF l
<1>3. ASSUME NEW b PROVE Holds(l, b) <=> \E i \in (u - g + 1)..u : stream[i] = b
  <2>1. ASSUME NEW i \in 1..Len(l), l[i] = b PROVE \E j \in (u - g + 1)..u : stream[j] = b
    <3>1. u - g + i \in (u - g + 1)..u /\ stream[u - g + i] = b
      BY <1>2, <2>1
    <3> QED
      BY <3>1
  <2>2. ASSUME NEW j \in (u - g + 1)..u, stream[j] = b PROVE Holds(l, b)
    <3>1. j - (u - g) \in 1..g /\ u - g + (j - (u - g)) = j
      OBVIOUS
    <3>2. j - (u - g) \in 1..Len(l) /\ l[j - (u - g)] = b
      BY <1>2, <2>2, <3>1
    <3> QED
      BY <3>2 DEF Holds
  <2> QED
    BY <2>1, <2>2 DEF Holds
<1>4. LineEnded(l) <=> Complete(stream, u - g + 1, u)
  BY <1>3 DEF LineEnded, Complete
<1> QED
  BY <1>2, <1>4 DEF l

\* A byte of read_line, or the end of it.
LEMMA LineStep ==
  ASSUME StreamInv, ReadLineStep PROVE StreamInv'
<1>1. call.op = "line" /\ UNCHANGED <<valid, modeVars, timeout, conns, ops>>
  BY DEF ReadLineStep
<1>2. PICK n \in Recv(1) :
        LET got == IF n > 0 THEN call.got + n ELSE call.got
            ended == n > 0 /\ LineEnded(Line(got, taken + n))
        IN
        /\ Receive(n, n < 0 /\ peer = "reset")
        /\ connected' = (connected /\ n # 0)
        /\ error_code' = IF n < 0 THEN "native" ELSE error_code
        /\ IF n > 0 /\ ~ended /\ got < call.want
           THEN call' = [call EXCEPT !.got = got] /\ UNCHANGED <<last, delivered>>
           ELSE /\ call' = Idle /\ Deliver(got)
                /\ last' = [Result("line", got, call.want) EXCEPT !.ended = ended]
  BY DEF ReadLineStep
<1> DEFINE got == IF n > 0 THEN call.got + n ELSE call.got
           ended == n > 0 /\ LineEnded(Line(got, taken + n))
<1>3. /\ call.got \in Nat /\ call.want \in Nat /\ call.got < call.want
      /\ call \in CallsInProgress /\ taken \in Nat /\ call.got <= taken /\ TypeOK
      /\ delivered = Upto(taken - call.got) /\ delivered \in Seq(Nat) /\ last = NoResult
      /\ ~Complete(stream, taken - call.got + 1, taken)
  <2>1. Pending = call.got
    BY <1>1 DEF Pending
  <2> QED
    BY <1>1, <2>1, InvTypes DEF StreamInv, DeliveredInv, AttemptInv, RoomInv, LineInv, TypeOK
<1>4. /\ n \in Int
      /\ n > 0 => n <= 1 /\ taken + n <= Len(stream) /\ peer \in {"open", "closed"}
      /\ n = 0 => peer = "dead" \/ (peer = "closed" /\ taken = Len(stream))
  BY <1>3, RecvFacts
<1>5. connected' \in BOOLEAN /\ (connected' <=> connected /\ n # 0)
      /\ error_code' = IF n < 0 THEN "native" ELSE error_code
  BY <1>2
<1>6. /\ stream' \in Seq(Bytes) /\ taken' \in 0..Len(stream') /\ stream' = stream
      /\ peer' \in {"none", "open", "closed", "reset", "dead"}
      /\ taken' = IF n > 0 THEN taken + n ELSE taken
      /\ EndInv'
  <2> DEFINE reset == n < 0 /\ peer = "reset"
  <2>1. reset \in BOOLEAN /\ (reset => n < 0 /\ peer = "reset") /\ Receive(n, reset)
    BY <1>2
  <2> HIDE DEF reset
  <2> QED
    BY <1>3, <1>4, <1>5, <2>1, ReceiveFacts DEF StreamInv
<1>7. /\ got \in Nat /\ got <= taken' /\ taken' - got = taken - call.got /\ got <= call.want
      /\ taken - call.got \in Nat /\ taken' = (taken - call.got) + got /\ taken' \in Nat
  <2>1. /\ call.got \in Nat /\ call.want \in Nat /\ call.got < call.want
        /\ taken \in Nat /\ call.got <= taken /\ n \in Int /\ (n > 0 => n <= 1)
        /\ taken' = IF n > 0 THEN taken + n ELSE taken
    BY <1>3, <1>4, <1>6
  <2> QED
    BY <2>1
<1>8. /\ ended \in BOOLEAN
      /\ ended <=> Complete(stream', taken' - got + 1, taken')
      /\ ~Complete(stream', taken' - got + 1, taken' - 1)
  <2>1. CASE n > 0
    <3>1. n = 1 /\ taken' = taken + n /\ got = call.got + 1 /\ taken' <= Len(stream)
      BY <1>3, <1>4, <1>6, <2>1
    <3>2. LineEnded(Line(got, taken')) <=> Complete(stream, taken' - got + 1, taken')
      BY <1>6, <1>7, <3>1, LineFacts
    <3>3. taken' - 1 = taken /\ taken' - got + 1 = taken - call.got + 1
      BY <1>3, <1>7, <3>1
    <3>4. ended <=> LineEnded(Line(got, taken'))
      BY <2>1, <3>1
    <3>5. ~Complete(stream', taken' - got + 1, taken' - 1)
      BY <1>3, <1>6, <3>3
    <3> QED
      BY <1>6, <3>2, <3>4, <3>5
  <2>2. CASE ~(n > 0)
    <3>1. taken' = taken /\ got = call.got /\ ~ended
      BY <1>6, <2>2
    <3>2. ~Complete(stream', taken' - got + 1, taken')
      BY <1>3, <1>6, <3>1
    <3>3. ~Complete(stream', taken' - got + 1, taken' - 1)
      BY <1>7, <3>2 DEF Complete
    <3> QED
      BY <3>1, <3>2, <3>3
  <2> QED
    BY <2>1, <2>2
<1>9. CASE n > 0 /\ ~ended /\ got < call.want
  <2>1. call' = [call EXCEPT !.got = got] /\ UNCHANGED <<last, delivered>>
    BY <1>2, <1>9
  <2>2. ~ended /\ got < call.want /\ ~(n < 0)
    BY <1>4, <1>9
  <2> HIDE DEF got, ended
  <2>3. call' \in CallsInProgress /\ call'.op = "line" /\ call'.got = got /\ call'.want = call.want
    BY <1>1, <1>3, <1>7, <2>1 DEF CallsInProgress
  <2>4. last' \in Results /\ last'.op = "none" /\ last' = NoResult
    BY <1>3, <2>1, NoResultFacts
  <2>5. TypeOK'
    BY <1>1, <1>3, <1>5, <1>6, <2>1, <2>2, <2>3, <2>4 DEF TypeOK, modeVars
  <2>6. (DeliveredInv /\ RoomInv)'
    BY <1>3, <1>7, <2>1, <2>2, <2>3 DEF DeliveredInv, RoomInv, Pending
  <2>7. (AttemptInv /\ ModeInv /\ FailureExplained)'
    BY <1>1, <2>3, <2>4 DEF StreamInv, AttemptInv, ModeInv, FailureExplained, modeVars
  <2>8. LineInv'
    BY <1>8, <2>2, <2>3, <2>4 DEF LineInv
  <2> QED
    BY <1>6, <2>5, <2>6, <2>7, <2>8 DEF StreamInv
<1>10. CASE ~(n > 0 /\ ~ended /\ got < call.want)
  <2>1. /\ call' = Idle /\ Deliver(got)
        /\ last' = [Result("line", got, call.want) EXCEPT !.ended = ended]
    BY <1>2, <1>10
  <2> HIDE DEF got, ended
  <2>2. n <= 0 \/ ended \/ got >= call.want
    <3>1. n \in Int /\ got \in Nat /\ call.want \in Nat
      BY <1>3, <1>4, <1>7
    <3> QED
      BY <1>10, <3>1
  <2>3. call' \in CallsInProgress /\ call'.op = "none"
    BY <2>1, IdleFacts
  <2>4. /\ last' \in Results /\ last'.op = "line" /\ last'.n = got /\ last'.want = call.want
        /\ last'.ended = ended
    <3>1. last' = [op |-> "line", n |-> got, want |-> call.want, ended |-> ended]
      BY <2>1 DEF Result
    <3>2. got \in Nat /\ call.want \in Nat /\ ended \in BOOLEAN
      BY <1>3, <1>7, <1>8
    <3> QED
      BY <3>1, <3>2 DEF Results
  <2>5. delivered' = Upto(taken') /\ delivered' \in Seq(Nat)
    BY <1>3, <1>7, <2>1, DeliverFacts
  <2>6. TypeOK'
    <3>1. error_code' \in Errors
      BY <1>3, <1>5 DEF TypeOK, Errors
    <3> QED
      BY <1>1, <1>3, <1>5, <1>6, <2>3, <2>4, <2>5, <3>1 DEF TypeOK, modeVars
  <2>7. (DeliveredInv /\ RoomInv)'
    BY <1>7, <2>3, <2>5 DEF DeliveredInv, RoomInv, Pending
  <2>8. (AttemptInv /\ ModeInv)'
    BY <1>1, <2>3, <2>4 DEF StreamInv, AttemptInv, ModeInv, modeVars
  <2>9. LineInv'
    BY <1>7, <1>8, <2>3, <2>4 DEF LineInv
  <2>10. FailureExplained'
    BY <1>3, <1>4, <1>5, <1>7, <2>2, <2>4 DEF FailureExplained
  <2> QED
    BY <1>6, <2>6, <2>7, <2>8, <2>9, <2>10 DEF StreamInv
<1> QED
  BY <1>9, <1>10

\* The new descriptor, in the mode of the guard if there is one.
LEMMA OpenStep ==
  ASSUME StreamInv, AttemptOpen PROVE StreamInv'
<1>1. /\ call.op = "connect" /\ call.got = 0 /\ UNCHANGED <<timeout, last, conns, ops>>
      /\ connected' \in BOOLEAN /\ ~connected' /\ peer' = "none" /\ stream' = <<>> /\ taken' = 0
      /\ delivered' = <<>>
  BY DEF AttemptOpen
<1>2. TypeOK /\ call \in CallsInProgress /\ last = NoResult /\ ~call.timed
      /\ blocking = wanted /\ (valid /\ ~untold => nonblock = ~blocking)
  BY <1>1 DEF StreamInv, TypeOK, AttemptInv, ModeInv
<1>3. last' \in Results /\ last'.op = "none" /\ last' = NoResult
  BY <1>1, <1>2, NoResultFacts
<1>4. /\ valid' \in BOOLEAN /\ error_code' \in Errors /\ call' \in CallsInProgress
      /\ nonblock' \in BOOLEAN /\ blocking' \in BOOLEAN /\ wanted' \in BOOLEAN /\ untold' \in BOOLEAN
      /\ call'.op = "connect" /\ ModeInv'
      /\ \/ call'.got = 1 /\ valid'
         \/ call'.got = 2 /\ ~call'.timed /\ error_code' # "none"
  <2>1. CASE valid' = FALSE /\ error_code' = "no_socket" /\ call' = [call EXCEPT !.got = 2]
             /\ UNCHANGED modeVars
    <3>1. valid' \in BOOLEAN /\ ~valid'
      BY <2>1
    <3>2. call' \in CallsInProgress /\ call'.op = "connect" /\ call'.got = 2 /\ call'.timed = call.timed
      BY <1>1, <1>2, <2>1 DEF CallsInProgress
    <3> QED
      BY <1>2, <2>1, <3>1, <3>2 DEF TypeOK, ModeInv, modeVars, Errors
  <2>2. CASE valid' = TRUE /\ "connect" \in timeout /\ UNCHANGED wanted
             /\ nonblock' = TRUE /\ blocking' = FALSE /\ error_code' = "none" /\ untold' = FALSE
             /\ call' = [call EXCEPT !.got = 1, !.timed = TRUE, !.original = blocking]
    <3>1. /\ valid' \in BOOLEAN /\ valid' /\ nonblock' \in BOOLEAN /\ blocking' \in BOOLEAN
          /\ untold' \in BOOLEAN
      BY <2>2
    <3>2. /\ call' \in CallsInProgress /\ call'.op = "connect" /\ call'.got = 1 /\ call'.timed = TRUE
          /\ call'.original = blocking
      BY <1>1, <1>2, <2>2 DEF CallsInProgress, TypeOK
    <3> QED
      BY <1>2, <2>2, <3>1, <3>2 DEF TypeOK, ModeInv, Errors
  <2>3. CASE valid' = TRUE /\ UNCHANGED <<wanted, blocking, error_code>>
             /\ nonblock' = FALSE /\ untold' = TRUE /\ call' = [call EXCEPT !.got = 1]
    <3>1. /\ valid' \in BOOLEAN /\ valid' /\ nonblock' \in BOOLEAN /\ untold' \in BOOLEAN /\ untold'
      BY <2>3
    <3>2. call' \in CallsInProgress /\ call'.op = "connect" /\ call'.got = 1 /\ call'.timed = call.timed
      BY <1>1, <1>2, <2>3 DEF CallsInProgress
    <3> QED
      BY <1>2, <2>3, <3>1, <3>2 DEF TypeOK, ModeInv
  <2> QED
    BY <2>1, <2>2, <2>3 DEF AttemptOpen, GuardEnter
<1>5. TypeOK'
  <2>1. <<>> \in Seq(Bytes) /\ <<>> \in Seq(Nat) /\ 0 \in 0..Len(<<>>)
    OBVIOUS
  <2> QED
    BY <1>1, <1>2, <1>3, <1>4, <2>1 DEF TypeOK
<1>6. Pending' = 0 /\ RoomInv' /\ EndInv'
  BY <1>1, <1>4 DEF Pending, RoomInv, EndInv
<1>7. DeliveredInv'
  <2>1. Upto(0) = <<>>
    BY DEF Upto
  <2> QED
    BY <1>1, <1>6, <2>1 DEF DeliveredInv
<1>8. (AttemptInv /\ LineInv /\ FailureExplained)'
  BY <1>1, <1>3, <1>4 DEF AttemptInv, LineInv, FailureExplained
<1> QED
  BY <1>4, <1>5, <1>6, <1>7, <1>8 DEF StreamInv

\* connect() ends and the guard restores the mode, before a failed descriptor goes.
LEMMA EndStep ==
  ASSUME StreamInv, NEW e \in {"none", "native", "timeout"}, AttemptEnd(e) PROVE StreamInv'
<1>1. /\ call.op = "connect" /\ call.got = 1 /\ UNCHANGED <<wanted, untold, timeout, conns, ops>>
      /\ IF call.timed THEN nonblock' = ~call.original /\ blocking' = call.original
                       ELSE UNCHANGED <<nonblock, blocking>>
  BY DEF AttemptEnd, GuardLeave
<1>2. TypeOK /\ call \in CallsInProgress /\ last = NoResult /\ valid /\ call.timed \in BOOLEAN
      /\ call.original \in BOOLEAN
  BY <1>1, InvTypes DEF StreamInv, TypeOK, AttemptInv
<1>3. /\ nonblock' \in BOOLEAN /\ blocking' \in BOOLEAN /\ blocking' = wanted
      /\ valid /\ ~untold => nonblock' = ~blocking'
  <2>1. CASE call.timed
    BY <1>1, <1>2, <2>1 DEF StreamInv, ModeInv
  <2>2. CASE ~call.timed
    BY <1>1, <1>2, <2>2 DEF StreamInv, ModeInv, TypeOK
  <2> QED
    BY <2>1, <2>2
<1>4. Pending = 0
  BY <1>1 DEF Pending
<1>5. CASE e = "none"
  <2>1. /\ connected' = TRUE /\ peer' = "open" /\ error_code' = "none"
        /\ call' = Idle /\ last' = Result("connect", 1, 1)
        /\ UNCHANGED <<valid, stream, taken, delivered>>
    BY <1>5 DEF AttemptEnd
  <2>2. call' \in CallsInProgress /\ call'.op = "none"
    BY <2>1, IdleFacts
  <2>3. last' \in Results /\ last'.op = "connect" /\ last'.n = 1 /\ last'.want = 1
    BY <2>1 DEF Result, Results
  <2>4. connected' \in BOOLEAN /\ connected'
    BY <2>1
  <2>5. TypeOK'
    BY <1>1, <1>2, <1>3, <2>1, <2>2, <2>3, <2>4 DEF TypeOK, Errors
  <2>6. (DeliveredInv /\ RoomInv /\ EndInv)'
    BY <1>4, <2>1, <2>2, <2>4 DEF StreamInv, DeliveredInv, RoomInv, EndInv, Pending
  <2>7. (AttemptInv /\ ModeInv /\ LineInv /\ FailureExplained)'
    BY <1>1, <1>3, <2>1, <2>2, <2>3 DEF AttemptInv, ModeInv, LineInv, FailureExplained
  <2> QED
    BY <2>5, <2>6, <2>7 DEF StreamInv
<1>6. CASE e # "none"
  <2>1. /\ CloseFd /\ last' = last /\ call' = [call EXCEPT !.got = 2, !.timed = FALSE]
        /\ error_code' \in {e, "native"}
    BY <1>6 DEF AttemptEnd, GuardLeave
  <2>2. /\ call' \in CallsInProgress /\ call'.op = "connect" /\ call'.got = 2 /\ ~call'.timed
    BY <1>1, <1>2, <2>1 DEF CallsInProgress
  <2>3. last' \in Results /\ last'.op = "none" /\ last' = NoResult
    BY <1>2, <2>1, NoResultFacts
  <2>4. /\ valid' \in BOOLEAN /\ ~valid' /\ connected' \in BOOLEAN /\ ~connected' /\ peer' = "none"
        /\ stream' = <<>> /\ taken' = 0 /\ delivered' = <<>>
    BY <2>1 DEF CloseFd
  <2>5. error_code' \in Errors /\ error_code' # "none"
    BY <1>6, <2>1 DEF Errors
  <2>6. TypeOK'
    <3>1. <<>> \in Seq(Bytes) /\ <<>> \in Seq(Nat) /\ 0 \in 0..Len(<<>>)
      OBVIOUS
    <3> QED
      BY <1>1, <1>2, <1>3, <2>2, <2>3, <2>4, <2>5, <3>1 DEF TypeOK
  <2>7. Pending' = 0 /\ RoomInv' /\ EndInv'
    BY <2>2, <2>4 DEF Pending, RoomInv, EndInv
  <2>8. DeliveredInv'
    <3>1. Upto(0) = <<>>
      BY DEF Upto
    <3> QED
      BY <2>4, <2>7, <3>1 DEF DeliveredInv
  <2>9. (AttemptInv /\ ModeInv /\ LineInv /\ FailureExplained)'
    BY <1>1, <1>3, <2>2, <2>3, <2>4, <2>5 DEF AttemptInv, ModeInv, LineInv, FailureExplained
  <2> QED
    BY <2>6, <2>7, <2>8, <2>9 DEF StreamInv
<1> QED
  BY <1>5, <1>6

\* The next address, or the failure of the last one is the failure of the call.
LEMMA NextAddressStep ==
  ASSUME StreamInv, AttemptNext PROVE StreamInv'
<1>1. /\ call.op = "connect" /\ call.got = 2
      /\ UNCHANGED <<valid, modeVars, error_code, timeout, netVars, delivered, conns, ops>>
  BY DEF AttemptNext
<1>2. /\ TypeOK /\ call \in CallsInProgress /\ last = NoResult /\ ~connected /\ peer = "none"
      /\ error_code # "none" /\ ~call.timed /\ Pending = 0
      /\ blocking = wanted /\ (valid /\ ~untold => nonblock = ~blocking)
  BY <1>1 DEF StreamInv, TypeOK, AttemptInv, ModeInv, Pending
<1>3. connected' \in BOOLEAN /\ ~connected' /\ call' \in CallsInProgress /\ last' \in Results
      /\ Pending' = 0 /\ ~(call'.op = "connect" /\ call'.got = 1) /\ call'.op \in {"none", "connect"}
      /\ \/ call'.op = "connect" /\ call'.got = 0 /\ ~call'.timed /\ last' = NoResult
         \/ call'.op = "none" /\ last'.op = "connect"
  <2>1. CASE call.want > 1
    <3>1. call' = [call EXCEPT !.want = @ - 1, !.got = 0] /\ UNCHANGED <<last, connected>>
      BY <2>1 DEF AttemptNext
    <3>2. call.want \in Nat
      BY <1>2 DEF CallsInProgress
    <3>3. call' \in CallsInProgress /\ call'.op = "connect" /\ call'.got = 0 /\ call'.timed = call.timed
      <4>1. call \in CallsInProgress /\ call.op = "connect"
        BY <1>1, <1>2
      <4>2. call.want - 1 \in Nat
        BY <2>1, <3>2
      <4> QED
        BY <3>1, <4>1, <4>2 DEF CallsInProgress
    <3> QED
      BY <1>2, <3>1, <3>3 DEF TypeOK, Pending
  <2>2. CASE ~(call.want > 1)
    <3>1. call' = Idle /\ last' = Result("connect", 0, 1) /\ connected' = FALSE
      BY <2>2 DEF AttemptNext
    <3>2. last' \in Results /\ last'.op = "connect"
      BY <3>1 DEF Result, Results
    <3>3. call' \in CallsInProgress /\ call'.op = "none"
      BY <3>1, IdleFacts
    <3> QED
      BY <3>1, <3>2, <3>3 DEF Pending
  <2> QED
    BY <2>1, <2>2
<1>4. TypeOK'
  BY <1>1, <1>2, <1>3 DEF TypeOK, modeVars, netVars
<1>5. (DeliveredInv /\ RoomInv /\ EndInv)'
  BY <1>1, <1>2, <1>3 DEF StreamInv, DeliveredInv, RoomInv, EndInv, netVars
<1>6. last'.op \in {"none", "connect"}
  BY <1>3, NoResultFacts
<1>7. (AttemptInv /\ ModeInv)'
  BY <1>1, <1>2, <1>3 DEF AttemptInv, ModeInv, modeVars
<1>8. (LineInv /\ FailureExplained)'
  BY <1>1, <1>2, <1>3, <1>6 DEF LineInv, FailureExplained
<1> QED
  BY <1>4, <1>5, <1>7, <1>8 DEF StreamInv

-----------------------------------------------------------------------------
(* The theorems.                                                           *)

\* A new socket satisfies the invariant.
LEMMA InitStreamInv ==
  ASSUME Init PROVE StreamInv
<1>1. /\ valid \in BOOLEAN /\ connected \in BOOLEAN /\ (connected => valid) /\ blocking \in BOOLEAN
      /\ error_code \in {"none", "no_socket"} /\ nonblock = ~blocking /\ wanted = blocking
      /\ untold \in BOOLEAN /\ (~connected => peer = "none") /\ peer \in {"open", "none"}
      /\ timeout = {} /\ stream = <<>> /\ taken = 0 /\ call = Idle /\ last = NoResult
      /\ delivered = <<>> /\ conns = 0 /\ ops = 0
  BY DEF Init
<1>2. call \in CallsInProgress /\ call.op = "none" /\ last \in Results /\ last.op = "none"
  BY <1>1, IdleFacts, NoResultFacts
<1>3. TypeOK
  <2>1. <<>> \in Seq(Bytes) /\ <<>> \in Seq(Nat) /\ 0 \in 0..Len(<<>>)
    OBVIOUS
  <2> QED
    BY <1>1, <1>2, <2>1, StreamAssumption DEF TypeOK, Errors
<1>4. DeliveredInv
  <2>1. Upto(0) = <<>> /\ Pending = 0
    BY <1>2 DEF Upto, Pending
  <2> QED
    BY <1>1, <2>1 DEF DeliveredInv
<1>5. RoomInv /\ EndInv /\ AttemptInv /\ ModeInv /\ LineInv /\ FailureExplained
  BY <1>1, <1>2 DEF RoomInv, EndInv, AttemptInv, ModeInv, LineInv, FailureExplained
<1> QED
  BY <1>3, <1>4, <1>5 DEF StreamInv

\* Every step of the caller and of its peer keeps the invariant.
LEMMA StreamInvStep ==
  ASSUME StreamInv, [Next]_vars PROVE StreamInv'
<1>1. CASE Next
  <2>1. CASE \E size \in Sizes : Read(size)
    BY <2>1, ReadStep
  <2>2. CASE \E e \in {"none", "native", "timeout"} : AttemptEnd(e)
    BY <2>2, EndStep
  <2> QED
    BY <1>1, <2>1, <2>2, PeerStep, SettingSteps, BeginSteps, CloseStep, UntilStep, LineStep, OpenStep,
       NextAddressStep DEF Next
<1>2. CASE UNCHANGED vars
  <2>1. UNCHANGED <<valid, nonblock, blocking, wanted, untold, connected, error_code, timeout, peer,
                    stream, taken, call, last, delivered, conns, ops>>
    BY <1>2 DEF vars, modeVars, netVars
  <2>2. TypeOK'
    BY <2>1 DEF StreamInv, TypeOK
  <2>3. (DeliveredInv /\ RoomInv /\ EndInv /\ AttemptInv /\ ModeInv /\ LineInv /\ FailureExplained)'
    BY <2>1 DEF StreamInv, DeliveredInv, RoomInv, EndInv, AttemptInv, ModeInv, LineInv,
                FailureExplained, Pending
  <2> QED
    BY <2>2, <2>3 DEF StreamInv
<1> QED
  BY <1>1, <1>2

\* The invariant holds in every behaviour.
LEMMA Invariant == Spec => []StreamInv
<1>1. Init => StreamInv
  BY InitStreamInv
<1>2. StreamInv /\ [Next]_vars => StreamInv'
  BY StreamInvStep
<1> QED
  BY <1>1, <1>2, PTL DEF Spec

\* The callers of read, read_until and read_line together get every byte received on
\* the connection, once and in order, for every size of their buffers and however
\* their calls end.
THEOREM StreamTheorem == Spec => []ReadsAreTheStream
<1>1. StreamInv => ReadsAreTheStream
  <2> SUFFICES ASSUME StreamInv, Free PROVE delivered = [i \in 1..taken |-> i]
    BY DEF ReadsAreTheStream, StreamInv
  <2>1. Pending = 0 /\ taken \in Nat
    BY FreeFacts, InvTypes DEF StreamInv
  <2> QED
    BY <2>1 DEF StreamInv, DeliveredInv, Upto
<1> QED
  BY <1>1, Invariant, PTL

\* A socket with a descriptor and a peer counts as disconnected only at the real end
\* of the stream, whatever timed out, was interrupted or would have blocked before.
THEOREM EofTheorem == Spec => []EofIsReal
<1>1. StreamInv => EofIsReal
  <2> SUFFICES ASSUME StreamInv, ~connected, peer # "none"
               PROVE  (peer = "closed" /\ Unread = 0) \/ peer = "dead"
    BY DEF EofIsReal
  <2>1. taken \in Nat /\ Len(stream) \in Nat
    BY InvTypes
  <2> QED
    BY <2>1 DEF StreamInv, EndInv, Unread
<1> QED
  BY <1>1, Invariant, PTL

\* Whoever gets less than asked for can tell why, through every connection attempt
\* and every number of addresses.
THEOREM ExplainedTheorem == Spec => []FailureExplained
<1>1. StreamInv => FailureExplained
  BY DEF StreamInv
<1> QED
  BY <1>1, Invariant, PTL

\* The mode the caller chose survives every connection attempt.
THEOREM ModeTheorem == Spec => []ModeRestored
<1>1. StreamInv => ModeRestored
  <2> SUFFICES ASSUME StreamInv, Free
               PROVE  blocking = wanted /\ (valid /\ ~untold => nonblock = ~blocking)
    BY DEF ModeRestored
  <2>1. call.op = "none"
    BY FreeFacts DEF StreamInv
  <2> QED
    BY <2>1 DEF StreamInv, ModeInv
<1> QED
  BY <1>1, Invariant, PTL

\* The loop of read_line ends at the byte that is the second of CR and LF to come, in
\* whatever order.  So a CR LF is not read past, and if every LF follows a CR that
\* byte is the LF of a CR LF, for every size of the buffers and every stream.
THEOREM LineTheorem == Spec => []LineBoundary
<1>1. StreamInv => LineBoundary
  <2> DEFINE line == Line(last.n, taken)
             Seen(k) == {"CR", "LF"} \subseteq {line[i] : i \in 1..k}
             CRLF(k) == k > 0 /\ line[k] = "CR" /\ line[k + 1] = "LF"
  <2> SUFFICES ASSUME StreamInv, last.op = "line", last.n > 0
               PROVE  /\ last.n <= last.want
                      /\ \A k \in 1..last.n - 1 : CRLF(k) => k + 1 = last.n /\ last.ended
                      /\ /\ \A k \in 1..last.n : line[k] = "LF" => CRLF(k - 1)
                         /\ last.ended
                         => CRLF(last.n - 1)
    BY DEF LineBoundary
  <2>1. /\ last.n \in Nat /\ last.n <= taken /\ last.n <= last.want
        /\ last.ended <=> Complete(stream, taken - last.n + 1, taken)
        /\ ~Complete(stream, taken - last.n + 1, taken - 1)
    BY InvTypes DEF StreamInv, LineInv
  <2>2. /\ taken \in Nat /\ taken <= Len(stream) /\ stream \in Seq(Bytes)
    BY InvTypes
  <2>3. \A i \in 1..last.n : line[i] = stream[taken - last.n + i]
    BY <2>1, <2>2, LineFacts
  <2> HIDE DEF line
  <2>4. ASSUME NEW k \in 1..last.n
        PROVE  Seen(k) <=> Complete(stream, taken - last.n + 1, taken - last.n + k)
    <3>1. ASSUME Seen(k) PROVE Complete(stream, taken - last.n + 1, taken - last.n + k)
      <4>1. PICK i \in 1..k, j \in 1..k : line[i] = "CR" /\ line[j] = "LF"
        BY <3>1
      <4>2. /\ taken - last.n + i \in (taken - last.n + 1)..(taken - last.n + k)
            /\ taken - last.n + j \in (taken - last.n + 1)..(taken - last.n + k)
            /\ i \in 1..last.n /\ j \in 1..last.n
        BY <2>1, <2>2
      <4>3. stream[taken - last.n + i] = "CR" /\ stream[taken - last.n + j] = "LF"
        BY <2>3, <4>1, <4>2
      <4> QED
        BY <4>2, <4>3 DEF Complete
    <3>2. ASSUME Complete(stream, taken - last.n + 1, taken - last.n + k) PROVE Seen(k)
      <4> DEFINE lo == taken - last.n
      <4>1. PICK i \in (lo + 1)..(lo + k), j \in (lo + 1)..(lo + k) : stream[i] = "CR" /\ stream[j] = "LF"
        BY <3>2 DEF Complete
      <4>2. /\ i - lo \in 1..k /\ j - lo \in 1..k /\ lo + (i - lo) = i /\ lo + (j - lo) = j
            /\ i - lo \in 1..last.n /\ j - lo \in 1..last.n
        BY SMTT(30), <2>1, <2>2
      <4>3. line[i - lo] = "CR" /\ line[j - lo] = "LF"
        BY <2>3, <4>1, <4>2
      <4> HIDE DEF lo
      <4>4. "CR" \in {line[x] : x \in 1..k} /\ "LF" \in {line[x] : x \in 1..k}
        BY <4>2, <4>3
      <4> QED
        BY <4>4
    <3> QED
      BY <3>1, <3>2
  <2> HIDE DEF Seen
  <2>5. last.n \in 1..last.n /\ taken - last.n + last.n = taken
    BY <2>1, <2>2
  <2>6. last.ended <=> Seen(last.n)
    BY <2>1, <2>4, <2>5
  <2>7. ASSUME NEW k \in 1..last.n - 1 PROVE ~Seen(k)
    <3>1. k \in 1..last.n /\ k < last.n
      BY <2>1
    <3>2. ~Complete(stream, taken - last.n + 1, taken - last.n + k)
      BY <2>1, <2>2, <3>1 DEF Complete
    <3> QED
      BY <2>4, <3>1, <3>2
  <2>8. ASSUME NEW k \in 1..last.n - 1, CRLF(k) PROVE k + 1 = last.n /\ last.ended
    <3>1. k \in 1..k + 1 /\ k + 1 \in 1..k + 1 /\ k + 1 \in 1..last.n
      BY <2>1
    <3>2. Seen(k + 1)
      BY <2>8, <3>1 DEF Seen
    <3>3. k + 1 \notin 1..last.n - 1
      BY <2>7, <3>2
    <3>4. k + 1 = last.n
      BY <2>1, <3>1, <3>3
    <3> QED
      BY <2>6, <3>2, <3>4
  <2>9. ASSUME last.ended, \A k \in 1..last.n : line[k] = "LF" => CRLF(k - 1)
        PROVE  CRLF(last.n - 1)
    <3>1. PICK j \in 1..last.n : line[j] = "LF"
      BY <2>6, <2>9 DEF Seen
    <3>2. CRLF(j - 1)
      BY <2>9, <3>1
    <3>3. j - 1 \in 1..last.n - 1
      BY <2>1, <3>2
    <3>4. j - 1 + 1 = last.n
      BY <2>8, <3>2, <3>3
    <3>5. j - 1 = last.n - 1
      BY <2>1, <3>4
    <3> QED
      BY <3>2, <3>5
  <2> QED
    BY <2>1, <2>8, <2>9
<1> QED
  BY <1>1, Invariant, PTL
=============================================================================
