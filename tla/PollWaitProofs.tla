--------------------------- MODULE PollWaitProofs ---------------------------
(***************************************************************************)
(* Proofs about PollWait, for any resolution of the clock, any timeouts    *)
(* and any number of sockets, deadlines and signals.                       *)
(***************************************************************************)
EXTENDS PollWait, WellFoundedInduction, TLAPS

\* poll_readable's own deadline bounds the wait that a signal starts again.
UntilBounds ==
    pc = "native" =>
        /\ until = None <=> waitEnd = None
        /\ \A s \in live : deadline[s] # None => until # None /\ until <= deadline[s] + Ms(1)
        /\ timeout # -1 => until # None /\ until <= Ms(timeout)

\* The wait in progress, or just over.
Waiting == pc \in {"native", "check"} /\ watched # {} /\ ~buffered

\* A wait is as long as it is for a reason: the timeout of the poll has not
\* passed before it ends, or a deadline of a socket of the poll passes no later.
UntilForAReason ==
    /\ until = None <=> effective = -1
    /\ timeout # -1 => effective # -1
    /\ effective # -1 =>
          \/ timeout # -1 /\ elapsed + until >= Ms(timeout)
          \/ \E s \in watched : deadline[s] # None /\ deadline[s] <= until

\* Signals make a wait end less than a millisecond early, and nothing else does.
WaitEndsAtUntil ==
    /\ until = None <=> waitEnd = None
    /\ until < waitEnd + Ms(1)
    /\ ~signalled => until = waitEnd
    /\ pc = "check" /\ ready = 0 =>
          until # None /\ until < Ms(1) /\ (signalled \/ until = 0)

\* An infinite poll of an empty set has no deadline to wait for.
EmptyIsInfinite ==
    pc \in {"native", "sleep", "check"} /\ watched = {} /\ timeout = -1 => effective = -1

\* Only a poll of an empty set sleeps.
SleepsEmpty == pc = "sleep" => watched = {}

\* The inductive invariant.
WaitInv ==
    /\ NeverOversleeps
    /\ UntilBounds
    /\ Waiting => UntilForAReason /\ WaitEndsAtUntil
    /\ EmptyIsInfinite
    /\ SleepsEmpty

-----------------------------------------------------------------------------
(* Conversions between milliseconds and ticks.                             *)

\* Milliseconds in ticks.
LEMMA MsFacts ==
  /\ Ms(0) = 0 /\ Ms(1) \in Nat \ {0}
  /\ \A n \in Int : Ms(n) \in Int /\ Ms(n - 1) = Ms(n) - Ms(1)
  /\ \A n \in Nat : Ms(n) \in Nat
  /\ \A m, n \in Int : m <= n => Ms(m) <= Ms(n)
<1>1. Ms(0) = 0 /\ Ms(1) = TicksPerMs /\ TicksPerMs \in Nat \ {0}
  BY ClockAssumption DEF Ms
<1>2. \A n \in Int : Ms(n) \in Int /\ Ms(n - 1) = Ms(n) - Ms(1)
  BY <1>1 DEF Ms
<1>3. \A n \in Nat : Ms(n) \in Nat
  BY <1>1 DEF Ms
<1>4. \A m, n \in Int : m <= n => Ms(m) <= Ms(n)
  <2> SUFFICES ASSUME NEW m \in Int, NEW n \in Int, m <= n PROVE Ms(m) <= Ms(n)
    OBVIOUS
  <2>1. n - m \in Nat /\ (n - m) * TicksPerMs \in Nat
    BY <1>1
  <2>2. n * TicksPerMs = m * TicksPerMs + (n - m) * TicksPerMs
    BY <1>1
  <2>3. m * TicksPerMs \in Int /\ n * TicksPerMs \in Int
    BY <1>1
  <2> QED
    BY <2>1, <2>2, <2>3 DEF Ms
<1> QED
  BY <1>1, <1>2, <1>3, <1>4

\* Rounding ticks to milliseconds, down and up.
LEMMA RoundingFacts ==
  ASSUME NEW t \in Nat
  PROVE  /\ t \div TicksPerMs \in Nat
         /\ Ms(t \div TicksPerMs) <= t /\ t < Ms(t \div TicksPerMs) + Ms(1)
         /\ Ms(t \div TicksPerMs + 1) = Ms(t \div TicksPerMs) + Ms(1)
<1>1. TicksPerMs \in Nat \ {0}
  BY ClockAssumption
<1> DEFINE q == t \div TicksPerMs
           r == t % TicksPerMs
<1>2. q \in Nat /\ r \in 0..(TicksPerMs - 1) /\ t = TicksPerMs * q + r
  BY <1>1
<1> HIDE DEF q, r
<1>3. TicksPerMs * q = q * TicksPerMs /\ (q + 1) * TicksPerMs = q * TicksPerMs + TicksPerMs
  BY <1>1, <1>2
<1>4. q * TicksPerMs \in Int
  BY <1>1, <1>2
<1> QED
  BY <1>1, <1>2, <1>3, <1>4 DEF Ms, q

\* A non-empty set of naturals has a least element.
LEMMA LeastExists ==
  ASSUME NEW S \in SUBSET Nat, S # {}
  PROVE  \E d \in S : \A e \in S : d <= e
<1> DEFINE R == {ss \in Nat \X Nat : ss[1] < ss[2]}
<1>1. IsWellFoundedOn(R, Nat)
  BY NatLessThanWellFounded DEF OpToRel
<1> HIDE DEF R
<1>2. PICK d \in S : \A e \in S : ~(<<e, d>> \in R)
  BY <1>1, WFMin
<1>3. \A e \in S : ~(e < d)
  BY <1>2 DEF R
<1> QED
  BY <1>2, <1>3

\* poll_timeout_ms: never before the deadline, and less than a millisecond late.
LEMMA DueFacts ==
  ASSUME TypeOK, NEW s \in Sockets
  PROVE  /\ Due(s) \in Nat \union {-1}
         /\ Due(s) = -1 <=> deadline[s] = None
         /\ deadline[s] # None => Ms(Due(s)) <= deadline[s] + Ms(1) /\ deadline[s] <= Ms(Due(s))
         /\ deadline[s] = 0 => Due(s) = 0
<1>1. deadline[s] \in Nat \union {-1}
  BY DEF TypeOK, None
<1>2. CASE deadline[s] <= 0
  <2>1. Ms(0) = 0 /\ Ms(1) \in Nat
    BY MsFacts
  <2>2. Due(s) = deadline[s] /\ (deadline[s] = -1 \/ deadline[s] = 0)
    BY <1>1, <1>2 DEF Due
  <2> QED
    BY <2>1, <2>2 DEF None
<1>3. CASE ~(deadline[s] <= 0)
  <2>1. deadline[s] \in Nat /\ deadline[s] # None /\ deadline[s] # 0
    BY <1>1, <1>3 DEF None
  <2>2. Due(s) = deadline[s] \div TicksPerMs + 1
    BY <1>3 DEF Due
  <2> DEFINE q == deadline[s] \div TicksPerMs
  <2>3. q \in Nat /\ Ms(q) <= deadline[s] /\ deadline[s] < Ms(q) + Ms(1) /\ Ms(q + 1) = Ms(q) + Ms(1)
    BY <2>1, RoundingFacts
  <2> HIDE DEF q
  <2>4. Ms(q) \in Nat /\ Ms(1) \in Nat
    BY <2>3, MsFacts
  <2>5. Due(s) = q + 1
    BY <2>2 DEF q
  <2> QED
    BY <2>1, <2>3, <2>4, <2>5
<1> QED
  BY <1>2, <1>3

\* effective_timeout is the least of the timeout and the due times, or none.
LEMMA EffectiveFacts ==
  ASSUME TypeOK
  PROVE  /\ Effective(timeout) \in Nat \union {-1}
         /\ timeout # -1 => Effective(timeout) # -1 /\ Effective(timeout) <= timeout
         /\ \A s \in live : deadline[s] # None =>
                Effective(timeout) # -1 /\ Effective(timeout) <= Due(s)
         /\ Effective(timeout) # -1 =>
                \/ timeout # -1 /\ Effective(timeout) = timeout
                \/ \E s \in live : deadline[s] # None /\ Effective(timeout) = Due(s)
<1> DEFINE bounds == ({Due(s) : s \in live} \union {timeout}) \ {-1}
<1>0. live \subseteq Sockets /\ timeout \in Nat \union {-1}
  BY DEF TypeOK
<1>1. bounds \in SUBSET Nat
  BY <1>0, DueFacts
<1>2. Effective(timeout) = IF bounds = {} THEN -1
                           ELSE CHOOSE d \in bounds : \A e \in bounds : d <= e
  BY DEF Effective
<1>3. timeout # -1 => timeout \in bounds
  OBVIOUS
<1>4. \A s \in live : deadline[s] # None => Due(s) \in bounds
  BY <1>0, DueFacts
<1>5. \A d \in bounds : \/ timeout # -1 /\ d = timeout
                        \/ \E s \in live : deadline[s] # None /\ d = Due(s)
  BY <1>0, DueFacts
<1> HIDE DEF bounds
<1>6. CASE bounds = {}
  BY <1>2, <1>3, <1>4, <1>6
<1>7. CASE bounds # {}
  <2>1. \E d \in bounds : \A e \in bounds : d <= e
    BY <1>1, <1>7, LeastExists
  <2>2. Effective(timeout) \in bounds /\ \A e \in bounds : Effective(timeout) <= e
    BY <1>2, <1>7, <2>1
  <2>3. Effective(timeout) \in Nat
    BY <1>1, <2>2
  <2> QED
    BY <1>3, <1>4, <1>5, <2>2, <2>3
<1> QED
  BY <1>6, <1>7

-----------------------------------------------------------------------------
(* The invariant is inductive.                                             *)

\* Nothing is waited for in the initial state.
LEMMA WaitInit == Init => WaitInv
<1> SUFFICES ASSUME Init PROVE WaitInv
  OBVIOUS
<1>1. buffered \in BOOLEAN /\ signalled \in BOOLEAN
  BY DEF Init
<1>2. TypeOK
  BY <1>1 DEF Init, TypeOK, None
<1> QED
  BY <1>2 DEF Init, WaitInv, NeverOversleeps, UntilBounds, Waiting, EmptyIsInfinite, SleepsEmpty

\* One tick brings a point in time closer by one, or it is there.
LEMMA CloserFacts ==
  ASSUME NEW t \in Nat \union {None}
  PROVE  /\ Closer(t) \in Nat \union {None}
         /\ Closer(t) = None <=> t = None
         /\ t # None => Closer(t) = IF t = 0 THEN 0 ELSE t - 1
  BY DEF Closer, None

\* The clock keeps the invariant: what is bounded by a point in time stays
\* bounded by it as both come closer.
LEMMA TickStep == WaitInv /\ Tick => WaitInv'
<1> SUFFICES ASSUME WaitInv, Tick PROVE WaitInv'
  OBVIOUS
<1>0. TypeOK /\ UNCHANGED <<registered, pc, live, watched, timeout, buffered, effective, ready, signalled>>
  BY DEF WaitInv, NeverOversleeps, Tick, pollVars
<1>1. /\ until' = Closer(until) /\ waitEnd' = Closer(waitEnd)
      /\ until \in Nat \union {None} /\ waitEnd \in Nat \union {None}
      /\ \A s \in Sockets : deadline'[s] = Closer(deadline[s]) /\ deadline[s] \in Nat \union {None}
  BY <1>0 DEF Tick, TypeOK
<1>2. /\ \A s \in Sockets : /\ deadline'[s] \in Nat \union {None}
                            /\ deadline'[s] = None <=> deadline[s] = None
                            /\ deadline[s] # None =>
                                  deadline'[s] = IF deadline[s] = 0 THEN 0 ELSE deadline[s] - 1
      /\ until' \in Nat \union {None} /\ (until' = None <=> until = None)
      /\ until # None => until' = IF until = 0 THEN 0 ELSE until - 1
      /\ waitEnd' \in Nat \union {None} /\ (waitEnd' = None <=> waitEnd = None)
      /\ waitEnd # None => waitEnd' = IF waitEnd = 0 THEN 0 ELSE waitEnd - 1
  BY <1>1, CloserFacts
<1>3. live \subseteq watched /\ watched \subseteq Sockets
  BY <1>0 DEF TypeOK
<1>4. Ms(1) \in Nat \ {0} /\ Ms(timeout) \in Int /\ (timeout # -1 => Ms(timeout) \in Nat)
  <2>1. timeout \in Int /\ (timeout # -1 => timeout \in Nat)
    BY <1>0 DEF TypeOK
  <2> QED
    BY <2>1, MsFacts
<1>5. /\ elapsed' \in Nat
      /\ pc # "idle" => elapsed' = IF elapsed < Ms(timeout) THEN elapsed + 1 ELSE elapsed
  <2>1. CASE pc = "idle"
    BY <1>0, <2>1 DEF Tick, TypeOK
  <2>2. CASE pc # "idle"
    BY <1>0, <1>4, <2>2 DEF Tick, TypeOK, Older
  <2> QED
    BY <2>1, <2>2
<1>6. TypeOK'
  <2>1. deadline' \in [Sockets -> Nat \union {None}]
    BY <1>2 DEF Tick
  <2> QED
    BY <1>0, <1>2, <1>5, <2>1 DEF TypeOK
<1>7. NeverOversleeps'
  <2> SUFFICES ASSUME pc = "native"
               PROVE  /\ \A s \in live : deadline'[s] # None =>
                              waitEnd' # None /\ waitEnd' <= deadline'[s] + Ms(1)
                      /\ timeout # -1 => waitEnd' # None /\ waitEnd' <= Ms(timeout)
    BY <1>0, <1>6 DEF NeverOversleeps, Ms
  <2>1. /\ \A s \in live : deadline[s] # None => waitEnd # None /\ waitEnd <= deadline[s] + Ms(1)
        /\ timeout # -1 => waitEnd # None /\ waitEnd <= Ms(timeout)
    BY DEF WaitInv, NeverOversleeps
  <2> QED
    BY <1>1, <1>2, <1>3, <1>4, <2>1 DEF None
<1>8. UntilBounds'
  <2> SUFFICES ASSUME pc = "native"
               PROVE  /\ until' = None <=> waitEnd' = None
                      /\ \A s \in live : deadline'[s] # None =>
                              until' # None /\ until' <= deadline'[s] + Ms(1)
                      /\ timeout # -1 => until' # None /\ until' <= Ms(timeout)
    BY <1>0 DEF UntilBounds, Ms
  <2>1. /\ until = None <=> waitEnd = None
        /\ \A s \in live : deadline[s] # None => until # None /\ until <= deadline[s] + Ms(1)
        /\ timeout # -1 => until # None /\ until <= Ms(timeout)
    BY DEF WaitInv, UntilBounds
  <2> QED
    BY <1>1, <1>2, <1>3, <1>4, <2>1 DEF None
<1>9. ASSUME Waiting' PROVE UntilForAReason' /\ WaitEndsAtUntil'
  <2>1. Waiting /\ UntilForAReason /\ WaitEndsAtUntil
    BY <1>0, <1>9 DEF WaitInv, Waiting
  <2>2. /\ until' = None <=> effective' = -1
        /\ timeout' # -1 => effective' # -1
    BY <1>0, <1>2, <2>1 DEF UntilForAReason
  <2>3. ASSUME effective # -1
        PROVE  \/ timeout # -1 /\ elapsed' + until' >= Ms(timeout)
               \/ \E s \in watched : deadline'[s] # None /\ deadline'[s] <= until'
    <3>1. until # None /\ until \in Nat
      BY <1>1, <2>1, <2>3 DEF UntilForAReason
    <3>2. CASE timeout # -1 /\ elapsed + until >= Ms(timeout)
      <4>1. elapsed \in Nat /\ elapsed' = IF elapsed < Ms(timeout) THEN elapsed + 1 ELSE elapsed
        BY <1>0, <1>5, <2>1 DEF TypeOK, Waiting
      <4> QED
        BY <1>2, <1>4, <3>1, <3>2, <4>1
    <3>3. ASSUME NEW s \in watched, deadline[s] # None, deadline[s] <= until
          PROVE  deadline'[s] # None /\ deadline'[s] <= until'
      BY <1>1, <1>2, <1>3, <3>1, <3>3 DEF None
    <3> QED
      BY <2>1, <2>3, <3>2, <3>3 DEF UntilForAReason
  <2>4. UntilForAReason'
    BY <1>0, <2>2, <2>3 DEF UntilForAReason, Ms
  <2>5. /\ until = None <=> waitEnd = None
        /\ until < waitEnd + Ms(1)
        /\ ~signalled => until = waitEnd
        /\ pc = "check" /\ ready = 0 =>
              until # None /\ until < Ms(1) /\ (signalled \/ until = 0)
    BY <2>1 DEF WaitEndsAtUntil
  <2>6. /\ until' = None <=> waitEnd' = None
        /\ until' < waitEnd' + Ms(1)
        /\ ~signalled => until' = waitEnd'
        /\ pc = "check" /\ ready = 0 =>
              until' # None /\ until' < Ms(1) /\ (signalled \/ until' = 0)
    BY <1>1, <1>2, <1>4, <2>5 DEF None
  <2>7. WaitEndsAtUntil'
    BY <1>0, <2>6 DEF WaitEndsAtUntil, Ms
  <2> QED
    BY <2>4, <2>7
<1>10. EmptyIsInfinite'
  BY <1>0 DEF WaitInv, EmptyIsInfinite
<1>11. SleepsEmpty'
  BY <1>0 DEF WaitInv, SleepsEmpty
<1> QED
  BY <1>7, <1>8, <1>9, <1>10, <1>11 DEF WaitInv

\* What other threads and the application do keeps the invariant: it changes no
\* deadline while a poll runs, and makes fewer sockets live.
LEMMA OutsideSteps ==
  ASSUME WaitInv,
         \/ \E s \in Sockets : Register(s) \/ Deregister(s)
         \/ \E s \in Sockets, ms \in Grace : SetDeadline(s, ms)
         \/ \E t \in Timeouts : PollEnter(t)
         \/ UNCHANGED vars
  PROVE  WaitInv'
<1> USE DEF WaitInv, NeverOversleeps, TypeOK, UntilBounds, Waiting, UntilForAReason,
            WaitEndsAtUntil, EmptyIsInfinite, SleepsEmpty
<1>1. ASSUME NEW s \in Sockets, Register(s) PROVE WaitInv'
  BY <1>1 DEF Register, pollVars, waitVars, ageVars, Ms
<1>2. ASSUME NEW s \in Sockets, Deregister(s) PROVE WaitInv'
  BY <1>2 DEF Deregister, pollVars, waitVars, ageVars, Ms
<1>3. ASSUME NEW s \in Sockets, NEW ms \in Grace, SetDeadline(s, ms) PROVE WaitInv'
  <2>1. Ms(ms) \in Nat
    BY ClockAssumption, MsFacts
  <2>2. deadline' \in [Sockets -> Nat \union {None}]
    BY <1>3, <2>1 DEF SetDeadline
  <2> QED
    BY <1>3, <2>2 DEF SetDeadline, pollVars, waitVars, ageVars
<1>4. ASSUME NEW t \in Timeouts, PollEnter(t) PROVE WaitInv'
  <2>1. timeout' \in Nat \union {-1} /\ buffered' \in BOOLEAN
    BY <1>4, ClockAssumption DEF PollEnter
  <2> QED
    BY <1>4, <2>1 DEF PollEnter, waitVars, ageVars
<1>5. CASE UNCHANGED vars
  BY <1>5 DEF vars, pollVars, waitVars, ageVars, Ms
<1> QED
  BY <1>1, <1>2, <1>3, <1>4, <1>5

\* The native call returns, or a signal interrupts it.
LEMMA NativeSteps ==
  ASSUME WaitInv, NativeReady \/ NativeFails \/ NativeTimedOut \/ NativeInterrupted
  PROVE  WaitInv'
<1>0. TypeOK /\ Ms(1) \in Nat \ {0}
  BY MsFacts DEF WaitInv, NeverOversleeps
<1>1. ASSUME NEW n \in -1..1, NativeReturns(n), n = 0 => waitEnd = 0 PROVE WaitInv'
  <2>1. /\ pc = "native" /\ pc' = "check" /\ ready' = n
        /\ UNCHANGED <<registered, deadline, live, watched, timeout, buffered, effective,
                       until, waitEnd, elapsed, signalled>>
    BY <1>1 DEF NativeReturns, pollVars, ageVars
  <2>2. NeverOversleeps' /\ UntilBounds'
    BY <1>0, <2>1 DEF NeverOversleeps, TypeOK, UntilBounds
  <2>3. ASSUME Waiting' PROVE UntilForAReason' /\ WaitEndsAtUntil'
    <3>1. UntilForAReason /\ WaitEndsAtUntil
      BY <2>1, <2>3 DEF WaitInv, Waiting
    <3>2. UntilForAReason'
      BY <2>1, <3>1 DEF UntilForAReason, Ms
    <3>3. n = 0 => until # None /\ until < Ms(1) /\ (signalled \/ until = 0)
      BY <1>0, <1>1, <3>1 DEF WaitEndsAtUntil, None, TypeOK
    <3>4. WaitEndsAtUntil'
      BY <2>1, <3>1, <3>3 DEF WaitEndsAtUntil, Ms
    <3> QED
      BY <3>2, <3>4
  <2>4. EmptyIsInfinite'
    BY <2>1 DEF WaitInv, EmptyIsInfinite
  <2> QED
    BY <2>1, <2>2, <2>3, <2>4 DEF WaitInv, SleepsEmpty
<1>2. CASE NativeInterrupted
  <2>1. /\ pc = "native" /\ signalled' = TRUE
        /\ UNCHANGED <<registered, deadline, live, watched, timeout, buffered, effective,
                       until, ready, elapsed>>
    BY <1>2 DEF NativeInterrupted, pollVars
  <2>2. until \in Nat \union {None} /\ waitEnd \in Nat \union {None}
    BY <1>0 DEF TypeOK
  <2>3. ASSUME until > 0
        PROVE  Remaining \in Nat /\ Remaining <= until /\ until < Remaining + Ms(1)
    <3>1. until \in Nat
      BY <2>2, <2>3 DEF None
    <3> DEFINE q == until \div TicksPerMs
    <3>2. q \in Nat /\ Ms(q) <= until /\ until < Ms(q) + Ms(1)
      BY <3>1, RoundingFacts
    <3> HIDE DEF q
    <3>3. Ms(q) \in Nat
      BY <3>2, MsFacts
    <3> QED
      BY <3>2, <3>3 DEF Remaining, q
  <2>4. /\ waitEnd' \in Nat \union {None}
        /\ until = None => waitEnd' = waitEnd /\ pc' = "native"
        /\ until # None /\ pc' = "native" => waitEnd' # None /\ waitEnd' <= until
        /\ pc' \in {"native", "check"}
        /\ pc' = "check" => until = 0 /\ waitEnd' = waitEnd
        /\ pc' = "native" /\ until # None => until < waitEnd' + Ms(1)
    BY <1>2, <2>1, <2>2, <2>3 DEF NativeInterrupted, None
  <2>5. signalled' \in BOOLEAN /\ signalled'
    BY <2>1
  <2>6. TypeOK'
    BY <1>0, <2>1, <2>4, <2>5 DEF TypeOK
  <2>7. /\ until = None <=> waitEnd = None
        /\ \A s \in live : deadline[s] # None => until # None /\ until <= deadline[s] + Ms(1)
        /\ timeout # -1 => until # None /\ until <= Ms(timeout)
    BY <2>1 DEF WaitInv, UntilBounds
  <2>8. \A s \in live : deadline[s] \in Nat \union {None}
    BY <1>0 DEF TypeOK
  <2>9. timeout # -1 => Ms(timeout) \in Nat
    BY <1>0, MsFacts DEF TypeOK
  <2>10. NeverOversleeps'
    <3> SUFFICES ASSUME pc' = "native"
                 PROVE  /\ \A s \in live : deadline[s] # None =>
                                waitEnd' # None /\ waitEnd' <= deadline[s] + Ms(1)
                        /\ timeout # -1 => waitEnd' # None /\ waitEnd' <= Ms(timeout)
      BY <2>1, <2>6 DEF NeverOversleeps, Ms
    <3> QED
      BY <1>0, <2>2, <2>4, <2>7, <2>8, <2>9 DEF None
  <2>11. UntilBounds'
    <3> SUFFICES ASSUME pc' = "native"
                 PROVE  until = None <=> waitEnd' = None
      BY <2>1, <2>7 DEF UntilBounds, Ms
    <3> QED
      BY <2>4, <2>7
  <2>12. ASSUME Waiting' PROVE UntilForAReason' /\ WaitEndsAtUntil'
    <3>1. UntilForAReason /\ WaitEndsAtUntil
      BY <2>1, <2>12 DEF WaitInv, Waiting
    <3>2. UntilForAReason'
      BY <2>1, <3>1 DEF UntilForAReason, Ms
    <3>3. /\ until = None <=> waitEnd' = None
          /\ until < waitEnd' + Ms(1)
      BY <1>0, <2>2, <2>4, <2>7, <3>1 DEF WaitEndsAtUntil, None
    <3>4. pc' = "check" => until # None /\ until < Ms(1)
      BY <1>0, <2>4 DEF None
    <3>5. WaitEndsAtUntil'
      BY <2>1, <2>5, <3>3, <3>4 DEF WaitEndsAtUntil, Ms
    <3> QED
      BY <3>2, <3>5
  <2>13. EmptyIsInfinite'
    BY <2>1, <2>4 DEF WaitInv, EmptyIsInfinite
  <2> QED
    BY <2>4, <2>10, <2>11, <2>12, <2>13 DEF WaitInv, SleepsEmpty
<1>3. CASE NativeReady
  BY <1>1, <1>3 DEF NativeReady
<1>4. CASE NativeFails
  BY <1>1, <1>4 DEF NativeFails
<1>5. CASE NativeTimedOut
  BY <1>1, <1>5 DEF NativeTimedOut
<1> QED
  BY <1>2, <1>3, <1>4, <1>5

\* The choice of the wait keeps the invariant: this is where the rounding up of
\* poll_timeout_ms is needed.
LEMMA ComputeStep == WaitInv /\ Compute => WaitInv'
<1> SUFFICES ASSUME WaitInv, Compute PROVE WaitInv'
  OBVIOUS
<1> DEFINE eff == Effective(timeout)
           wait == IF buffered THEN 0 ELSE eff
           end == IF wait = -1 THEN None ELSE Ms(wait)
<1>0. TypeOK
  BY DEF WaitInv, NeverOversleeps
<1>1. /\ pc = "compute" /\ effective' = eff /\ until' = end /\ waitEnd' = end
      /\ pc' = IF watched # {} THEN "native" ELSE IF wait > 0 THEN "sleep" ELSE "check"
      /\ ready' = 0
      /\ UNCHANGED <<registered, deadline, live, watched, timeout, buffered, elapsed>>
  BY DEF Compute, pollVars
<1>2. signalled' \in BOOLEAN /\ ~signalled'
  BY DEF Compute
<1>3. /\ eff \in Nat \union {-1}
      /\ timeout # -1 => eff # -1 /\ eff <= timeout
      /\ \A s \in live : deadline[s] # None => eff # -1 /\ eff <= Due(s)
      /\ eff # -1 => \/ timeout # -1 /\ eff = timeout
                     \/ \E s \in live : deadline[s] # None /\ eff = Due(s)
  BY <1>0, EffectiveFacts
<1>4. /\ live \subseteq watched /\ watched \subseteq Sockets /\ buffered \in BOOLEAN
      /\ elapsed \in Nat /\ timeout \in Nat \union {-1}
      /\ \A s \in Sockets : deadline[s] \in Nat \union {None}
  BY <1>0 DEF TypeOK
<1>5. \A s \in live : /\ Due(s) \in Nat \union {-1}
                      /\ deadline[s] # None => /\ Due(s) \in Nat
                                               /\ Ms(Due(s)) <= deadline[s] + Ms(1)
                                               /\ deadline[s] <= Ms(Due(s))
  BY <1>0, <1>4, DueFacts
<1> HIDE DEF eff
<1>6. /\ wait \in Nat \union {-1} /\ (wait = -1 <=> ~buffered /\ eff = -1)
      /\ wait # -1 /\ eff # -1 => wait <= eff
  BY <1>3, <1>4
<1> HIDE DEF wait
<1>7. /\ end \in Nat \union {None} /\ (end = None <=> wait = -1)
      /\ wait # -1 => end = Ms(wait)
  <2>1. wait # -1 => Ms(wait) \in Nat
    BY <1>6, MsFacts
  <2> QED
    BY <2>1 DEF None
<1> HIDE DEF end
<1>8. Ms(1) \in Nat \ {0} /\ (timeout # -1 => Ms(timeout) \in Nat)
  BY <1>4, MsFacts
<1>9. TypeOK'
  BY <1>0, <1>1, <1>2, <1>3, <1>7 DEF TypeOK
<1>10. \A s \in live : deadline[s] # None => end # None /\ end <= deadline[s] + Ms(1)
  <2> SUFFICES ASSUME NEW s \in live, deadline[s] # None
               PROVE  end # None /\ end <= deadline[s] + Ms(1)
    OBVIOUS
  <2>1. eff # -1 /\ eff <= Due(s) /\ Due(s) \in Nat
    BY <1>3, <1>5
  <2>2. wait # -1 /\ wait \in Nat /\ wait <= Due(s)
    BY <1>3, <1>6, <2>1
  <2>3. Ms(wait) <= Ms(Due(s)) /\ Ms(wait) \in Nat /\ Ms(Due(s)) \in Nat
    BY <2>1, <2>2, MsFacts
  <2> QED
    BY <1>4, <1>5, <1>7, <1>8, <2>2, <2>3 DEF None
<1>11. timeout # -1 => end # None /\ end <= Ms(timeout)
  <2> HAVE timeout # -1
  <2>1. wait # -1 /\ wait \in Nat /\ wait <= timeout /\ timeout \in Nat
    BY <1>3, <1>4, <1>6
  <2>2. Ms(wait) <= Ms(timeout)
    BY <2>1, MsFacts
  <2> QED
    BY <1>7, <2>1, <2>2
<1>12. NeverOversleeps'
  BY <1>1, <1>9, <1>10, <1>11 DEF NeverOversleeps, Ms
<1>13. UntilBounds'
  BY <1>1, <1>10, <1>11 DEF UntilBounds, Ms
<1>14. ASSUME Waiting' PROVE UntilForAReason' /\ WaitEndsAtUntil'
  <2>1. ~buffered /\ watched # {} /\ pc' = "native"
    BY <1>1, <1>14 DEF Waiting
  <2>2. wait = eff
    BY <2>1 DEF wait
  <2>3. eff # -1 => \/ timeout # -1 /\ elapsed + end >= Ms(timeout)
                    \/ \E s \in watched : deadline[s] # None /\ deadline[s] <= end
    <3> HAVE eff # -1
    <3>1. end = Ms(eff) /\ end \in Nat
      BY <1>7, <2>2 DEF None
    <3>2. CASE timeout # -1 /\ eff = timeout
      BY <1>4, <1>8, <3>1, <3>2
    <3>3. ASSUME NEW s \in live, deadline[s] # None, eff = Due(s)
          PROVE  s \in watched /\ deadline[s] <= end
      BY <1>4, <1>5, <3>1, <3>3
    <3> QED
      BY <1>3, <3>2, <3>3
  <2>4. UntilForAReason'
    BY <1>1, <1>3, <1>7, <2>2, <2>3 DEF UntilForAReason, Ms
  <2>5. end < end + Ms(1)
    BY <1>7, <1>8 DEF None
  <2>6. WaitEndsAtUntil'
    BY <1>1, <2>1, <2>5 DEF WaitEndsAtUntil, Ms
  <2> QED
    BY <2>4, <2>6
<1>15. EmptyIsInfinite'
  BY <1>1, <1>3, <1>4 DEF EmptyIsInfinite
<1> QED
  BY <1>1, <1>12, <1>13, <1>14, <1>15 DEF WaitInv, SleepsEmpty

\* The steps of the loop around the native wait keep the invariant.
LEMMA LoopSteps ==
  ASSUME WaitInv, Slept \/ Repeat \/ Finish
  PROVE  WaitInv'
<1>0. TypeOK
  BY DEF WaitInv, NeverOversleeps
<1>1. CASE Slept
  <2>1. /\ pc = "sleep" /\ pc' = "check" /\ UNCHANGED <<registered, deadline, live>>
        /\ UNCHANGED pollVars /\ UNCHANGED waitVars /\ UNCHANGED ageVars
    BY <1>1 DEF Slept
  <2>2. watched = {}
    BY <2>1 DEF WaitInv, SleepsEmpty
  <2> QED
    BY <1>0, <2>1, <2>2
       DEF WaitInv, NeverOversleeps, TypeOK, UntilBounds, Waiting, EmptyIsInfinite, SleepsEmpty,
           pollVars, waitVars, ageVars
<1>2. CASE Repeat
  BY <1>0, <1>2
     DEF Repeat, WaitInv, NeverOversleeps, TypeOK, UntilBounds, Waiting, EmptyIsInfinite,
         SleepsEmpty, pollVars, waitVars, ageVars
<1>3. CASE Finish
  <2>1. PICK done \in SUBSET live :
          deadline' = [s \in Sockets |-> IF s \in done \/ Fails(s) THEN None ELSE deadline[s]]
    BY <1>3 DEF Finish
  <2>2. deadline' \in [Sockets -> Nat \union {None}]
    BY <1>0, <2>1 DEF TypeOK
  <2>3. /\ pc' = "idle" /\ watched' = {} /\ live' = {} /\ timeout' = 0
        /\ effective' = 0 /\ until' = 0 /\ waitEnd' = 0 /\ ready' = 0
        /\ elapsed' = 0 /\ registered' = registered
    BY <1>3 DEF Finish
  <2>4. buffered' \in BOOLEAN /\ signalled' \in BOOLEAN
    BY <1>3 DEF Finish
  <2>5. TypeOK'
    BY <1>0, <2>2, <2>3, <2>4 DEF TypeOK, None
  <2> QED
    BY <2>3, <2>5
       DEF WaitInv, NeverOversleeps, UntilBounds, Waiting, EmptyIsInfinite, SleepsEmpty
<1> QED
  BY <1>1, <1>2, <1>3

\* Every step keeps the invariant.
LEMMA WaitStep == WaitInv /\ [Next]_vars => WaitInv'
<1> SUFFICES ASSUME WaitInv, [Next]_vars PROVE WaitInv'
  OBVIOUS
<1> QED
  BY TickStep, OutsideSteps, NativeSteps, ComputeStep, LoopSteps DEF Next, PollStep

\* The invariant of the wait holds throughout every poll.
LEMMA WaitInductive == Spec => []WaitInv
<1>1. Init => WaitInv
  BY WaitInit
<1>2. WaitInv /\ [Next]_vars => WaitInv'
  BY WaitStep
<1> QED
  BY <1>1, <1>2, PTL DEF Spec

-----------------------------------------------------------------------------
\* A poll that waits natively wakes up at most a millisecond after any deadline of
\* a live socket and within its timeout, whatever the timeouts, the resolution of
\* the clock and the signals (event_socket_set::poll, poll_readable).
THEOREM OversleepTheorem == Spec => []NeverOversleeps
<1>1. WaitInv => NeverOversleeps
  BY DEF WaitInv
<1> QED
  BY <1>1, WaitInductive, PTL

\* Only Finish returns from poll(), and only Repeat goes on.
LEMMA LeavesCheck ==
  ASSUME Next, pc = "check"
  PROVE  /\ pc' = "idle" => Finish
         /\ pc' = "compute" => Repeat
<1> USE DEF Next, Tick, Register, Deregister, SetDeadline, PollEnter, PollStep, Compute, Slept,
            NativeTimedOut, NativeReady, NativeFails, NativeReturns, NativeInterrupted
<1>1. pc' = "idle" => Finish
  BY DEF Repeat
<1>2. pc' = "compute" => Repeat
  BY DEF Finish
<1> QED
  BY <1>1, <1>2

\* poll() returns empty-handed only near its timeout or a deadline: the argument
\* is that a wait that ended with nothing to report had less than a millisecond to
\* go, and was as long as it was for one of these reasons.
THEOREM ReasonTheorem == Spec => ReturnsForAReason
<1>1. ASSUME WaitInv, Next, pc = "check", pc' = "idle", watched # {}
      PROVE  \/ ready # 0 \/ buffered \/ Expired
             \/ /\ timeout # -1
                /\ \/ elapsed > Ms(timeout - 1)
                   \/ \E s \in watched : deadline[s] # None /\ deadline[s] < Ms(1)
  <2> SUFFICES ASSUME ready = 0, ~buffered, ~Expired
               PROVE  /\ timeout # -1
                      /\ \/ elapsed > Ms(timeout - 1)
                         \/ \E s \in watched : deadline[s] # None /\ deadline[s] < Ms(1)
    OBVIOUS
  <2>0. TypeOK /\ ~Repeats
    BY <1>1, LeavesCheck DEF WaitInv, NeverOversleeps, Finish
  <2>1. UntilForAReason /\ WaitEndsAtUntil
    BY <1>1 DEF WaitInv, Waiting
  <2>2. until # None /\ until < Ms(1) /\ effective # -1
    BY <1>1, <2>1 DEF WaitEndsAtUntil, UntilForAReason
  <2>3. timeout # -1
    BY <2>0, <2>2 DEF Repeats
  <2>4. until \in Nat /\ elapsed \in Nat /\ timeout \in Nat /\ Ms(1) \in Nat
    <3>1. until \in Nat /\ elapsed \in Nat /\ timeout \in Nat
      BY <2>0, <2>2, <2>3 DEF TypeOK, None
    <3> QED
      BY <3>1, MsFacts
  <2>5. Ms(timeout) \in Nat /\ Ms(timeout - 1) = Ms(timeout) - Ms(1)
    <3>1. timeout \in Int
      BY <2>4
    <3>2. Ms(timeout - 1) = Ms(timeout) - Ms(1)
      BY <3>1, MsFacts, Zenon
    <3> QED
      BY <2>4, <3>2, MsFacts
  <2>6. CASE elapsed + until >= Ms(timeout)
    BY <2>2, <2>3, <2>4, <2>5, <2>6
  <2>7. ASSUME NEW s \in watched, deadline[s] # None, deadline[s] <= until
        PROVE  deadline[s] < Ms(1)
    <3>1. deadline[s] \in Nat
      BY <2>0, <2>7 DEF TypeOK, None
    <3> QED
      BY <2>2, <2>4, <2>7, <3>1
  <2> QED
    BY <2>1, <2>2, <2>3, <2>6, <2>7 DEF UntilForAReason
<1>2. WaitInv /\ [Next]_vars =>
        [pc = "check" /\ pc' = "idle" /\ watched # {} =>
            \/ ready # 0 \/ buffered \/ Expired
            \/ /\ timeout # -1
               /\ \/ elapsed > Ms(timeout - 1)
                  \/ \E s \in watched : deadline[s] # None /\ deadline[s] < Ms(1)]_vars
  BY <1>1
<1> QED
  BY <1>2, WaitInductive, PTL DEF Spec, ReturnsForAReason

\* The loop of an infinite poll goes round again only after a signal, or when the
\* socket that it waited for was removed after its deadline had passed: else the
\* deadline, rounded up, has passed for a live socket and the poll dispatches it.
THEOREM NoBusyLoopTheorem == Spec => NoBusyLoop
<1>1. ASSUME WaitInv, Next, pc = "check", pc' = "compute", ~signalled
      PROVE  \E s \in watched \ live : deadline[s] = 0
  <2>0. TypeOK /\ Repeats
    BY <1>1, LeavesCheck DEF WaitInv, NeverOversleeps, Repeat
  <2>1. ready = 0 /\ ~buffered /\ ~Expired /\ timeout = -1 /\ effective # -1
    BY <2>0 DEF Repeats
  <2>2. watched # {}
    BY <1>1, <2>1 DEF WaitInv, EmptyIsInfinite
  <2>3. UntilForAReason /\ WaitEndsAtUntil
    BY <1>1, <2>1, <2>2 DEF WaitInv, Waiting
  <2>4. until = 0
    BY <1>1, <2>1, <2>3 DEF WaitEndsAtUntil
  <2>5. PICK s \in watched : deadline[s] # None /\ deadline[s] <= until
    BY <2>1, <2>3 DEF UntilForAReason
  <2>6. s \in Sockets /\ deadline[s] = 0
    BY <2>0, <2>4, <2>5 DEF TypeOK, None
  <2>7. s \notin live
    BY <2>0, <2>1, <2>6, DueFacts DEF Expired
  <2> QED
    BY <2>5, <2>6, <2>7
<1>2. WaitInv /\ [Next]_vars =>
        [pc = "check" /\ pc' = "compute" =>
            signalled \/ \E s \in watched \ live : deadline[s] = 0]_vars
  BY <1>1
<1> QED
  BY <1>2, WaitInductive, PTL DEF Spec, NoBusyLoop
==============================================================================
