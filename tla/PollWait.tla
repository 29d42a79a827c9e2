------------------------------- MODULE PollWait -------------------------------
(***************************************************************************)
(* The waiting loop of event_socket_set::poll and the native wait under it *)
(* (src/event_socket_set.cpp), against a clock.  EventSocketSet models     *)
(* what a poll does once something is ready; this module models when it    *)
(* stops waiting.                                                          *)
(*                                                                         *)
(* poll() takes milliseconds, the deadlines of TLS handshakes and          *)
(* shutdowns are points of a finer clock, and every conversion between the *)
(* two rounds.  The clock ticks TicksPerMs times in a millisecond, and may *)
(* tick between any two steps.  Only distances in time matter, so a point  *)
(* in time is the number of ticks until it is reached, 0 from then on.     *)
(***************************************************************************)
EXTENDS Integers, FiniteSets

CONSTANTS
    Sockets,        \* TCP sockets, with or without a deadline
    TicksPerMs,     \* resolution of the steady clock
    Timeouts,       \* timeouts of poll() in ms, -1 (infinite) included
    Grace           \* handshake and shutdown timeouts in ms

ASSUME ClockAssumption ==
    /\ TicksPerMs \in Nat \ {0}
    /\ Timeouts \subseteq Nat \union {-1} /\ Grace \subseteq Nat \ {0}
    /\ IsFiniteSet(Sockets)

VARIABLES
    registered,     \* sockets in the set
    deadline,       \* deadline[s]: handshake or shutdown deadline, or None
    pc,             \* "idle", "compute", "native", "sleep", "check"
    watched, live,  \* sockets of this poll, and those whose token is active
    timeout, buffered,      \* parameter of poll(); decrypted input waits
    effective,      \* effective_timeout of this iteration, ms
    until,          \* deadline local to poll_readable (None: infinite)
    waitEnd,        \* when the native call in progress times out (None: never)
    ready,          \* poll_readable's result: -1, 0, or 1 for any count above
    elapsed,        \* history: age of this poll, as far as its timeout
    signalled       \* history: a signal came in this iteration

pollVars == <<watched, timeout, buffered>>
waitVars == <<effective, until, waitEnd, ready>>
ageVars  == <<elapsed, signalled>>
vars == <<registered, deadline, pc, live, pollVars, waitVars, ageVars>>

None == -1
Ms(n) == n * TicksPerMs

Init ==
    /\ registered = {} /\ deadline = [s \in Sockets |-> None]
    /\ pc = "idle" /\ watched = {} /\ live = {} /\ timeout = 0 /\ buffered = FALSE
    /\ effective = 0 /\ until = 0 /\ waitEnd = 0 /\ ready = 0
    /\ elapsed = 0 /\ signalled = FALSE

-------------------------------------------------------------------------------
(* The clock, and what the application and other threads do.               *)

\* A point in time comes one tick closer; an age grows up to where it matters.
Closer(t) == IF t > 0 THEN t - 1 ELSE t
Older(age, cap) == IF age < cap THEN age + 1 ELSE age

Tick ==
    /\ deadline' = [s \in Sockets |-> Closer(deadline[s])]
    /\ until' = Closer(until) /\ waitEnd' = Closer(waitEnd)
    /\ elapsed' = IF pc = "idle" THEN elapsed ELSE Older(elapsed, Ms(timeout))
    /\ UNCHANGED <<registered, pc, live, pollVars, effective, ready, signalled>>

\* connect() or a graceful shutdown begun between polls sets a deadline.
SetDeadline(s, ms) ==
    /\ pc = "idle"
    /\ deadline[s] = None
    /\ deadline' = [deadline EXCEPT ![s] = Ms(ms)]
    /\ UNCHANGED <<registered, pc, live, pollVars, waitVars, ageVars>>

\* add(): a socket added while a poll waits is not part of its snapshot.
Register(s) ==
    /\ s \notin registered
    /\ registered' = registered \union {s}
    /\ UNCHANGED <<deadline, pc, live, pollVars, waitVars, ageVars>>

\* remove(), also by another thread while the poll waits: the token goes dead.
Deregister(s) ==
    /\ s \in registered
    /\ registered' = registered \ {s}
    /\ live' = live \ {s}
    /\ UNCHANGED <<deadline, pc, pollVars, waitVars, ageVars>>

-------------------------------------------------------------------------------
(* poll_timeout_ms and the choice of the wait                              *)

\* Mutant: the time to the deadline is rounded down.
DueDown(s) == IF deadline[s] <= 0 THEN deadline[s] ELSE deadline[s] \div TicksPerMs

\* poll_timeout_ms: -1 without a deadline, 0 once it has passed, else rounded up.
Due(s) == IF deadline[s] <= 0 THEN deadline[s] ELSE deadline[s] \div TicksPerMs + 1

\* expired: the deadline of a watched socket has passed.
Expired == \E s \in live : Due(s) = 0

\* effective_timeout: the least of the parameter and the due times; -1 is none.
Effective(t) ==
    LET bounds == ({Due(s) : s \in live} \union {t}) \ {-1} IN
    IF bounds = {} THEN -1 ELSE CHOOSE d \in bounds : \A e \in bounds : d <= e

\* poll(): the snapshot, and whether a transport holds decrypted input.
PollEnter(t) ==
    /\ pc = "idle"
    /\ watched' = registered /\ live' = registered
    /\ timeout' = t
    /\ buffered' \in (IF registered = {} THEN {FALSE} ELSE BOOLEAN)
    /\ pc' = "compute"
    /\ UNCHANGED <<registered, deadline, waitVars, ageVars>>

\* One iteration up to the native call.  An empty set sleeps, and never for ever.
Compute ==
    /\ pc = "compute"
    /\ effective' = Effective(timeout)
    /\ LET wait == IF buffered THEN 0 ELSE effective'
           end == IF wait = -1 THEN None ELSE Ms(wait)
       IN  /\ until' = end /\ waitEnd' = end
           /\ pc' = IF watched # {} THEN "native" ELSE IF wait > 0 THEN "sleep" ELSE "check"
    /\ ready' = 0
    /\ signalled' = FALSE
    /\ UNCHANGED <<registered, deadline, live, pollVars, elapsed>>

\* std::this_thread::sleep_for resumes after signals.
Slept ==
    /\ pc = "sleep"
    /\ waitEnd = 0
    /\ pc' = "check"
    /\ UNCHANGED <<registered, deadline, live, pollVars, waitVars, ageVars>>

-------------------------------------------------------------------------------
(* poll_readable: ::poll and its signals                                   *)

NativeReturns(n) ==
    /\ pc = "native"
    /\ ready' = n
    /\ pc' = "check"
    /\ UNCHANGED <<registered, deadline, live, pollVars, effective, until, waitEnd, ageVars>>

NativeReady == NativeReturns(1)
NativeFails == NativeReturns(-1)
NativeTimedOut == waitEnd = 0 /\ NativeReturns(0)

\* Mutant: after a signal the whole timeout is waited for again.
RemainingWhole == Ms(effective)

\* remaining: what is left of the timeout, in whole milliseconds, rounded down.
Remaining == Ms(until \div TicksPerMs)

\* EINTR: an infinite wait starts again, a finite one ends at its deadline or
\* waits for what remains.
NativeInterrupted ==
    /\ pc = "native"
    /\ signalled' = TRUE
    /\ \/ until = None /\ UNCHANGED <<pc, waitEnd>>
       \/ until = 0 /\ pc' = "check" /\ UNCHANGED waitEnd
       \/ until > 0 /\ waitEnd' = Remaining /\ UNCHANGED pc
    /\ UNCHANGED <<registered, deadline, live, pollVars, effective, until, ready, elapsed>>

-------------------------------------------------------------------------------
(* After the native wait                                                   *)

\* Mutant: the loop is left after the first wait.
NeverRepeats == FALSE

\* The loop goes on: only an infinite poll that waited for a deadline does.
Repeats == ready = 0 /\ ~buffered /\ ~Expired /\ timeout = -1 /\ effective # -1

Repeat ==
    /\ pc = "check"
    /\ Repeats
    /\ pc' = "compute"
    /\ UNCHANGED <<registered, deadline, live, pollVars, waitVars, ageVars>>

\* An error or nothing to report ends poll() without a dispatch.
Dispatches == ready = 1 \/ (ready = 0 /\ (buffered \/ Expired))

\* Mutant: a socket is only dispatched when its descriptor is ready.
FailsWhenReady(s) == ready = 1 /\ s \in live /\ Due(s) = 0

\* The dispatch reaches a live socket whose deadline has passed, ready or not.
Fails(s) == Dispatches /\ s \in live /\ Due(s) = 0

\* poll() ends and its locals die.  In the dispatch a handshake or shutdown may
\* complete on a ready socket, and a socket whose deadline has passed fails and is
\* closed.
Finish ==
    /\ pc = "check"
    /\ ~Repeats
    /\ \E done \in SUBSET live :
          /\ done # {} => Dispatches /\ (ready = 1 \/ buffered)
          /\ deadline' = [s \in Sockets |-> IF s \in done \/ Fails(s) THEN None ELSE deadline[s]]
    /\ pc' = "idle"
    /\ watched' = {} /\ live' = {} /\ timeout' = 0 /\ buffered' = FALSE
    /\ effective' = 0 /\ until' = 0 /\ waitEnd' = 0 /\ ready' = 0
    /\ elapsed' = 0 /\ signalled' = FALSE
    /\ UNCHANGED registered

PollStep == Compute \/ Slept \/ NativeTimedOut \/ Repeat \/ Finish

Next ==
    \/ Tick
    \/ \E s \in Sockets : Register(s) \/ Deregister(s)
    \/ \E s \in Sockets, ms \in Grace : SetDeadline(s, ms)
    \/ \E t \in Timeouts : PollEnter(t)
    \/ PollStep
    \/ NativeReady \/ NativeFails \/ NativeInterrupted

Spec == Init /\ [][Next]_vars

\* Time passes, the application polls again whenever a poll has returned, and a
\* poll does not stop by itself; the native call neither fails nor is interrupted
\* every time.  No descriptor need ever become ready.
FairSpec ==
    /\ Spec
    /\ WF_vars(Tick)
    /\ WF_vars(PollStep) /\ SF_vars(NativeTimedOut)
    /\ WF_vars(\E t \in Timeouts : PollEnter(t))

-------------------------------------------------------------------------------
(* Properties                                                              *)

\* Type invariant of the clock, the poll in progress and its wait.
TypeOK ==
    /\ registered \subseteq Sockets /\ watched \subseteq Sockets /\ live \subseteq watched
    /\ deadline \in [Sockets -> Nat \union {None}]
    /\ pc \in {"idle", "compute", "native", "sleep", "check"}
    /\ timeout \in Nat \union {-1} /\ buffered \in BOOLEAN
    /\ effective \in Nat \union {-1} /\ ready \in -1..1
    /\ until \in Nat \union {None} /\ waitEnd \in Nat \union {None}
    /\ elapsed \in Nat /\ signalled \in BOOLEAN

\* While poll() waits natively it is bound to wake up in time, however many signals
\* interrupt it: at most one millisecond after the deadline of any live socket, and
\* within its own timeout.
NeverOversleeps ==
    /\ TypeOK
    /\ pc = "native" =>
        /\ \A s \in live : deadline[s] # None => waitEnd # None /\ waitEnd <= deadline[s] + Ms(1)
        /\ timeout # -1 => waitEnd # None /\ waitEnd <= Ms(timeout)

\* poll() does not return empty-handed too soon.  An infinite poll of a non-empty
\* set returns only with an error, with something ready or decrypted, or with a
\* passed deadline; a finite one also less than a millisecond before its timeout,
\* or before the deadline to which it shortened its wait.
ReturnsForAReason ==
    [][pc = "check" /\ pc' = "idle" /\ watched # {} =>
          \/ ready # 0 \/ buffered \/ Expired
          \/ /\ timeout # -1
             /\ \/ elapsed > Ms(timeout - 1)
                \/ \E s \in watched : deadline[s] # None /\ deadline[s] < Ms(1)]_vars

\* The waiting loop of an infinite poll is not a busy loop: it goes round again only
\* after a signal, or when another thread has removed a socket whose deadline had
\* passed; the wait for any other deadline ends with a dispatch.
NoBusyLoop ==
    [][pc = "check" /\ pc' = "compute" =>
          signalled \/ \E s \in watched \ live : deadline[s] = 0]_vars

\* No deadline is slept through: a socket that is registered, and has a handshake
\* or shutdown deadline, when a poll begins is dispatched and the deadline is gone,
\* even if no descriptor is ever ready and whatever the timeouts of the polls.
DeadlineServed ==
    \A s \in Sockets :
        (pc = "idle" /\ s \in registered /\ deadline[s] # None)
            ~> (s \notin registered \/ deadline[s] = None)
===============================================================================
