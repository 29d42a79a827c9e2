---------------------------- MODULE OutputStream ----------------------------
(***************************************************************************)
(* What an event_socket's buffered output promises (the comments of        *)
(* include/event_socket.hpp): a bounded first-in first-out stream of       *)
(* bytes.  A payload is accepted as a whole or not at all; the bytes       *)
(* delivered are always the oldest queued ones; the queue may be discarded *)
(* as a whole; its capacity never drops below its contents.                *)
(***************************************************************************)
EXTENDS Integers, Sequences

CONSTANTS DefaultLimit, MaxBytes

VARIABLES queue, capacity, next, delivered

streamVars == <<queue, capacity, next, delivered>>

Init == queue = <<>> /\ capacity = DefaultLimit /\ next = 1 /\ delivered = <<>>

\* One payload of n bytes enters, whole.
Accept(n) ==
    /\ Len(queue) + n <= capacity
    /\ queue' = queue \o [k \in 1..n |-> next + k - 1]
    /\ next' = next + n
    /\ UNCHANGED <<capacity, delivered>>

\* The n oldest bytes leave for the peer.
Deliver(n) ==
    /\ n <= Len(queue)
    /\ delivered' = delivered \o SubSeq(queue, 1, n)
    /\ queue' = SubSeq(queue, n + 1, Len(queue))
    /\ UNCHANGED <<capacity, next>>

\* A close or a send error drops everything that is still queued.
Discard == queue' = <<>> /\ UNCHANGED <<capacity, next, delivered>>

Resize == capacity' \in Nat /\ capacity' >= Len(queue) /\ UNCHANGED <<queue, next, delivered>>

Next ==
    \/ \E n \in 1..MaxBytes : Accept(n) \/ Deliver(n)
    \/ Discard
    \/ Resize

Spec == Init /\ [][Next]_streamVars
=============================================================================
