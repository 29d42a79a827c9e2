------------------------------ MODULE WriteQueue ------------------------------
(***************************************************************************)
(* The buffered output of one event_socket: queue_write, flush_queued,     *)
(* close and set_max_queued_bytes (src/event_socket.cpp), with the part of *)
(* the connection's life that decides which bytes may still be sent.       *)
(*                                                                         *)
(* Two kinds of thread use the queue.  The polling thread flushes, closes  *)
(* and reconnects the socket; `pc' is where it stands.  An on_close        *)
(* handler may call the socket again, the connect() included whose own     *)
(* close() runs the handler: `stack' holds where such calls return to.     *)
(* Producers call queue_write, which tests the socket before it takes the  *)
(* queue's mutex, so that a call is two steps.  The mutex is held across   *)
(* several steps by a flush only: it is taken exactly while pc = "send".   *)
(*                                                                         *)
(* A byte is the position at which it was accepted (1, 2, ...), so that    *)
(* order, loss and duplication on the wire are visible.                    *)
(***************************************************************************)
EXTENDS Integers, Sequences, FiniteSets, SequencesExt

CONSTANTS
    Producers,      \* threads that call queue_write
    Sizes,          \* payload sizes they pass
    Limits,         \* limits passed to set_max_queued_bytes
    DefaultLimit,   \* initial limit (1 MiB)
    CoalesceLimit,  \* chunks below this size are appended to (16 KiB)
    Budget,         \* bytes one flush may send (64 KiB in poll)
    IntMax,         \* largest request of one send (INT_MAX)
    MaxInterrupts,  \* EINTR retries of one send (4)
    SizeMax,        \* largest std::size_t
    MaxBytes,       \* bound: bytes accepted in a behaviour
    MaxConns,       \* bound: descriptors opened in a behaviour
    MaxDepth        \* bound: on_close handlers that call and wait, at one time

ASSUME SizesAssumption ==
    /\ Sizes \subseteq Nat /\ Limits \subseteq Nat /\ DefaultLimit \in Nat
    /\ CoalesceLimit \in Nat /\ MaxInterrupts \in Nat
    /\ Budget \in Nat \ {0} /\ IntMax \in Nat \ {0}
    /\ MaxBytes \in Nat /\ MaxConns \in Nat /\ MaxDepth \in Nat
ASSUME WidthAssumption ==
    /\ SizeMax \in Nat
    /\ DefaultLimit <= SizeMax /\ \A l \in Limits : l <= SizeMax
    /\ \A s \in Sizes : s <= SizeMax

VARIABLES
    valid, connected, blocking,     \* socket: sockfd # invalid, connected, blocking
    chunks, front_offset, bytes, limit,     \* event_socket::state
    flush,      \* locals and result of the flush in progress
    call,       \* call[p]: size of a payload p has tested and not yet stored, or 0
    pc, stack,  \* polling thread: where it is, and where its calls return to
    conn,       \* history: how many descriptors connect() has opened
    nested,     \* history: those opened in an on_close handler of another connect()
    accepted,   \* history: how many bytes queue_write has accepted
    origin,     \* history: origin[b] is the connection b was stored for, or 0
    wire,       \* history: the bytes handed to the transport, in order
    errored     \* history: connections whose flush error was reported

queueVars == <<chunks, front_offset, bytes>>
sockVars  == <<valid, connected, blocking, conn, nested>>
histVars  == <<accepted, origin, wire, errored>>
vars == <<queueVars, limit, sockVars, flush, call, pc, stack, histVars>>

\* Where the polling thread can be: between calls of the library, in user code it
\* called (flushed, on_close, on_connect), or inside flush, close or connect.
PCs == {"idle", "send", "flushed", "close_fd", "on_close",
        "connect", "connecting", "failed", "finish", "on_connect"}

NoFlush == [was_nonempty |-> FALSE, sent |-> 0, interrupts |-> 0,
            error |-> FALSE, drained |-> FALSE, first |-> 0, last |-> 0]

\* The connection a payload belongs to: none while the socket is being closed,
\* is closed, or is not connected yet.
Established == IF valid /\ connected /\ pc # "close_fd" THEN conn ELSE 0

Init ==
    /\ valid = TRUE /\ connected = FALSE /\ blocking = FALSE
    /\ chunks = <<>> /\ front_offset = 0 /\ bytes = 0 /\ limit = DefaultLimit
    /\ flush = NoFlush
    /\ call = [p \in Producers |-> 0]
    /\ pc = "idle" /\ stack = <<>>
    /\ conn = 0 /\ nested = {} /\ accepted = 0 /\ origin = <<>> /\ wire = <<>> /\ errored = {}

-------------------------------------------------------------------------------
(* Arithmetic of std::size_t and the operations on the deque of chunks.    *)

\* a - b on unsigned integers: it wraps below zero.
SizeSub(a, b) == IF a >= b THEN a - b ELSE a - b + SizeMax + 1

Least(a, b) == IF a <= b THEN a ELSE b

\* The bytes of a payload of n bytes accepted now.
Payload(n) == [k \in 1..n |-> accepted + k]

\* emplace_back / append: small payloads share the last chunk.
Coalesces(n) ==
    /\ chunks # <<>>
    /\ Len(chunks[Len(chunks)]) < CoalesceLimit
    /\ n <= CoalesceLimit - Len(chunks[Len(chunks)])

Store(n) ==
    IF Coalesces(n)
    THEN [chunks EXCEPT ![Len(chunks)] = @ \o Payload(n)]
    ELSE Append(chunks, Payload(n))

\* chunks.clear(); front_offset = 0; bytes = 0
ClearQueue == chunks' = <<>> /\ front_offset' = 0 /\ bytes' = 0

-------------------------------------------------------------------------------
(* Producers                                                               *)

\* queue_write up to the mutex.  A call that returns here changes nothing.
QueueWriteTest(p, n) ==
    /\ call[p] = 0
    /\ valid /\ connected /\ ~blocking
    /\ n # 0
    /\ accepted + n <= MaxBytes
    /\ call' = [call EXCEPT ![p] = n]
    /\ UNCHANGED <<queueVars, limit, sockVars, flush, pc, stack, histVars>>

\* The rest of queue_write, under the mutex: all of the payload or nothing.
QueueWriteLocked(p) ==
    LET n == call[p] IN
    /\ n # 0
    /\ pc # "send"
    /\ call' = [call EXCEPT ![p] = 0]
    /\ \/ /\ n > SizeSub(limit, bytes)
          /\ UNCHANGED <<queueVars, accepted, origin>>
       \/ /\ n <= SizeSub(limit, bytes)
          /\ accepted + n <= MaxBytes
          /\ chunks' = Store(n)
          /\ bytes' = bytes + n
          /\ accepted' = accepted + n
          /\ origin' = origin \o [k \in 1..n |-> Established]
          /\ UNCHANGED front_offset
    /\ UNCHANGED <<limit, sockVars, flush, pc, stack, wire, errored>>

\* Mutant: a limit below the queued byte count is taken.
SetAnyLimit(newLimit) ==
    /\ pc # "send"
    /\ limit' = newLimit
    /\ UNCHANGED <<queueVars, sockVars, flush, call, pc, stack, histVars>>

SetMaxQueuedBytes(newLimit) ==
    /\ pc # "send"
    /\ newLimit >= bytes
    /\ limit' = newLimit
    /\ UNCHANGED <<queueVars, sockVars, flush, call, pc, stack, histVars>>

-------------------------------------------------------------------------------
(* Polling thread: calls and returns                                       *)

\* Code of the application that may call poll(), close() or connect().  In the
\* other callbacks such a call does what it does right after they return, because
\* the library has nothing left to do then.
UserRuns ==
    \/ pc = "idle"
    \/ /\ pc = "on_close"
       /\ stack # <<>>
       /\ Cardinality({i \in DOMAIN stack : stack[i] = "on_close"}) < MaxDepth

\* Where a call made here returns to: the handler, or the top level.
Caller == IF pc = "idle" THEN <<>> ELSE <<"on_close">> \o stack

Return ==
    /\ pc' = IF stack = <<>> THEN "idle" ELSE Head(stack)
    /\ stack' = IF stack = <<>> THEN <<>> ELSE Tail(stack)

-------------------------------------------------------------------------------
(* Polling thread: flush_queued                                            *)

FlushEnter ==
    /\ UserRuns
    /\ valid /\ ~blocking
    /\ flush' = [NoFlush EXCEPT !.was_nonempty = (bytes # 0),
                                !.first = accepted - bytes + 1, !.last = accepted]
    /\ pc' = "send" /\ stack' = Caller
    /\ UNCHANGED <<queueVars, limit, sockVars, call, histVars>>

\* Mutant: the loop stops before the last chunk.
LoopingToLast == pc = "send" /\ Len(chunks) > 1 /\ flush.sent < Budget

Looping == pc = "send" /\ bytes # 0 /\ flush.sent < Budget

Requested ==
    Least(Least(Len(chunks[1]) - front_offset, Budget - flush.sent), IntMax)

\* Mutant: popping a chunk leaves the offset.
FlushSentOffset(n) ==
    /\ Looping
    /\ n \in 1..Requested
    /\ wire' = wire \o [k \in 1..n |-> [conn |-> conn, byte |-> chunks[1][front_offset + k]]]
    /\ bytes' = bytes - n
    /\ flush' = [flush EXCEPT !.sent = @ + n, !.interrupts = 0]
    /\ front_offset' = front_offset + n
    /\ chunks' = IF front_offset + n = Len(chunks[1]) THEN Tail(chunks) ELSE chunks
    /\ UNCHANGED <<limit, sockVars, call, pc, stack, accepted, origin, errored>>

\* poll_send_queued took n bytes of the front chunk.
FlushSent(n) ==
    /\ Looping
    /\ n \in 1..Requested
    /\ wire' = wire \o [k \in 1..n |-> [conn |-> conn, byte |-> chunks[1][front_offset + k]]]
    /\ bytes' = bytes - n
    /\ flush' = [flush EXCEPT !.sent = @ + n, !.interrupts = 0]
    /\ IF front_offset + n = Len(chunks[1])
       THEN chunks' = Tail(chunks) /\ front_offset' = 0
       ELSE front_offset' = front_offset + n /\ UNCHANGED chunks
    /\ UNCHANGED <<limit, sockVars, call, pc, stack, accepted, origin, errored>>

FlushInterrupted ==
    /\ Looping
    /\ flush.interrupts < MaxInterrupts
    /\ flush' = [flush EXCEPT !.interrupts = @ + 1]
    /\ UNCHANGED <<queueVars, limit, sockVars, call, pc, stack, histVars>>

\* The loop stops with the queue as it is: its condition is false, the
\* transport would block, sent nothing, or was interrupted once too often.
FlushStop ==
    /\ pc = "send"
    /\ flush' = [flush EXCEPT !.drained = flush.was_nonempty /\ bytes = 0]
    /\ pc' = "flushed"
    /\ UNCHANGED <<queueVars, limit, sockVars, call, stack, histVars>>

\* Mutant: a queue emptied by an error counts as drained.
FlushFailDrained ==
    /\ Looping
    /\ ClearQueue
    /\ flush' = [flush EXCEPT !.error = TRUE, !.drained = flush.was_nonempty]
    /\ pc' = "flushed"
    /\ UNCHANGED <<limit, sockVars, call, stack, histVars>>

\* Mutant: a send error drops the first chunk only.
FlushFailFirst ==
    /\ Looping
    /\ chunks' = Tail(chunks) /\ front_offset' = 0
    /\ bytes' = bytes - (Len(chunks[1]) - front_offset)
    /\ flush' = [flush EXCEPT !.error = TRUE, !.drained = FALSE]
    /\ pc' = "flushed"
    /\ UNCHANGED <<limit, sockVars, call, stack, histVars>>

\* A fatal send error, or a transport that claims more than was requested.
FlushFail ==
    /\ Looping
    /\ ClearQueue
    /\ flush' = [flush EXCEPT !.error = TRUE, !.drained = FALSE]
    /\ pc' = "flushed"
    /\ UNCHANGED <<limit, sockVars, call, stack, histVars>>

\* Mutant: the error of a flush is not reported.
FlushUnreported ==
    /\ pc = "flushed"
    /\ flush' = NoFlush
    /\ Return
    /\ UNCHANGED <<queueVars, limit, sockVars, call, histVars>>

\* poll() reports the result: on_error or on_drain, outside the mutex.
FlushReport ==
    /\ pc = "flushed"
    /\ errored' = IF flush.error THEN errored \union {conn} ELSE errored
    /\ flush' = NoFlush
    /\ Return
    /\ UNCHANGED <<queueVars, limit, sockVars, call, accepted, origin, wire>>

-------------------------------------------------------------------------------
(* Polling thread: close(), connect()                                      *)

\* Mutant: the queue survives close().
BeginCloseKeeps(returns) ==
    /\ pc' = "close_fd" /\ stack' = returns
    /\ UNCHANGED <<queueVars, limit, sockVars, flush, call, histVars>>

\* event_socket::close first discards the queue, whatever the socket's state.
\* tcp_connect(address) begins with the same virtual close().
BeginClose(returns) ==
    /\ ClearQueue
    /\ pc' = "close_fd" /\ stack' = returns
    /\ UNCHANGED <<limit, sockVars, flush, call, histVars>>

Close   == UserRuns /\ BeginClose(Caller)
Connect == UserRuns /\ conn < MaxConns /\ BeginClose(<<"connect">> \o Caller)

\* socket::close: relinquish the descriptor; on_close only if one was open and
\* the OS closed it without an error.
CloseFd ==
    /\ pc = "close_fd"
    /\ valid' = FALSE
    /\ connected' = (connected /\ ~valid)
    /\ \/ valid /\ pc' = "on_close" /\ UNCHANGED stack
       \/ Return
    /\ UNCHANGED <<queueVars, limit, blocking, conn, nested, flush, call, histVars>>

CloseReturn ==
    /\ pc = "on_close"
    /\ Return
    /\ UNCHANGED <<queueVars, limit, sockVars, flush, call, histVars>>

\* A connect() whose close() has not returned: the handler it runs is on the stack.
InConnect == \E i \in DOMAIN stack : stack[i] = "connect"

\* sockfd = ::socket(...); connected = false.  The queue is not looked at again,
\* nor is the descriptor that a handler of the close() may have opened.
ConnectSocket ==
    /\ pc = "connect"
    /\ connected' = FALSE
    /\ \/ /\ conn < MaxConns
          /\ valid' = TRUE /\ conn' = conn + 1 /\ pc' = "connecting"
          /\ nested' = IF InConnect THEN nested \union {conn + 1} ELSE nested
       \/ valid' = FALSE /\ pc' = "failed" /\ UNCHANGED <<conn, nested>>
    /\ UNCHANGED <<queueVars, limit, blocking, flush, call, stack, histVars>>

ConnectOk ==
    /\ pc = "connecting"
    /\ connected' = TRUE
    /\ pc' = "finish"
    /\ UNCHANGED <<queueVars, limit, valid, blocking, conn, nested, flush, call, stack, histVars>>

ConnectFail == pc = "connecting" /\ BeginClose(<<"failed">> \o stack)

\* An attempt has failed: tcp_connect() tries the next address or sets connected,
\* which tcp_connect(address) leaves alone.
ConnectNext ==
    /\ pc = "failed"
    /\ \/ conn < MaxConns /\ BeginClose(<<"connect">> \o stack)
       \/ /\ connected' \in {connected, FALSE}
          /\ Return
          /\ UNCHANGED <<queueVars, limit, valid, blocking, conn, nested, flush, call, histVars>>

\* finish_connect: set_blocking(false); on failure socket::close, not the
\* event_socket's own close, so that the queue is left alone.
FinishConnect ==
    /\ pc = "finish"
    /\ \/ /\ blocking' = FALSE /\ pc' = "on_connect"
          /\ UNCHANGED <<valid, connected, stack>>
       \/ valid' = FALSE /\ connected' = FALSE /\ Return /\ UNCHANGED blocking
    /\ UNCHANGED <<queueVars, limit, conn, nested, flush, call, histVars>>

OnConnectReturn ==
    /\ pc = "on_connect"
    /\ Return
    /\ UNCHANGED <<queueVars, limit, sockVars, flush, call, histVars>>

\* set_blocking called by the application.
SetBlocking(flag) ==
    /\ UserRuns
    /\ valid
    /\ blocking' = flag
    /\ UNCHANGED <<queueVars, limit, valid, connected, conn, nested, flush, call, pc, stack, histVars>>

-------------------------------------------------------------------------------
FlushStep ==
    \/ FlushEnter
    \/ \E n \in 1..Budget : FlushSent(n)
    \/ FlushInterrupted
    \/ FlushStop
    \/ FlushFail
    \/ FlushReport

ConnectionStep ==
    \/ Close
    \/ Connect
    \/ CloseFd
    \/ CloseReturn
    \/ ConnectSocket
    \/ ConnectOk
    \/ ConnectFail
    \/ ConnectNext
    \/ FinishConnect
    \/ OnConnectReturn
    \/ \E flag \in BOOLEAN : SetBlocking(flag)

ProducerStep ==
    \/ \E p \in Producers, n \in Sizes : QueueWriteTest(p, n)
    \/ \E p \in Producers : QueueWriteLocked(p)
    \/ \E l \in Limits : SetMaxQueuedBytes(l)

Next == FlushStep \/ ConnectionStep \/ ProducerStep

Spec == Init /\ [][Next]_vars

\* The application keeps polling and its callbacks return, even if they retry
\* queue_write in between; calls that have begun end; and a transport that is
\* asked again and again sometimes takes a byte.
FairSpec ==
    /\ Spec
    /\ \A p \in Producers : WF_vars(QueueWriteLocked(p))
    /\ SF_vars(FlushEnter) /\ WF_vars(FlushStop) /\ WF_vars(FlushReport)
    /\ WF_vars(CloseFd) /\ SF_vars(CloseReturn) /\ WF_vars(OnConnectReturn)
    /\ WF_vars(ConnectSocket) /\ WF_vars(ConnectOk \/ ConnectFail) /\ WF_vars(ConnectNext)
    /\ WF_vars(FinishConnect)
    /\ SF_vars(\E n \in 1..Budget : FlushSent(n))

-------------------------------------------------------------------------------
(* Properties                                                              *)

\* Type invariant of the socket, its queue and the threads' positions.
TypeOK ==
    /\ valid \in BOOLEAN /\ connected \in BOOLEAN /\ blocking \in BOOLEAN
    /\ chunks \in Seq(Seq(Nat)) /\ front_offset \in Nat /\ bytes \in Nat /\ limit \in Nat
    /\ flush \in [was_nonempty : BOOLEAN, sent : Nat, interrupts : Nat, error : BOOLEAN,
                  drained : BOOLEAN, first : Nat, last : Nat]
    /\ call \in [Producers -> Nat]
    /\ pc \in PCs /\ stack \in Seq({"on_close", "connect", "failed"})
    /\ conn \in Nat /\ nested \subseteq Nat /\ accepted \in Nat /\ origin \in Seq(Nat)
    /\ wire \in Seq([conn : Nat, byte : Nat]) /\ errored \subseteq Nat

\* The queue never holds more than its limit, whatever mix of queue_write,
\* set_max_queued_bytes and flushes ran: the unsigned room limit - bytes
\* (queue_write) never wraps.
BytesWithinLimit == bytes <= limit

\* Chunks s, of whose first one `off' bytes are sent, hold exactly the b newest of
\* a accepted bytes: consecutive within a chunk and from each chunk to the next,
\* every chunk after all earlier ones, and no chunk empty.
Holds(s, off, b, a) ==
    /\ \A i \in 1..Len(s) : /\ Len(s[i]) >= 1
                            /\ \A j \in 1..Len(s[i]) : s[i][j] = s[i][1] + j - 1
    /\ \A i \in 1..(Len(s) - 1) : s[i + 1][1] = s[i][1] + Len(s[i])
    /\ \A i, j \in 1..Len(s) : i < j => s[i][1] + Len(s[i]) <= s[j][1]
    /\ Len(s) = 0 => b = 0 /\ off = 0
    /\ Len(s) # 0 => /\ off < Len(s[1])
                     /\ s[Len(s)][1] + Len(s[Len(s)]) = a + 1
                     /\ s[1][1] + off = a + 1 - b

\* The byte counter, the front offset and the deque describe the same bytes:
\* what is queued is exactly the newest `bytes' accepted bytes, in the order of
\* acceptance, and no chunk is empty (flush_queued reads chunks.front()).
QueueConsistent == Holds(chunks, front_offset, bytes, accepted)

\* What the peer of one connection receives is the accepted stream: in order,
\* nothing twice, and nothing left out unless a flush error of that connection
\* was reported (flush_queued drops the queue, but a plain TCP socket stays open).
WireIsStream ==
    \A i \in 1..(Len(wire) - 1) :
        /\ wire[i].byte < wire[i + 1].byte
        /\ wire[i].conn <= wire[i + 1].conn
        /\ wire[i].conn = wire[i + 1].conn =>
              \/ wire[i + 1].byte = wire[i].byte + 1
              \/ wire[i].conn \in errored

\* Drain is reported exactly when the flush started with bytes queued and every
\* one of them is on the wire of this connection (flush_result::drained); a
\* queue emptied by an error is not drained.
DrainExact ==
    pc = "flushed" =>
        (flush.drained <=>
            /\ flush.first <= flush.last
            /\ \A b \in flush.first..flush.last :
                  \E i \in DOMAIN wire : wire[i] = [conn |-> conn, byte |-> b])

\* Output of connection o may still leave on connection c: every connection from o
\* on was made in an on_close handler of the connect() that made the next one.
Carried(o, c) == o <= c /\ \A k \in o..(c - 1) : k \in nested

\* Bytes queued while a connection was established are sent on that connection or
\* never: close() discards them before the descriptor goes, and a reconnection
\* starts with an empty queue.  The exception is a connection that the on_close
\* handler of a connect() has made: that connect() has cleared the queue already,
\* replaces the descriptor and sends the bytes on its own connection.  (A
\* queue_write that passed its test and stores its payload only after the close is
\* the one way into a closed socket's queue; such bytes belong to no connection.)
ConnectionIsolation ==
    \A i \in DOMAIN wire :
        LET o == origin[wire[i].byte] IN o = 0 \/ Carried(o, wire[i].conn)

\* Queued output does not stay: it is sent or discarded, unless the socket is
\* closed or switched to blocking mode.
OutputLeaves == bytes # 0 ~> (bytes = 0 \/ ~valid \/ blocking)

\* Output that is queued and not sent, byte by byte.  Bytes stored late may sit in
\* the queue of a closed socket: the stream holds them too.
Queued == SubSeq(FlattenSeq(chunks), front_offset + 1, Len(FlattenSeq(chunks)))

Stream == INSTANCE OutputStream WITH queue <- Queued, capacity <- limit,
              next <- accepted + 1, delivered <- [i \in DOMAIN wire |-> wire[i].byte]

\* The event socket's output queue implements a bounded FIFO byte stream:
\* every step of its threads accepts one whole payload, delivers a prefix,
\* discards everything, changes the capacity within reason, or is invisible.
ImplementsStream == Stream!Spec
===============================================================================
