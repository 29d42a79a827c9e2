---------------------------- MODULE SslEventSocket ----------------------------
(***************************************************************************)
(* One ssl_event_socket (src/ssl_event_socket.cpp): the handshake, the     *)
(* retries of SSL_write, reading, and the close_notify exchange, as        *)
(* event_socket_set::poll drives them with callbacks in between.           *)
(*                                                                         *)
(* OpenSSL is external.  What it may answer is nondeterministic, until a   *)
(* fatal error (`broken'); what it demands of its caller is recorded: an   *)
(* SSL_write that returned WANT_READ or WANT_WRITE must be repeated with   *)
(* the same plaintext (`record').                                          *)
(*                                                                         *)
(* A plaintext byte is the position at which it was accepted, by           *)
(* queue_write or by the first SSL_write of a direct write().              *)
(*                                                                         *)
(* One thread polls and runs the callbacks; producers on any thread call   *)
(* queue_write, which tests the socket before it takes the queue's mutex.  *)
(* poll() knows a connection by its descriptor number, which the OS gives  *)
(* out again: `conn' tells connections apart where poll() cannot.          *)
(***************************************************************************)
EXTENDS Integers, Sequences

CONSTANTS
    Server,     \* TRUE: an accepted peer, FALSE: a client
    Producers,  \* callers of queue_write, callbacks included
    Numbers,    \* descriptor numbers the OS may give this socket
    Sizes,      \* payload sizes
    Budget,     \* bytes one flush may send
    MaxBytes,   \* bound: plaintext bytes accepted in a behaviour
    MaxConns,   \* bound: connections in a behaviour
    MaxOps      \* bound: changes of the timeout during one handshake

ASSUME TlsAssumption ==
    /\ Server \in BOOLEAN /\ Sizes \subseteq Nat /\ Budget \in Nat \ {0}
    /\ Numbers \subseteq Nat \ {0}
    /\ MaxBytes \in Nat /\ MaxConns \in Nat /\ MaxOps \in Nat

VARIABLES
    conn, open,     \* connections made so far; the current one is valid and connected
    sockfd,         \* descriptor number (0: invalid)
    session,        \* session_ # nullptr
    tls,            \* the flags of the object
    due,            \* the handshake or shutdown deadline has passed
    queue,          \* event_socket's queued output
    call,           \* call[p]: size of the payload of p's queue_write that passed
                    \* the tests and waits for the mutex, or 0
    ossl,           \* external: the session's incomplete record, alerts sent and received
    direct,         \* bytes a caller of write() has to retry
    pc, flags,      \* poll(): where it is, and the readiness it got
    watch,          \* descriptor number poll() watched
    seen,           \* history: the connection behind it then
    sent,           \* bytes sent by this flush
    accepted,       \* plaintext bytes accepted so far
    ops,            \* changes of the timeout during this handshake
    wire,           \* history: plaintext given to OpenSSL on this connection
    badRetry        \* history: a retry had other plaintext than OpenSSL holds

pollVars == <<pc, flags, watch, seen, sent>>
connVars == <<conn, open, sockfd, session>>
histVars == <<wire, badRetry>>
vars == <<connVars, tls, due, queue, call, ossl, direct, pollVars, accepted, ops, histVars>>

\* What the object and an OpenSSL session keep between calls.
Flags == [tls_ready : BOOLEAN, need_write : BOOLEAN,
          send_need_read : BOOLEAN, recv_need_write : BOOLEAN,
          pending_write : Seq(Nat), pending_write_queued : BOOLEAN,
          ssl_failed : BOOLEAN, peer_notified_close : BOOLEAN,
          shutdown_requested : BOOLEAN, shutdown_notify_sent : BOOLEAN,
          shutdown_need_write : BOOLEAN, shutdown_need_read : BOOLEAN]
Sessions == [record : Seq(Nat), broken : BOOLEAN, notified : BOOLEAN, peer_notified : BOOLEAN]

\* The flags as init_session leaves them.
Fresh == [tls_ready |-> FALSE, need_write |-> ~Server,
          send_need_read |-> FALSE, recv_need_write |-> FALSE,
          pending_write |-> <<>>, pending_write_queued |-> FALSE,
          ssl_failed |-> FALSE, peer_notified_close |-> FALSE,
          shutdown_requested |-> FALSE, shutdown_notify_sent |-> FALSE,
          shutdown_need_write |-> FALSE, shutdown_need_read |-> FALSE]
\* As close() leaves them.
Cleared == [Fresh EXCEPT !.need_write = FALSE]
NewSession == [record |-> <<>>, broken |-> FALSE, notified |-> FALSE, peer_notified |-> FALSE]

Init ==
    /\ conn = 0 /\ open = FALSE /\ sockfd = 0 /\ session = FALSE /\ tls = Cleared /\ due = FALSE
    /\ queue = <<>> /\ call = [p \in Producers |-> 0] /\ ossl = NewSession /\ direct = <<>>
    /\ pc = "idle" /\ flags = {} /\ watch = 0 /\ seen = 0 /\ sent = 0
    /\ accepted = 0 /\ ops = 0
    /\ wire = <<>> /\ badRetry = FALSE

Prefix(seq, n) == SubSeq(seq, 1, n)
Suffix(seq, n) == SubSeq(seq, n + 1, Len(seq))
Bytes(n) == [k \in 1..n |-> accepted + k]

-------------------------------------------------------------------------------
(* close, connect                                                          *)

\* close(): the session, every flag, the queue and the descriptor.  The alert it
\* may still write leaves no trace here: the session is freed.
Teardown ==
    /\ session' = FALSE /\ open' = FALSE /\ sockfd' = 0 /\ tls' = Cleared /\ due' = FALSE
    /\ queue' = <<>> /\ direct' = <<>> /\ ossl' = NewSession /\ ops' = 0
    /\ UNCHANGED <<conn, call, accepted, histVars>>

\* The application's code runs between polls and in the callbacks of a poll.
UserRuns == pc \in {"idle", "failed", "data", "read_failed", "flush_failed"}

Close == UserRuns /\ open /\ Teardown /\ UNCHANGED pollVars

\* connect(), or, once, the constructor of an accepted peer: close the old
\* connection, make a new one, whose number may be the old one's, and start_client /
\* init_session.  A connect() that fails leaves what close() leaves.
Connect ==
    /\ UserRuns /\ conn < MaxConns
    /\ Server => conn = 0
    /\ conn' = conn + 1
    /\ open' = TRUE /\ sockfd' \in Numbers /\ session' = TRUE /\ tls' = Fresh /\ due' = FALSE
    /\ queue' = <<>> /\ direct' = <<>> /\ ossl' = NewSession /\ wire' = <<>> /\ ops' = 0
    /\ UNCHANGED <<call, pollVars, accepted, badRetry>>

-------------------------------------------------------------------------------
(* Output: queue_write, write, send_tls                                    *)

\* Mutant: queue_write does not ask for a shutdown.
QueueWriteTestLate(p, n) ==
    /\ call[p] = 0 /\ open /\ n # 0 /\ accepted + n <= MaxBytes
    /\ call' = [call EXCEPT ![p] = n]
    /\ UNCHANGED <<connVars, tls, due, queue, ossl, direct, pollVars, accepted, ops, histVars>>

\* queue_write up to the mutex, on any thread.  A call that returns here changes
\* nothing.
QueueWriteTest(p, n) ==
    /\ call[p] = 0 /\ open /\ n # 0 /\ accepted + n <= MaxBytes
    /\ ~tls.shutdown_requested          \* poll_accepts_queued_write
    /\ call' = [call EXCEPT ![p] = n]
    /\ UNCHANGED <<connVars, tls, due, queue, ossl, direct, pollVars, accepted, ops, histVars>>

\* The rest of it, under the mutex that a flush holds: all of the payload, or
\* nothing if there is no room.  What became of the socket is not asked again.
QueueWriteLocked(p) ==
    /\ call[p] # 0 /\ pc # "send"
    /\ call' = [call EXCEPT ![p] = 0]
    /\ \/ UNCHANGED <<queue, accepted>>
       \/ /\ accepted + call[p] <= MaxBytes
          /\ queue' = queue \o Bytes(call[p])
          /\ accepted' = accepted + call[p]
    /\ UNCHANGED <<connVars, tls, due, ossl, direct, pollVars, ops, histVars>>

\* The guards of send_tls, in their order.
SendRejected(data, queued) ==
    ~tls.tls_ready \/ ~session \/ (tls.shutdown_requested /\ ~queued)
\* Mutant: a direct write does not wait for the queue.
SendOvertakes(data, queued) ==
    tls.pending_write # <<>> /\ queued # tls.pending_write_queued

SendBlocked(data, queued) ==
    \/ ~queued /\ tls.pending_write = <<>> /\ queue # <<>>
    \/ tls.pending_write # <<>> /\ queued # tls.pending_write_queued

SendMismatch(data, queued) ==
    LET n == Len(tls.pending_write) IN
    /\ n # 0
    /\ \/ Len(data) < n
       \/ ~queued /\ Len(data) # n
       \/ Len(data) >= n /\ Prefix(data, n) # tls.pending_write
SendReaches(data, queued) ==
    /\ ~SendRejected(data, queued) /\ ~SendBlocked(data, queued)
    /\ ~SendMismatch(data, queued)

\* Mutant: a retry passes all the data it has now.
PlaintextAll(data) == data

\* What SSL_write is called with.
Plaintext(data) ==
    IF tls.pending_write # <<>> THEN Prefix(data, Len(tls.pending_write)) ELSE data

Misuse(plain) == ossl.record # <<>> /\ plain # ossl.record

NoPending == [tls EXCEPT !.pending_write = <<>>, !.pending_write_queued = FALSE,
                         !.send_need_read = FALSE]

\* SSL_write took k bytes: the record is complete.  After SSL_shutdown it takes
\* nothing: it fails.
Written(plain, k) ==
    /\ ~ossl.broken /\ ~ossl.notified
    /\ tls' = NoPending
    /\ ossl' = [ossl EXCEPT !.record = <<>>]
    /\ wire' = wire \o Prefix(plain, k)
    /\ badRetry' = (badRetry \/ Misuse(plain))

\* WANT_READ or WANT_WRITE: the record must be retried.
Retry(plain, queued, wants) ==
    /\ ~ossl.broken /\ ~ossl.notified
    /\ tls' = [tls EXCEPT !.send_need_read = (wants = "READ"),
                          !.pending_write = IF @ = <<>> THEN plain ELSE @,
                          !.pending_write_queued = IF tls.pending_write = <<>> THEN queued ELSE @]
    /\ ossl' = [ossl EXCEPT !.record = plain]
    /\ badRetry' = (badRetry \/ Misuse(plain))
    /\ UNCHANGED wire

WriteFailed ==
    /\ tls' = [NoPending EXCEPT !.ssl_failed = TRUE]
    /\ ossl' = [ossl EXCEPT !.broken = TRUE, !.record = <<>>]
    /\ UNCHANGED <<wire, badRetry>>

\* A call of write(): new data, or the data of an earlier call that would block.
\* A call refused by send_tls changes nothing.
WriteDirect(data) ==
    /\ UserRuns /\ open /\ data # <<>>
    /\ accepted + Len(data) <= MaxBytes \/ data = direct
    /\ SendReaches(data, FALSE)
    /\ LET plain == Plaintext(data) IN
       /\ \/ \E k \in 1..Len(plain) : Written(plain, k) /\ direct' = <<>>
          \/ \E wants \in {"READ", "WRITE"} : Retry(plain, FALSE, wants) /\ direct' = plain
          \/ WriteFailed /\ direct' = <<>>
    /\ accepted' = IF data = direct THEN accepted ELSE accepted + Len(data)
    /\ UNCHANGED <<connVars, due, queue, call, pollVars, ops>>

DirectWrites == {Bytes(n) : n \in Sizes} \union {direct}

-------------------------------------------------------------------------------
(* Deadlines and graceful shutdown                                         *)

\* Mutant: only the handshake has a deadline.
HandshakeDeadline ==
    /\ session /\ ~tls.tls_ready /\ ~due
    /\ due' = TRUE
    /\ UNCHANGED <<connVars, tls, queue, call, ossl, direct, pollVars, accepted, ops, histVars>>

\* steady_clock reaches the deadline that is set.
DeadlinePasses ==
    /\ session /\ (~tls.tls_ready \/ tls.shutdown_requested) /\ ~due
    /\ due' = TRUE
    /\ UNCHANGED <<connVars, tls, queue, call, ossl, direct, pollVars, accepted, ops, histVars>>

SetHandshakeTimeout ==
    /\ UserRuns /\ session /\ ~tls.tls_ready /\ ops < MaxOps
    /\ due' = FALSE /\ ops' = ops + 1
    /\ UNCHANGED <<connVars, tls, queue, call, ossl, direct, pollVars, accepted, histVars>>

Shutdown(t) == [t EXCEPT !.shutdown_requested = TRUE, !.shutdown_notify_sent = FALSE,
                         !.shutdown_need_write = FALSE, !.shutdown_need_read = FALSE]

BeginGracefulShutdown ==
    /\ UserRuns
    /\ tls.tls_ready /\ session /\ open /\ ~tls.ssl_failed /\ ~tls.peer_notified_close
    /\ tls.pending_write # <<>> => tls.pending_write_queued
    /\ ~tls.shutdown_requested
    /\ tls' = Shutdown(tls) /\ due' = FALSE
    /\ UNCHANGED <<connVars, queue, call, ossl, direct, pollVars, accepted, ops, histVars>>

-------------------------------------------------------------------------------
(* poll(): readiness and poll_step                                         *)

\* Mutant: queued output does not ask for writability.
WantsWriteUnqueued ==
    IF ~tls.tls_ready THEN tls.need_write ELSE tls.recv_need_write

PollWantsWrite ==
    IF ~tls.tls_ready THEN tls.need_write
    ELSE IF tls.shutdown_requested /\ queue = <<>>
    THEN tls.shutdown_need_write \/ (~tls.shutdown_notify_sent /\ ~tls.shutdown_need_read)
    ELSE tls.recv_need_write \/
         (/\ ~tls.send_need_read
          /\ ~(tls.pending_write # <<>> /\ ~tls.pending_write_queued)
          /\ queue # <<>>)

\* A poll that found this socket ready for f, or found its deadline due.
Poll(f) ==
    /\ pc = "idle" /\ open /\ session
    /\ "OUT" \in f => PollWantsWrite
    /\ f = {} => due
    /\ pc' = "step" /\ flags' = f /\ watch' = sockfd /\ seen' = conn /\ sent' = 0
    /\ UNCHANGED <<connVars, tls, due, queue, call, ossl, direct, accepted, ops, histVars>>

Readable == flags \cap {"IN", "HUP"} # {}
Writable == "OUT" \in flags
Stepping == pc = "step" /\ session

\* poll() goes on.  A local is forgotten once nothing reads it any more.
Goto(place) ==
    /\ pc' = place
    /\ flags' = CASE place = "read" -> flags
                  [] place \in {"data", "flush"} -> flags \cap {"IN", "OUT"}
                  [] OTHER -> {}
    /\ IF place \in {"idle", "failed"} THEN watch' = 0 /\ seen' = 0 ELSE UNCHANGED <<watch, seen>>
    /\ sent' = 0
StepOnly == UNCHANGED <<connVars, due, queue, call, direct, accepted, ops, histVars>>

\* return -1: on_error runs, then poll() closes the socket.
StepFails == Goto("failed") /\ StepOnly

StepDue ==
    /\ Stepping /\ due /\ (~tls.tls_ready \/ tls.shutdown_requested)
    /\ StepFails /\ UNCHANGED <<tls, ossl>>

HandshakeStep ==
    /\ Stepping /\ ~tls.tls_ready /\ ~due
    /\ IF flags \cap {"ERR", "HUP"} # {}
       THEN StepFails /\ UNCHANGED <<tls, ossl>>
       ELSE IF (tls.need_write /\ ~Writable) \/ (~tls.need_write /\ ~Readable)
       THEN Goto("idle") /\ StepOnly /\ UNCHANGED <<tls, ossl>>
       ELSE /\ \/ /\ tls' = [tls EXCEPT !.tls_ready = TRUE, !.need_write = FALSE]
                  /\ ops' = 0 /\ Goto("idle")             \* on_connect
                  /\ UNCHANGED <<connVars, due, queue, call, direct, accepted, histVars>>
               \/ /\ \E w \in BOOLEAN : tls' = [tls EXCEPT !.need_write = w]
                  /\ Goto("idle") /\ StepOnly
               \/ StepFails /\ UNCHANGED tls
            /\ UNCHANGED ossl

\* Established and no shutdown: go on to application data.
ReadyStep ==
    /\ Stepping /\ tls.tls_ready /\ ~tls.shutdown_requested
    /\ IF "ERR" \in flags
       THEN tls' = [tls EXCEPT !.ssl_failed = TRUE] /\ StepFails
       ELSE UNCHANGED tls /\ Goto("read") /\ StepOnly
    /\ UNCHANGED ossl

Shutting == Stepping /\ tls.tls_ready /\ tls.shutdown_requested /\ ~due

\* return 3: poll() closes the socket.
ShutdownOver == Teardown /\ Goto("idle")

ShutdownFails ==
    IF tls.peer_notified_close THEN ShutdownOver
    ELSE tls' = [tls EXCEPT !.ssl_failed = TRUE] /\ StepFails /\ UNCHANGED ossl

ShutdownBroken ==
    /\ Shutting
    /\ \/ "ERR" \in flags /\ ShutdownFails
       \/ "ERR" \notin flags /\ tls.peer_notified_close /\ "HUP" \in flags /\ ShutdownOver

ShutdownReaches ==
    /\ Shutting
    /\ "ERR" \notin flags /\ ~(tls.peer_notified_close /\ "HUP" \in flags)

\* Queued output first.
ShutdownFlushes ==
    /\ ShutdownReaches /\ queue # <<>>
    /\ Goto("read") /\ StepOnly /\ UNCHANGED <<tls, ossl>>

ShutdownWaits ==
    \/ tls.shutdown_need_read /\ ~Readable
    \/ tls.shutdown_need_write /\ ~Writable
    \/ /\ ~tls.shutdown_need_read /\ ~tls.shutdown_need_write
       /\ IF tls.shutdown_notify_sent THEN "IN" \notin flags ELSE ~Writable

ShutdownPending ==
    /\ ShutdownReaches /\ queue = <<>> /\ ShutdownWaits
    /\ Goto("idle") /\ StepOnly /\ UNCHANGED <<tls, ossl>>

\* SSL_shutdown: our alert is written, waits, or was written and the peer's is
\* awaited.  WANT_WRITE leaves the alert queued in OpenSSL, which counts as sent.
SslShutdown ==
    /\ ShutdownReaches /\ queue = <<>> /\ ~ShutdownWaits
    /\ \/ /\ ~ossl.broken                                  \* 1
          /\ ossl.peer_notified \/ ossl.notified
          /\ ShutdownOver
       \/ /\ ~ossl.broken                                  \* 0
          /\ ~ossl.notified /\ ~ossl.peer_notified
          /\ tls' = [tls EXCEPT !.shutdown_notify_sent = TRUE,
                                !.shutdown_need_write = FALSE, !.shutdown_need_read = TRUE]
          /\ ossl' = [ossl EXCEPT !.notified = TRUE]
          /\ Goto("idle") /\ StepOnly
       \/ \E wants \in {"READ", "WRITE"} :
          /\ ~ossl.broken
          /\ wants = "READ" => ossl.notified
          /\ tls' = [tls EXCEPT !.shutdown_notify_sent = TRUE,
                                !.shutdown_need_write = (wants = "WRITE"),
                                !.shutdown_need_read = (wants = "READ")]
          /\ ossl' = [ossl EXCEPT !.notified = TRUE]
          /\ Goto("idle") /\ StepOnly
       \/ ShutdownFails

-------------------------------------------------------------------------------
(* poll(): reading and flushing                                            *)

PollReadReady ==
    (~tls.send_need_read /\ Readable) \/ (tls.recv_need_write /\ Writable)

\* The results of poll_receive: application data; the peer's close_notify, which
\* begins our shutdown; a wait for either direction; a fatal error.
ReceivesData ==
    /\ ~ossl.peer_notified /\ ~ossl.broken
    /\ tls' = [tls EXCEPT !.recv_need_write = FALSE]
    /\ UNCHANGED <<due, ossl>>
ReceivesNotify ==
    /\ ossl.broken => ossl.peer_notified
    /\ tls' = IF tls.shutdown_requested
              THEN [tls EXCEPT !.peer_notified_close = TRUE]
              ELSE Shutdown([tls EXCEPT !.peer_notified_close = TRUE])
    /\ due' = (due /\ tls.shutdown_requested)
    /\ ossl' = [ossl EXCEPT !.peer_notified = TRUE]
ReceivesNothing ==
    /\ ~ossl.peer_notified /\ ~ossl.broken
    /\ \E w \in BOOLEAN : tls' = [tls EXCEPT !.recv_need_write = w]
    /\ UNCHANGED <<due, ossl>>
ReceiveFails ==
    /\ ~ossl.peer_notified
    /\ tls' = [tls EXCEPT !.ssl_failed = TRUE]
    /\ ossl' = [ossl EXCEPT !.broken = TRUE]
    /\ UNCHANGED due

\* poll() receives at most once, and calls on_data or on_error.
Receive ==
    /\ pc = "read" /\ PollReadReady /\ session
    /\ \/ ReceivesData /\ Goto("data")
       \/ (ReceivesNotify \/ ReceivesNothing) /\ Goto("flush")
       \/ ReceiveFails /\ Goto("read_failed")
    /\ UNCHANGED <<connVars, queue, call, direct, accepted, ops, histVars>>

\* A call of read(), or one iteration of read_line(): the caller gets the result
\* and poll() learns of it by the flags only.
ReadDirect ==
    /\ UserRuns /\ session /\ tls.tls_ready
    /\ ReceivesData \/ ReceivesNotify \/ ReceivesNothing \/ ReceiveFails
    /\ UNCHANGED <<connVars, queue, call, direct, pollVars, accepted, ops, histVars>>

NothingToRead ==
    /\ pc = "read" /\ ~PollReadReady
    /\ Goto("flush") /\ StepOnly /\ UNCHANGED <<tls, ossl>>

PollQueueReady ==
    /\ ~(tls.pending_write # <<>> /\ ~tls.pending_write_queued)
    /\ queue # <<>>
    /\ IF tls.send_need_read THEN "IN" \in flags ELSE Writable

\* if (... s->is_valid_socket() && s->sockfd == watch.fd && s->poll_queue_ready(flags))
Flush ==
    /\ pc = "flush"
    /\ Goto(IF open /\ sockfd = watch /\ PollQueueReady THEN "send" ELSE "idle")
    /\ StepOnly /\ UNCHANGED <<tls, ossl>>

\* One SSL_write of flush_queued.  Of the early returns of send_tls only the first
\* is met here, as RetrySame shows: SendRefused.
Offer == Prefix(queue, IF Len(queue) <= Budget - sent THEN Len(queue) ELSE Budget - sent)
Sending == pc = "send" /\ queue # <<>> /\ sent < Budget
SendOnly == UNCHANGED <<connVars, due, call, direct, accepted, ops>>

SendTakes(k) ==
    /\ Sending /\ SendReaches(Offer, TRUE)
    /\ k <= Len(Plaintext(Offer))
    /\ Written(Plaintext(Offer), k)
    /\ queue' = Suffix(queue, k) /\ sent' = sent + k
    /\ UNCHANGED <<pc, flags, watch, seen>> /\ SendOnly

SendWants(wants) ==
    /\ Sending /\ SendReaches(Offer, TRUE)
    /\ Retry(Plaintext(Offer), TRUE, wants)
    /\ Goto("idle") /\ UNCHANGED queue /\ SendOnly

SendFails ==
    /\ Sending /\ SendReaches(Offer, TRUE)
    /\ WriteFailed /\ queue' = <<>>
    /\ Goto("flush_failed") /\ SendOnly

\* The session is not established: the queue is dropped like after a failed write.
SendRefused ==
    /\ Sending /\ SendRejected(Offer, TRUE)
    /\ queue' = <<>> /\ UNCHANGED <<tls, ossl, histVars>>
    /\ Goto("flush_failed") /\ SendOnly

SendDone ==
    /\ pc = "send" /\ ~Sending
    /\ Goto("idle") /\ StepOnly /\ UNCHANGED <<tls, ossl>>

\* After the callbacks: a failed step closes whatever connection the socket has
\* now, a failed read or flush the one that has the number that was watched.
AfterCallbacks ==
    \/ /\ pc = "data"
       /\ Goto("flush") /\ StepOnly /\ UNCHANGED <<tls, ossl>>
    \/ /\ pc \in {"failed", "read_failed", "flush_failed"}
       /\ Goto("idle")
       /\ IF open /\ (pc = "failed" \/ sockfd = watch)
          THEN Teardown ELSE StepOnly /\ UNCHANGED <<tls, ossl>>

PollStep ==
    \/ StepDue \/ HandshakeStep \/ ReadyStep
    \/ ShutdownBroken \/ ShutdownFlushes \/ ShutdownPending \/ SslShutdown
    \/ Receive \/ NothingToRead \/ Flush
    \/ (\E k \in 1..Budget : SendTakes(k)) \/ (\E wants \in {"READ", "WRITE"} : SendWants(wants))
    \/ SendFails \/ SendRefused \/ SendDone
    \/ AfterCallbacks

PollAny == \E f \in SUBSET {"IN", "OUT", "HUP", "ERR"} : Poll(f)

UserStep ==
    \/ Close
    \/ Connect
    \/ \E data \in DirectWrites : WriteDirect(data)
    \/ ReadDirect
    \/ SetHandshakeTimeout
    \/ BeginGracefulShutdown

Producing == \E p \in Producers : (\E n \in Sizes : QueueWriteTest(p, n)) \/ QueueWriteLocked(p)

Next == UserStep \/ Producing \/ DeadlinePasses \/ PollAny \/ PollStep

Spec == Init /\ [][Next]_vars

\* The application keeps polling and its callbacks return; time passes.
FairSpec == Spec /\ WF_vars(PollAny) /\ WF_vars(PollStep) /\ WF_vars(DeadlinePasses)

\* A connection that makes progress: a direction that is asked for again and
\* again becomes ready, and OpenSSL sometimes takes what it is offered.
Progress ==
    /\ SF_vars(Poll({"IN"})) /\ SF_vars(Poll({"OUT"}))
    /\ SF_vars(\E k \in 1..Budget : SendTakes(k))

-------------------------------------------------------------------------------
(* Properties                                                              *)

\* Type invariant of the TLS socket and of the poll that drives it.
TypeOK ==
    /\ conn \in Nat /\ open \in BOOLEAN /\ sockfd \in Nat /\ session \in BOOLEAN /\ due \in BOOLEAN
    /\ tls \in Flags /\ call \in [Producers -> Nat]
    /\ queue \in Seq(Nat) /\ direct \in Seq(Nat) /\ wire \in Seq(Nat)
    /\ ossl \in Sessions
    /\ pc \in {"idle", "step", "read", "data", "flush", "send",
               "failed", "read_failed", "flush_failed"}
    /\ flags \subseteq {"IN", "OUT", "HUP", "ERR"}
    /\ watch \in Nat /\ seen \in Nat /\ sent \in Nat /\ accepted \in Nat /\ ops \in Nat
    /\ badRetry \in BOOLEAN

\* OpenSSL gets the same plaintext on every retry of a record, whichever of
\* write() and the flush started it and whatever was queued meanwhile; and the
\* early returns of send_tls never stop a flush, which would cost it the queue and
\* the connection, because a retry that now has more bytes or meets a direct
\* write was taken for another write.  The one that asks for an established session
\* stops it only if a callback of this poll replaced the connection by one with
\* the same descriptor number.
RetrySame ==
    /\ TypeOK
    /\ ~badRetry
    /\ Sending => /\ ~SendBlocked(Offer, TRUE) /\ ~SendMismatch(Offer, TRUE)
                  /\ SendRejected(Offer, TRUE) => conn # seen

\* The peer reads bytes in the order in which they were accepted: a direct
\* write never overtakes queued output, nor queued output a started direct write.
DirectDoesNotOvertake ==
    \A i \in 1..(Len(wire) - 1) : wire[i] < wire[i + 1]

\* Our close_notify comes last.  It goes out when no output is queued, and cuts no
\* record of queued output in two; only the caller of a direct write() may be left
\* with one it can no longer complete, when the peer began the shutdown.  No
\* application data is written after it.  And once the calls of queue_write that
\* had passed their tests before the shutdown are over, the shutdown accepts no
\* more output, queued or direct.
NotifyIsLast ==
    [][/\ (~ossl.notified /\ ossl'.notified) =>
              /\ queue = <<>>
              /\ ossl.record # <<>> => direct = ossl.record /\ tls.peer_notified_close
       /\ ossl.notified /\ conn' = conn => wire' = wire
       /\ (/\ tls.shutdown_requested /\ tls'.shutdown_requested
           /\ \A p \in Producers : call[p] = 0) => UNCHANGED <<accepted, call>>]_vars

\* A silent peer holds nothing for ever: a handshake completes or the connection
\* is closed at its deadline, and a shutdown, begun by either side, ends with the
\* connection closed, whatever is still queued or half written.
StepsEnd ==
    /\ session /\ ~tls.tls_ready ~> tls.tls_ready \/ ~session
    /\ tls.shutdown_requested ~> ~tls.shutdown_requested

\* On a connection that makes progress, queued output is sent or discarded: the
\* readiness the socket asks for and the readiness it acts on never leave it
\* waiting, unless the caller of a direct write owes OpenSSL a retry or the
\* connection was closed before the payload got into the queue.
QueuedOutputLeaves == Progress => (queue # <<>> ~> (queue = <<>> \/ direct # <<>> \/ ~open))
===============================================================================
