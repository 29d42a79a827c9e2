---------------------------- MODULE StreamSocket ----------------------------
(***************************************************************************)
(* One blocking TCP socket (src/socket.cpp, src/client_socket.cpp): the    *)
(* reads, writes, mode and timeout setters, connection attempts and        *)
(* close() of one thread, and the peer at the other end.                   *)
(*                                                                         *)
(* The kernel is external: what the peer has sent on this connection is    *)
(* `stream', of which recv() has taken the first `taken' bytes.  Bytes are *)
(* carriage returns, line feeds and others.  fcntl() on an open descriptor *)
(* is taken to succeed; close(), connect(), select() and send() may fail.  *)
(***************************************************************************)
EXTENDS Integers, Sequences

CONSTANTS
    Sizes,          \* capacities a caller passes
    BufferSize,     \* socket::max_buffer_size
    MaxAddresses,   \* bound: addresses a name resolves to
    MaxBytes,       \* bound: bytes the peer sends on a connection
    MaxConns,       \* bound: connection attempts
    MaxOps          \* bound: calls of setters

ASSUME StreamAssumption ==
    /\ Sizes \subseteq Nat \ {0} /\ BufferSize \in Nat \ {0, 1} /\ MaxAddresses \in Nat \ {0}
    /\ MaxBytes \in Nat /\ MaxConns \in Nat /\ MaxOps \in Nat

VARIABLES
    valid,          \* is_valid_socket()
    nonblock,       \* O_NONBLOCK of the descriptor
    connected, blocking, error_code,
    timeout,        \* which of the three timeouts are positive
    peer,           \* external: "none", "open", "closed", "reset", "dead"
    stream, taken,  \* external: bytes sent by the peer, bytes received
    call,           \* the call in progress
    last,           \* what the last call returned
    delivered,      \* history: positions of the bytes the caller was given
    wanted,         \* history: the mode the caller asked for last
    untold,         \* history: the descriptor was made by an untimed connect
    conns, ops      \* counters

netVars == <<peer, stream, taken>>
modeVars == <<nonblock, blocking, wanted, untold>>
vars == <<valid, modeVars, connected, error_code, timeout, netVars,
          call, last, delivered, conns, ops>>

Bytes == {"CR", "LF", "other"}

\* A call in progress: what it wants and has got; of a connection attempt the
\* addresses left and its stage, and the mode its guard, if it has one, will restore.
Calling(op, want) == [op |-> op, want |-> want, got |-> 0, timed |-> FALSE, original |-> TRUE]
Idle == Calling("none", 0)
NoResult == [op |-> "none", n |-> 0, want |-> 0, ended |-> FALSE]
Result(op, n, want) == [op |-> op, n |-> n, want |-> want, ended |-> FALSE]
Free == call = Idle

-----------------------------------------------------------------------------
(* The peer and the kernel.                                                *)

PeerSends(b) ==
    /\ peer = "open" /\ Len(stream) < MaxBytes
    /\ stream' = Append(stream, b)
    /\ UNCHANGED <<valid, modeVars, connected, error_code, timeout, peer, taken,
                   call, last, delivered, conns, ops>>

\* The peer closes in order, or resets the connection.
PeerLeaves(how) ==
    /\ peer = "open"
    /\ peer' = how
    /\ UNCHANGED <<valid, modeVars, connected, error_code, timeout, stream, taken,
                   call, last, delivered, conns, ops>>

Unread == Len(stream) - taken
Readable == Unread > 0 \/ peer # "open"

Smaller(a, b) == IF a < b THEN a ELSE b

\* The results of recv(): bytes, 0 at the end of the stream, -1 for an error.
\* A reset is reported once and discards what was not read.  A descriptor with
\* nothing to give would block, or blocks until a signal interrupts it.
Recv(size) ==
    CASE peer \in {"none", "reset"} -> {-1}
      [] peer \in {"open", "closed"} /\ Unread > 0 -> {Smaller(size, Unread)}
      [] peer = "dead" \/ (peer = "closed" /\ Unread = 0) -> {0}
      [] OTHER -> {-1}

\* The outcomes of socket::read(buffer, size) on a valid descriptor: those of
\* wait_for_readable, then those of recv().
ReadOutcomes(size) ==
    LET waits == "read" \in timeout
        failed == [n |-> -1, error |-> "native", eof |-> FALSE, reset |-> FALSE]
        late == [n |-> 0, error |-> "timeout", eof |-> FALSE, reset |-> FALSE]
    IN (IF waits THEN {failed} ELSE {})
       \cup (IF waits /\ ~Readable THEN {late} ELSE {})
       \cup {[n |-> n, error |-> IF n < 0 THEN "native" ELSE "none", eof |-> n = 0,
              reset |-> n < 0 /\ peer = "reset"] :
                n \in IF waits /\ ~Readable THEN {} ELSE Recv(size)}

\* Mutant: a timeout counts as the end of the stream.
StaysConnectedZero(o) == connected /\ o.n # 0

\* Whether the socket is still connected after an outcome of read().
StaysConnected(o) == connected /\ ~o.eof

\* What recv() did to the connection.
Receive(n, reset) ==
    /\ taken' = IF n > 0 THEN taken + n ELSE taken
    /\ peer' = IF reset THEN "dead" ELSE peer
    /\ UNCHANGED stream

\* The caller gets the n bytes received last.
Deliver(n) == delivered' = delivered \o [i \in 1..n |-> taken' - n + i]

-----------------------------------------------------------------------------
(* Reading.                                                                *)

\* read(buffer, size), read(int) and read(), which passes its own buffer.  Of
\* these read(int) refuses a call without a descriptor and sets no error.
Read(size) ==
    /\ Free
    /\ IF ~valid
       THEN /\ error_code' \in {"no_socket", error_code} /\ last' = Result("read", -1, size)
            /\ UNCHANGED <<connected, netVars, delivered>>
       ELSE \E o \in ReadOutcomes(size) :
              /\ Receive(o.n, o.reset)
              /\ connected' = StaysConnected(o) /\ error_code' = o.error
              /\ Deliver(IF o.n > 0 THEN o.n ELSE 0)
              /\ last' = Result("read", o.n, size)
    /\ UNCHANGED <<valid, modeVars, timeout, call, conns, ops>>

ReadUntil(size) ==
    /\ Free
    /\ IF ~valid
       THEN error_code' = "no_socket" /\ last' = Result("until", -1, size) /\ UNCHANGED call
       ELSE call' = Calling("until", size) /\ last' = NoResult
            /\ UNCHANGED error_code
    /\ UNCHANGED <<valid, modeVars, connected, timeout, netVars, delivered, conns, ops>>

\* Mutant: only an error ends the loop.
UntilGoesOnZero(n, total, size) == n >= 0 /\ total < size

\* An iteration of the loop of read_until: it goes on while read() returns bytes.
UntilGoesOn(n, total, size) == n > 0 /\ total < size

\* Mutant: an error hides the bytes read before it.
UntilTotalDropped(n, total) == IF n < 0 THEN 0 ELSE total

\* The count it returns when its last read() returned n.
UntilTotal(n, total) == total

ReadUntilStep ==
    /\ call.op = "until"
    /\ \E o \in ReadOutcomes(call.want - call.got) :
         LET total == IF o.n > 0 THEN call.got + o.n ELSE call.got IN
         /\ Receive(o.n, o.reset)
         /\ connected' = StaysConnected(o) /\ error_code' = o.error
         /\ IF UntilGoesOn(o.n, total, call.want)
            THEN call' = [call EXCEPT !.got = total] /\ UNCHANGED <<last, delivered>>
            ELSE /\ call' = Idle /\ last' = Result("until", UntilTotal(o.n, total), call.want)
                 /\ Deliver(UntilTotal(o.n, total))
    /\ UNCHANGED <<valid, modeVars, timeout, conns, ops>>

\* read_line: at most one byte less than the smaller of both buffers.
ReadLine(size) ==
    LET room == Smaller(size, BufferSize) - 1 IN
    /\ Free
    /\ IF ~valid \/ room = 0
       THEN last' = Result("line", IF valid THEN 0 ELSE -1, room) /\ UNCHANGED call
       ELSE call' = Calling("line", room) /\ last' = NoResult
    /\ UNCHANGED <<valid, modeVars, connected, error_code, timeout, netVars,
                   delivered, conns, ops>>

\* The last n received bytes.
Line(n, upto) == SubSeq(stream, upto - n + 1, upto)
Holds(line, b) == \E i \in 1..Len(line) : line[i] = b
\* Mutant: a carriage return ends the line.
LineEndedCarriage(line) == Holds(line, "CR")

\* bCarriage && bLinefeed: both were seen, in whatever order.
LineEnded(line) == Holds(line, "CR") /\ Holds(line, "LF")

ReadLineStep ==
    /\ call.op = "line"
    /\ \E n \in Recv(1) :
         LET got == IF n > 0 THEN call.got + n ELSE call.got
             ended == n > 0 /\ LineEnded(Line(got, taken + n))
         IN
         /\ Receive(n, n < 0 /\ peer = "reset")
         /\ connected' = (connected /\ n # 0)
         /\ error_code' = IF n < 0 THEN "native" ELSE error_code
         /\ IF n > 0 /\ ~ended /\ got < call.want
            THEN call' = [call EXCEPT !.got = got] /\ UNCHANGED <<last, delivered>>
            ELSE /\ call' = Idle /\ Deliver(got)
                 /\ last' = [Result("line", got, call.want) EXCEPT !.ended = ended]
    /\ UNCHANGED <<valid, modeVars, timeout, conns, ops>>

-----------------------------------------------------------------------------
(* Writing: write(data, size) with its timeout, the string overloads without. *)

Write(size, timed) ==
    /\ Free
    /\ \E n \in -1..size :
         /\ n = 0 => timed /\ valid /\ "write" \in timeout
         /\ n > 0 => valid /\ peer \in {"open", "closed"}
         /\ last' = Result("write", n, size)
         /\ error_code' = CASE ~valid -> "no_socket" [] valid /\ n < 0 -> "native"
                            [] n = 0 -> "timeout" [] OTHER -> "none"
    /\ UNCHANGED <<valid, modeVars, connected, timeout, netVars, call, delivered, conns, ops>>

-----------------------------------------------------------------------------
(* Settings and close().                                                   *)

SetBlocking(flag) ==
    /\ Free /\ ops < MaxOps
    /\ IF valid
       THEN /\ nonblock' = ~flag /\ blocking' = flag /\ error_code' = "none"
            /\ wanted' = flag /\ untold' = FALSE
       ELSE error_code' = "no_socket" /\ UNCHANGED modeVars
    /\ ops' = ops + 1 /\ last' = NoResult
    /\ UNCHANGED <<valid, connected, timeout, netVars, call, delivered, conns>>

SetTimeout(which, ms) ==
    /\ Free /\ ops < MaxOps
    /\ timeout' = CASE ms < 0 -> timeout [] ms = 0 -> timeout \ {which} [] ms > 0 -> timeout \cup {which}
    /\ error_code' = IF ms < 0 THEN "invalid_argument" ELSE "none"
    /\ ops' = ops + 1 /\ last' = NoResult
    /\ UNCHANGED <<valid, modeVars, connected, netVars, call, delivered, conns>>

\* set_tcp_nodelay, set_so_reuseaddr, set_so_linger and set_ipv6_v6only: the
\* option itself is the kernel's, and setsockopt() may refuse it.
SetOption ==
    /\ Free /\ ops < MaxOps
    /\ error_code' \in IF valid THEN {"none", "native"} ELSE {"no_socket"}
    /\ ops' = ops + 1 /\ last' = NoResult
    /\ UNCHANGED <<valid, modeVars, connected, timeout, netVars, call, delivered, conns>>

\* The effect of socket::close() on a valid descriptor.
CloseFd ==
    /\ valid' = FALSE /\ connected' = FALSE /\ peer' = "none"
    /\ stream' = <<>> /\ taken' = 0 /\ delivered' = <<>>

Close ==
    /\ Free /\ valid
    /\ CloseFd
    /\ \E e \in {error_code, "native"} : error_code' = e
    /\ last' = NoResult
    /\ UNCHANGED <<modeVars, timeout, call, conns, ops>>

-----------------------------------------------------------------------------
(* Connecting.                                                             *)

\* tcp_connect(hostname, port): arguments refused, no address found, or n
\* addresses to try.  tcp_connect(address) is a name with one address.
Connect(n) ==
    /\ Free /\ conns < MaxConns
    /\ conns' = conns + 1
    /\ IF n = 0
       THEN error_code' = "no_host" /\ last' = Result("connect", 0, 1) /\ UNCHANGED call
       ELSE call' = Calling("connect", n) /\ last' = NoResult
            /\ UNCHANGED error_code
    /\ UNCHANGED <<valid, modeVars, connected, timeout, netVars, delivered, ops>>

\* Mutant: the error that set_blocking() clears is not restored.
GuardLeaveForgets(e) ==
    [nonblock |-> ~call.original, blocking |-> call.original, error |-> "none"]

\* Mutant: a failed descriptor is closed before the guard leaves.
GuardLeaveClosed(e) ==
    IF e = "none" THEN [nonblock |-> ~call.original, blocking |-> call.original, error |-> e]
                  ELSE [nonblock |-> TRUE, blocking |-> FALSE, error |-> "no_socket"]

\* The guard of a timed attempt: construction sets O_NONBLOCK, destruction
\* restores the caller's mode and the error of the attempt.
GuardEnter(flag) == [nonblock |-> TRUE, blocking |-> FALSE, original |-> flag]
GuardLeave(e) == [nonblock |-> ~call.original, blocking |-> call.original, error |-> e]

\* tcp_connect(address) up to connect(): the old descriptor is closed and a
\* new one made, which starts in blocking mode.
AttemptOpen ==
    /\ call.op = "connect"
    /\ call.got = 0
    /\ connected' = FALSE /\ peer' = "none" /\ stream' = <<>> /\ taken' = 0 /\ delivered' = <<>>
    /\ \/ /\ valid' = FALSE /\ error_code' = "no_socket"
          /\ call' = [call EXCEPT !.got = 2]
          /\ UNCHANGED modeVars
       \/ /\ valid' = TRUE
          /\ IF "connect" \in timeout
             THEN LET g == GuardEnter(blocking) IN
                  /\ nonblock' = g.nonblock /\ blocking' = g.blocking
                  /\ error_code' = "none" /\ untold' = FALSE
                  /\ call' = [call EXCEPT !.got = 1, !.timed = TRUE, !.original = g.original]
             ELSE /\ nonblock' = FALSE /\ untold' = TRUE
                  /\ call' = [call EXCEPT !.got = 1]
                  /\ UNCHANGED <<blocking, error_code>>
          /\ UNCHANGED wanted
    /\ UNCHANGED <<timeout, last, conns, ops>>

\* connect() ends; the guard, if any, leaves before a failed descriptor is closed.
AttemptEnd(e) ==
    LET g == GuardLeave(e) IN
    /\ call.op = "connect" /\ call.got = 1
    /\ e = "timeout" => call.timed
    /\ IF call.timed THEN nonblock' = g.nonblock /\ blocking' = g.blocking
                     ELSE UNCHANGED <<nonblock, blocking>>
    /\ IF e = "none"
       THEN /\ connected' = TRUE /\ peer' = "open" /\ error_code' = "none"
            /\ call' = Idle /\ last' = Result("connect", 1, 1)
            /\ UNCHANGED <<valid, stream, taken, delivered>>
       ELSE /\ CloseFd
            /\ error_code' \in {IF call.timed THEN g.error ELSE e, "native"}
            /\ call' = [call EXCEPT !.got = 2, !.timed = FALSE]
            /\ UNCHANGED last
    /\ UNCHANGED <<wanted, untold, timeout, conns, ops>>

\* The loop of tcp_connect(): the next address, or failure.
AttemptNext ==
    /\ call.op = "connect" /\ call.got = 2
    /\ IF call.want > 1
       THEN call' = [call EXCEPT !.want = @ - 1, !.got = 0] /\ UNCHANGED <<last, connected>>
       ELSE call' = Idle /\ last' = Result("connect", 0, 1) /\ connected' = FALSE
    /\ UNCHANGED <<valid, modeVars, error_code, timeout, netVars, delivered, conns, ops>>

-----------------------------------------------------------------------------
\* A socket made by the default constructor, which may get no descriptor, or
\* one that server_socket::accept made for a connection.
Init ==
    /\ \/ valid = TRUE /\ connected = FALSE /\ blocking = TRUE /\ error_code = "none"
       \/ valid = FALSE /\ connected = FALSE /\ blocking = TRUE /\ error_code = "no_socket"
       \/ valid = TRUE /\ connected = TRUE /\ blocking \in BOOLEAN /\ error_code = "none"
    /\ nonblock = ~blocking /\ wanted = blocking /\ untold = FALSE
    /\ peer = IF connected THEN "open" ELSE "none"
    /\ timeout = {} /\ stream = <<>> /\ taken = 0
    /\ call = Idle /\ last = NoResult /\ delivered = <<>> /\ conns = 0 /\ ops = 0

Next ==
    \/ \E b \in Bytes : PeerSends(b)
    \/ \E how \in {"closed", "reset"} : PeerLeaves(how)
    \/ \E size \in Sizes : Read(size) \/ ReadUntil(size) \/ ReadLine(size)
    \/ ReadUntilStep
    \/ ReadLineStep
    \/ \E size \in Sizes, timed \in BOOLEAN : Write(size, timed)
    \/ \E flag \in BOOLEAN : SetBlocking(flag)
    \/ \E which \in {"read", "write", "connect"}, ms \in -1..1 : SetTimeout(which, ms)
    \/ SetOption
    \/ Close
    \/ \E n \in 0..MaxAddresses : Connect(n)
    \/ AttemptOpen
    \/ \E e \in {"none", "native", "timeout"} : AttemptEnd(e)
    \/ AttemptNext

Spec == Init /\ [][Next]_vars

\* The thread in a call runs when it is not blocked in recv(); no signal need come.
FairSpec == Spec /\ WF_vars((nonblock \/ Readable \/ "read" \in timeout) /\ ReadUntilStep)

-----------------------------------------------------------------------------
(* Properties.                                                             *)

Errors == {"none", "native", "timeout", "no_socket", "no_host", "invalid_argument"}
CallsInProgress == [op : {"none", "until", "line", "connect"}, want : Nat, got : Nat,
                    timed : BOOLEAN, original : BOOLEAN]
Results == [op : {"none", "read", "until", "line", "write", "connect"}, n : Int, want : Nat,
            ended : BOOLEAN]

\* Types, and a connected socket has a descriptor.
TypeOK ==
    /\ valid \in BOOLEAN /\ nonblock \in BOOLEAN /\ blocking \in BOOLEAN
    /\ connected \in BOOLEAN /\ (connected => valid)
    /\ error_code \in Errors /\ timeout \subseteq {"read", "write", "connect"}
    /\ peer \in {"none", "open", "closed", "reset", "dead"}
    /\ stream \in Seq(Bytes) /\ taken \in 0..Len(stream)
    /\ call \in CallsInProgress /\ last \in Results /\ delivered \in Seq(Nat)
    /\ wanted \in BOOLEAN /\ untold \in BOOLEAN
    /\ conns \in 0..MaxConns /\ ops \in 0..MaxOps

\* The callers of read, read_until and read_line together get every byte that
\* was received on the connection, once and in order: no overload drops the
\* partial data of a call that ends early ("EOF, timeout, or OS error:
\* preserve partial data").
ReadsAreTheStream ==
    /\ TypeOK
    /\ Free => delivered = [i \in 1..taken |-> i]

\* An open descriptor counts as disconnected only after the peer has ended the
\* stream and all of it was read, or has reset it; never after a timeout, an
\* interrupted wait or a read that would block.
EofIsReal ==
    Free /\ valid /\ ~connected /\ peer # "none" =>
        \/ peer = "closed" /\ Unread = 0
        \/ peer = "dead"

\* Whoever gets less than asked for can tell why: get_error() has a cause, or,
\* for a read, the socket is no longer connected.  This holds through the guard
\* of a timed connect, whose destructor calls set_blocking(), which clears
\* error_code.
FailureExplained ==
    /\ \/ last.op = "write" /\ last.n <= 0
       \/ last.op = "connect" /\ last.n < last.want
       => error_code # "none"
    /\ \/ last.op = "read" /\ last.n <= 0
       \/ last.op = "until" /\ last.n < last.want
       \/ last.op = "line" /\ last.n < last.want /\ ~last.ended
       => error_code # "none" \/ ~connected

\* The mode the caller chose survives every connection attempt, successful or
\* not, and after a timed attempt or set_blocking() the descriptor has it too
\* ("Blocking mode is restored after the attempt").
ModeRestored ==
    Free => /\ blocking = wanted
            /\ valid /\ ~untold => nonblock = ~blocking

\* read_line ends at CR LF ("until CRLF", "Line terminator found (CRLF)"): it
\* never reads past a CR LF, reports the line complete there, and, if every LF
\* it read follows a CR, reports no other line complete, be it that its room was
\* used up between the two bytes, that a read failed or that bare CRs came
\* before.  With a bare LF the comment and the code differ: LineEndsWithCRLF.
LineBoundary ==
    last.op = "line" /\ last.n > 0 =>
        LET line == Line(last.n, taken)
            CRLF(k) == k > 0 /\ line[k] = "CR" /\ line[k + 1] = "LF"
            noBareLF == \A k \in 1..last.n : line[k] = "LF" => CRLF(k - 1)
        IN /\ last.n <= last.want
           /\ \A k \in 1..last.n - 1 : CRLF(k) => k + 1 = last.n /\ last.ended
           /\ noBareLF /\ last.ended => CRLF(last.n - 1)

\* What the comment on read_line says of every line reported complete.  The
\* code does not keep it: LF CR, or CR and LF with bytes between, end a line too.
LineEndsWithCRLF ==
    last.op = "line" /\ last.ended =>
        Line(2, taken) = <<"CR", "LF">>

\* A socket in non-blocking mode has a descriptor in non-blocking mode, and the
\* other way round ("In non-blocking mode, operations return immediately").
ModeAgrees ==
    Free /\ valid => nonblock = ~blocking

\* read_until with a read timeout, or in non-blocking mode, returns: it does
\* not spin at the end of the stream.
UntilReturns ==
    call.op = "until" /\ (nonblock \/ "read" \in timeout) ~> call.op # "until"
=============================================================================
