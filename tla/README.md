# libaeon: a TLA+ model

libaeon is a small C++ networking library: blocking TCP, UDP and TLS sockets,
and event sockets that an `event_socket_set` polls and that report through
callbacks. This directory models the parts of it that keep state, checks them
with TLC on small instances, and proves their safety properties with TLAPS for
every instance.

To check a run: `tlc -workers 2 -config WriteQueue_threads.cfg MCWriteQueue`
(every `.cfg` is named after the module it belongs to: `X_name.cfg` goes with
`MCX`). To check the proofs: `tlapm XProofs.tla` for each of the eight modules
whose name ends so. The correspondence of definitions and source lines is in
`PROJECT.json` under `map`; paths below are relative to the repository root.

## The system

| Component | State | Operations | Talks to |
|---|---|---|---|
| `socket`, `client_socket` (`src/socket.cpp`) | descriptor, `connected`, `blocking`, error code, three timeouts | connect, listen, accept, close, `read`, `read_until`, `read_line`, `write`, mode and timeout setters | kernel; every other class derives from it |
| `event_socket`, `client_event_socket` | deque of chunks, offset in the first, byte count, limit, handler table, a mutex | `queue_write`, `flush_queued`, `close`, `set_max_queued_bytes`, `on(...)` | producers on any thread, the polling thread |
| `event_socket_set` | two registries of tokens, a poll mutex; locals of a poll: snapshot, timeout, deadline | `add`, `remove`, `poll` | event sockets, through tokens; user callbacks; the steady clock |
| `server_event_socket`, `socket_set`, `peer_collection` | owned peers, member view, `closing_peers` flag | accept, `listen`, `close`, `remove_peer`, `broadcast` | peers' handlers, which call the server again |
| `ssl_event_socket` | TLS session, twelve flags, two deadlines, pending plaintext | `poll_step`, `poll_wants_*`, `send_tls`, `recv_tls`, `begin_shutdown`, `close` | OpenSSL, `event_socket_set::poll` |
| `udp_socket`, `udp_server_socket`, event variants | descriptor, family, destination, logical peers | connect, listen (rebind), send, receive, `get_peer`, `remove_peer`, close | kernel; user handlers |
| `ssl_socket`, `ssl_client_socket`, `ssl_server_socket` | descriptor, `SSL` object, verification settings | connect, accept, close, reads, writes | OpenSSL |
| Pong example (`example/pong*`) | server: two seats, the field, a sequence number; client: player number, last snapshot, timers | join, move, heartbeat, quit, step, stop and start; rejoin | each other, by UDP datagrams |
| `address`, `resolver`, `aeon.cpp` | none | conversions, version, error texts | |

What is hard here:

* **Threads.** `queue_write` may run on any thread beside the polling thread;
  `add` and `remove` may run beside `poll()`.
* **Callbacks.** Almost every step of `poll()`, of a close and of a broadcast can
  run user code, which may close, reconnect, deregister or destroy the very
  object whose method is on the stack. Whatever was read before a callback is
  stale after it.
* **Partial progress.** Short sends, short reads, `EINTR`, `EAGAIN`,
  `WANT_READ` and `WANT_WRITE`, in every place.
* **Deadlines.** TLS handshakes and shutdowns, timed connects and reads, and a
  wait in milliseconds for points of a finer clock.
* **Datagrams** that are lost, repeated and reordered, between programs that
  stop and start independently.

What makes each component correct:

* output queue: bounded; what is accepted is sent once, in order, on the
  connection it was accepted for; drain is reported exactly when it happened;
* registries and poll: no callback for a registration that has gone, no use of a
  destroyed socket, no close or failure report aimed at another connection;
* the wait of `poll()`: in time for every deadline, no busy loop, no return
  without a reason;
* peers: one owner each, destroyed once; closing the listener closes them all;
  calls that reenter one another return;
* TLS event socket: OpenSSL's rule that a retry repeats its plaintext; order of
  direct and queued output; `close_notify` last; nothing waits for ever;
* TCP socket: no received byte lost; end of stream, failure and mode as reported;
* UDP socket: descriptors neither leaked nor closed early; one member for an
  endpoint, of the present binding; datagrams go where the caller meant;
* blocking TLS: the `SSL` object belongs to the live descriptor; only a verified
  connection is usable; a failure releases everything;
* Pong: one seat for an endpoint; a client that is gone loses its seat, one that
  stays finds a restarted server; what one side sends the other side accepts.

## Modules

| Module | Models | Style |
|---|---|---|
| `OutputStream` | what buffered output promises: a bounded FIFO of bytes | abstract specification |
| `WriteQueue` | `event_socket.cpp`: chunks, flush, close, reconnect | implements `OutputStream` |
| `EventSocketSet` | `event_socket_set.cpp`: tokens, registries, `poll()` | script per ready descriptor |
| `PollWait` | `event_socket_set.cpp`: the waiting loop and `poll_readable`; `poll_timeout_ms` | a clock of distances |
| `PeerCollection` | `socket_set.cpp`, `server_event_socket.cpp`, `tcp_listen` | explicit call stack |
| `SslEventSocket` | `ssl_event_socket.cpp` as `poll()` drives it | flags and an OpenSSL model |
| `StreamSocket` | `socket.cpp`, `client_socket.cpp` | one call at a time, peer beside it |
| `UdpSocket` | `udp_socket.cpp`, `udp_server_socket.cpp`, event variants | rebind in steps, reentrant close |
| `SslSocket` | `ssl_socket.cpp`, `ssl_client_socket.cpp`, `ssl_server_socket.cpp` | life of descriptor and `SSL` object |
| `PongField` | one step of the game, what the client accepts | pure functions |
| `Pong` | `pong_server.cpp`, `pong-server.cpp`, `pong-client.cpp` | two programs and a lossy network |
| `WriteQueueProofs`, `EventSocketSetProofs`, `PollWaitProofs`, `PeerCollectionProofs`, `StreamSocketProofs`, `UdpSocketProofs`, `PongProofs` | theorems about the module they are named after (`PongProofs`: about `PongField` too) | TLAPS |
| `TlsProofs` | theorems about `SslSocket` and `SslEventSocket` | TLAPS |
| `MC...` | constants for TLC | |

Operators whose comment starts with "Mutant:" are not used by the
specifications. Each is a plausible bug, and replacing the definition that
follows it by the mutant makes TLC refute a property: `PROJECT.json`, `mutants`.

**WriteQueue.** `chunks`, `front_offset`, `bytes` and `limit` are the fields of
`event_socket::state`. A byte is the position at which it was accepted, so
loss, duplication and reordering on the wire are visible. `queue_write` is two
actions, the test of the socket (`QueueWriteTest`) and the part under the mutex
(`QueueWriteLocked`), because another thread can run between them. A flush holds
the mutex from `FlushEnter` to its last send and takes one action for each
`send`: some bytes, `EINTR`, would-block, or a fatal error. `close()` clears the
queue, closes the descriptor and runs `on_close` in separate steps. Producers run
beside the polling thread at every step. Unsigned subtraction wraps at `SizeMax`.
The `on_close` handler of the `close()` inside `tcp_connect` may connect, close and
queue output itself: the outer call waits on `stack`, and when the handler returns
it overwrites the descriptor and goes on (`MaxDepth` bounds how many calls wait at a
time). Elsewhere a call made in a callback has the effect of one made right after
it. Bytes stored for a connection that such a handler made are told apart by the
history `nested`; those that the outer connection then takes over are `Carried`.

**EventSocketSet.** A token is a number; `active` holds those whose flag is set.
`poll()` takes its snapshot (TCP, then UDP), looks at one registration after the
other (`PollWatch`), waits, and dispatches each watched descriptor as a *script*: the
checks, callbacks and closes of the code, in the code's order. Between two entries
user code may do anything it may do in a callback, and another thread may register
and deregister. A set-level handler takes two steps, the check of the token
(`CheckSet`, `CheckSetSame`) and the call (`FireSet`), which asks for nothing again:
`late` records the tokens that another thread deactivates in between.
`gen` tells connections with the same number apart, which the code cannot do.

**PollWait.** What `EventSocketSet` leaves out: when a poll stops waiting. A point
in time is the number of ticks until it comes, and a millisecond is several
ticks, so that rounding in `poll_timeout_ms` (up) and after `EINTR` (down) is what
it is in the code. `Tick` may happen between any two steps. A socket is here its
registration and its deadline; `SetDeadline` stands for a handshake or a graceful
shutdown that begins, and the dispatch at the end of a poll is one step that ends
some of them. `elapsed` and `signalled` are history.

**PeerCollection.** One thread, with the calls in progress on `stack`. Peers are
object addresses and are reused after destruction. Handlers may call the server
again, retire peers and throw; `PerTurn` bounds how many peers they retire in one
turn of the loop of `close_owned_peers`, counted on the frame of that loop. `accept()` without a result (`AcceptFails`) is a step
of its own, since it uses up a call and must leave everything as it was.

**SslEventSocket.** `tls` holds the flags of the object under their names. OpenSSL
is external: any answer it may give is given, and what it demands of its caller
(`ossl.record`) is recorded. The deadline comparison is the flag `due`, set by
`DeadlinePasses` while a deadline is armed. A direct `read()` (`ReadDirect`) has the
same results as the one `poll()` makes, and tells `poll()` by flags only. Producers
call `queue_write` on any thread: the tests (`QueueWriteTest`) and the append under
the mutex (`QueueWriteLocked`) are two actions, with `call` between them, so that a
payload may be appended after a shutdown, a close or a reconnect. `sockfd` is the
descriptor number, one of `Numbers`, which a reconnect may get again; `poll()`
compares it with `watch` as the code does, and what it can then meet, a flush of a
connection whose handshake is not over, is `SendRefused`. `conn` and `seen` are
history. The limit of the queue is here a payload that may find no room. Reconnects
from the `on_close` handler inside `connect()` are in `WriteQueue`.

**StreamSocket.** Reads and writes of one thread, the peer sending, closing and
resetting in between, and signals that interrupt a blocking `recv`. The limit of
`read_line`, `max_buffer_size`, is `BufferSize` instead of 256. A timed connect makes
the descriptor non-blocking and a guard restores the mode when it is destroyed.

**UdpSocket.** `udp_listen` tries its candidates one by one and swaps the live
descriptor on success. An address carries family, host, whether it is the mapped
form of an IPv4 address, and scope, which is all `same_udp_address` and
`send_datagram` look at. A server owns its peers, and looks a peer up in the member
view that `peers()` returns: an owned peer that is `listed` is in it, and
`MembersRemove` (`peers().remove`) takes it out and leaves it owned.

**SslSocket.** The steps of `connect()` and `accept()` at which something can
fail, and what each failure releases, the one of `server_socket::accept` after a
completed handshake (`PeerDropped`) included. A blocking `SSL_accept` goes on only when the
remote end speaks or leaves. Its specification is `SslSpec`, its variables `sslVars`
and so on, so that one module can extend it together with `SslEventSocket`.

**PongField, Pong.** `FieldStep` is `step()` of the server with both players seated,
without the scores; `Parses` is the client's `parse_state`, whose ranges are
constants of their own because the client is another program. `Pong` is the
protocol: commands J, H (with U, D and N) and Q, answers W, FULL and snapshots, in a
set of datagrams from which any may be lost and a copy of any may stay behind.
Clients in `Clients` are modelled in detail; those in `Others` are programs that
send any command at any time. A sequence number matters only by comparison, and
numbers of two server processes compare in any way, so a snapshot is `cur` or
`old` by its process. `ServerStop` followed by `ServerStart` is a stop in the same
process, which keeps its number; `ServerRestart` is a new process. A client that
crashes is one that quits and whose Q is lost. `ServerStep` is one step of
`advance()`; its cap on catching up only makes time pass more slowly.

## Runs

Bounds are small, but each lets the cases that matter happen; they are named in
the modules' `CONSTANTS`.

| Run | Shows | Bounds, and why they suffice |
|---|---|---|
| `WriteQueue_threads` | limit never exceeded; deque, offset and counter agree; every connection gets accepted bytes in order, and its own, those apart that the connection of a handler inside `connect()` leaves behind; drain exact; queued bytes leave; the queue implements `OutputStream` | 2 producers, 3 bytes, 2 connections, coalescing limit 2, budget 3, request limit 2, queue limits 1 and 3, one call waiting for its handler: chunks are coalesced, split, partly sent and popped, budgets and limits are hit, a second connection follows a failed one, or is made inside the first one's `connect()` (368,883 states) |
| `EventSocketSet_callbacks` | registries agree; no destroyed socket is read; set-level callbacks only for registrations that no callback has removed, once a poll; failures and closes hit the connection that was watched; `poll()` ends | a plain stream, a TLS stream, a listener, a UDP socket; 3 registrations and 4 operations of callbacks and of another thread: remove, re-add, destroy and reconnect in one poll; descriptor numbers reused (555,377 states) |
| `PollWait_clock` | wakes up in time for every deadline and its own timeout; returns for a reason; no busy loop; every deadline is served | 2 sockets, 3 ticks in a millisecond, timeouts -1, 0 and 2, deadlines of 1 and 2 ms: deadlines before, at and after the timeout, and fractions on both sides of a rounding |
| `PeerCollection_calls` | one owner for each peer, and `closing_peers` set exactly while its loop runs; the loop leaves no old peer open; every call returns | 3 peers, 5 calls, depth 5, one retirement in a turn of the loop: enough for the vector to shift under an index |
| `SslEventSocket_session` | retries repeat their plaintext and are recognised; order; nothing written after `close_notify`; handshakes and shutdowns end; queued output leaves | 3 bytes, 2 connections, descriptor numbers 3 and 4, payloads of 1 and 2, budget 2, 1 producer beside the poller, 1 change of the timeout in a handshake: a chunk grows while it is being retried, a payload comes after a shutdown, a reconnect gets the old number and another one (306,499 states) |
| `StreamSocket_calls` | every received byte is delivered; end of stream is real; failures are explained; mode restored; lines end at CR LF; `read_until` returns | 3 bytes of CR, LF and other, reads of 2 and 4, buffer 4, 2 addresses: a CR LF ends before, at and after the room for a line (844,218 states) |
| `UdpSocket_peers` | descriptors owned and in the right mode; active peers of the present binding, one member for an endpoint; sends reach it and its senders are it; failed rebinds change nothing | 1 host in its 5 address forms, 4 descriptors, 3 other calls: a peer leaves the view and its endpoint comes back (930,354 states) |
| `SslSocket_connect` | `SSL` object on the live descriptor, and nothing left after a failure; usable means verified | 4 descriptors, 3 changes of settings |
| `Pong_network` | one seat for an endpoint; snapshots acceptable; seats of clients that are gone expire; a client that stays follows the server through restarts | 1 client in detail and 2 others, who can take both seats; 2 datagrams in flight, 1 duplicate, 1 stop, a seat expires after 2 steps: a welcome, a FULL or a join is overtaken, and arrives from before a restart; the board has its real size |
| `EventSocketSet_tls` | **violation** of `ClosesWhatItWatched` | see Findings |
| `PeerCollection_retire` | **violation** of `CloseAllComplete` | see Findings |
| `SslSocket_accept` | **violation** of `AcceptReturns` | see Findings |

Deadlock is not checked where the bounds on user calls let the system come to
rest (`CHECK_DEADLOCK FALSE`); in the other runs it is.

### Fairness

* `WriteQueue`: an application keeps polling and its callbacks return, even if
  producers keep calling in between (strong fairness of `FlushEnter` and of the
  return of `close()`, weak fairness of the other ends of callbacks); calls that
  have begun end, connects that waited for a handler included; and a transport that is asked
  again and again sometimes takes a byte (strong fairness of `FlushSent`), as
  with a peer that reads. Nothing is assumed of new calls.
* `EventSocketSet`, `PeerCollection`: the library's steps are taken and handlers
  return or throw. A handler that never returns blocks the thread in any design.
* `SslEventSocket`: polling goes on and time passes (`DeadlinePasses`); the
  deadlines are the only thing that ends a handshake with a silent peer.
  `QueuedOutputLeaves` further assumes `Progress`: a direction asked for again
  and again becomes ready, and OpenSSL sometimes takes what it is offered.
* `PollWait`: time passes; the application polls again whenever a poll has
  returned; and the native call neither fails nor is interrupted every time
  (strong fairness of `NativeTimedOut`). No descriptor need ever become ready.
* `Pong`: the server steps and is started again after its stop; the client's clock
  runs; a datagram that is sent again and again sometimes arrives, and the network
  does not stay full. Nothing is assumed of quits, or of the other programs.
* `StreamSocket`: the thread inside `read_until` runs when it is not blocked. It is
  not assumed that a signal ever comes.
* `SslSocket`: the thread runs when OpenSSL has input or the connection has gone.
  It is *not* assumed that a remote end ever speaks.

## Findings

1. `event_socket_set.cpp:369`. After a failed TLS step, `poll()` runs two error
   callbacks and then closes the socket if it is still registered and valid. The
   other two such places (lines 407 and 432) also compare the descriptor. An error
   handler that reconnects has its new connection closed, with or without reuse
   of descriptor numbers.
2. `socket_set.cpp:71`. `close_owned_peers` keeps its index when the slot no longer
   holds the peer it closed. If that peer's handler retired the peer itself and
   one before it, the vector has shifted by two and one peer is skipped.
3. `ssl_server_socket.cpp:84`. The handshake timeout is stored in fields that only
   `socket::read` and `socket::write` look at; `SSL_accept` on the blocking
   descriptor is not subject to it, although the header promises it.

## Proofs

Each theorem has the form `Spec => []P` or, for an action property, `Spec => P`,
and holds for every value of the constants that satisfies the named assumptions of
its module. These say that sizes, bounds and switches have their types, that sets of
sockets are finite, and what the code's constants satisfy (`Budget` and `IntMax` are
positive, a buffer has room for two bytes, a millisecond has a tick). Bounds such as
`MaxOps` are constants like the others, so the theorems hold for behaviours of any
length. No theorem uses fairness.

| Module | Theorem | Property |
|---|---|---|
| `WriteQueueProofs` | `TypeCorrect` | `TypeOK` |
| | `Bounded` | `BytesWithinLimit`: `limit - bytes` never wraps |
| | `Consistent` | `QueueConsistent`: chunks, offset and counter agree |
| | `StreamIntact` | `WireIsStream`: in order, none twice, no gap without an error |
| | `Isolated` | `ConnectionIsolation` |
| | `DrainReported` | `DrainExact` |
| | `Refines` | `ImplementsStream`: the queue implements `OutputStream` |
| `EventSocketSetProofs` | `RegistryTheorem` | `RegistryConsistent` |
| | `NoUseAfterDestroyTheorem` | `NoUseAfterDestroy` |
| | `FanoutTheorem` | `FanoutIsRegistered` |
| | `ActsOnWatchedTheorem` | `ActsOnWatched` |
| `PollWaitProofs` | `OversleepTheorem` | `NeverOversleeps` |
| | `ReasonTheorem` | `ReturnsForAReason` |
| | `NoBusyLoopTheorem` | `NoBusyLoop` |
| `PeerCollectionProofs` | `OwnershipTheorem` | `OwnershipConsistent` |
| | `CloseAllTheorem` | `CloseAllComplete`, if `PerTurn <= 1` |
| `StreamSocketProofs` | `StreamTheorem` | `ReadsAreTheStream` |
| | `EofTheorem` | `EofIsReal` |
| | `ExplainedTheorem` | `FailureExplained` |
| | `ModeTheorem` | `ModeRestored` |
| | `LineTheorem` | `LineBoundary` |
| `UdpSocketProofs` | `DescriptorsTheorem` | `DescriptorsOwned` |
| | `PeersTheorem` | `PeersAreCurrent` |
| | `EndpointsTheorem` | `EndpointsAgree` |
| | `RebindTheorem` | `RebindAllOrNothing` |
| `TlsProofs` | `SessionTheorem` | `SessionOnOwnDescriptor` |
| | `VerifiedTheorem` | `UsableIsVerified` |
| | `RetryTheorem` | `RetrySame`: a retry of `SSL_write` repeats its plaintext |
| | `OvertakeTheorem` | `DirectDoesNotOvertake` |
| | `NotifyTheorem` | `NotifyIsLast` |
| `PongProofs` | `FieldStaysSound`, `SnapshotsAccepted` | `SnapshotsParse` |
| | `SeatsStayDistinct` | `SeatsDistinct` |

The arguments, and why each inductive invariant is what it is:

**Output queue.** `BytesWithinLimit` and `QueueConsistent` need each other: that the
subtraction does not wrap follows from the first, and that a flush leaves the
counter non-negative from the second. Their conjunction with the types is the
inductive invariant `QInv`. The lemmas about the deque (append, coalesce,
advance, pop) are stated about `Holds`, a predicate of a sequence, an offset and
two counters, and each action is one of these operations or leaves the queue
alone. `WireIsStream` is not inductive, because nothing in it ties the next byte
to be sent to the last one that was: `WInv` adds that the newest byte on the wire
of the present connection is older than everything queued, and adjacent to it
unless an error was reported. For `ConnectionIsolation` the queue has to be tied to
the connection (`OriginInv`): a queued byte was stored for none (`Unclaimed`), or for
the connection in use or one whose output that connection carries. From the clearing
of the queue in `close()` to the next descriptor it was stored for none, also while
a `connect()` is about to replace the descriptor (`Replacing`), unless a handler has
connected inside it: then that connection is `nested`, and the outer one carries its
output, which is the exception the property names. For `DrainExact`, `FlushInv` says of a flush that holds the mutex that
exactly the bytes it found and that are no longer queued are on the wire. `Refines`
maps the stream's queue to the chunks themselves, one after the other
(`FlattenSeq`) and without the part of the first that is sent. `QueueConsistent`
says that these are the newest `bytes` accepted bytes (`QueuedIsNewest`), from which
it follows that a `send` delivers the oldest queued bytes and that a payload is
appended whole. What the recursive function inside `FlattenSeq` computes is shown
without induction: a closed form satisfies its equation, and two solutions cannot
differ at a first place (`ConcatenatesOnce`).

**Registries and dispatch.** `PollInv` joins three facts. A registered object exists
(`RegInv`). The snapshot names each socket once, across what is watched and what is
still to be looked at (`SnapshotInv`). And the steps of a script that do not ask for
the registration, on the socket, a close or a call of a set-level handler, stand
only at its head: right after the check they belong to and before any other
callback, so on the object and descriptor just checked (`ScriptInv`). No destroyed
object is read, therefore, and the token of a call is active or was removed by
another thread since its check (`late`), which gives `FanoutIsRegistered`. `ActsOnWatched` follows because, where
the OS does not reuse numbers, the same number is the same connection (`NumbersInv`).

**Waiting.** `NeverOversleeps` is not inductive: a signal starts the native wait
again from the deadline that `poll_readable` keeps, so `WaitInv` bounds that one
too (`UntilBounds`). The other two properties need why a wait is as long as it is
(`UntilForAReason`) and that only signals make it end early, by less than a
millisecond (`WaitEndsAtUntil`): this is where rounding up and rounding down meet.

**Peers.** `PeerInv` adds to the ownership claim what the call stack says: each peer
on its way out is there once, and `close_owned_peers` is on the stack at most once.
For `CloseAllComplete`, `LoopInv` says that everything before the index of the loop was
closed or accepted since, and the current slot too if it still holds the peer that
this turn closed. One retirement in a turn moves the vector by one place at most,
and the loop then keeps its index. The hypothesis `PerTurn <= 1` is needed: with 2
the run `PeerCollection_retire` refutes the property (finding 2).

**TCP socket.** What was delivered and what a `read_until` or `read_line` in progress
holds is what was received (`DeliveredInv`); a socket that is not connected has a peer
whose stream has ended or none (`EndInv`); the caller's mode is in the socket or in
the guard of a timed attempt (`ModeInv`); the part of a line read so far does not
contain both a CR and an LF (`LineInv`), so a line ends with the second of the two to
come, and that is the LF of a CR LF if every LF follows a CR; and an attempt that failed has left a
cause, and no guard that could clear it (`AttemptInv`).

**UDP socket.** Descriptors are numbered as they are made and a candidate of a rebind
is not the live one (`CandidatesAreNew`); a client has no peers (`ClientHasNoPeers`),
or its change of descriptor would leave them behind. `SameIsEndpoint` shows that
`same_udp_address` compares endpoints, for every host, form and scope, from which
one member for an endpoint follows: a peer is added to the view only when the view
has none for its address, and `remove` only makes the view smaller. That an active
peer is of the present binding is about all owned peers.

**Blocking TLS.** `SslInv` says at each stage of `connect()` and `accept()` what exists:
no `SSL` object while connecting, one on the live descriptor in the handshake, and
between calls only one that has finished and was accepted.

**TLS event socket.** None of the three properties is inductive. `TlsInv` adds to the
types four facts. `RecordIsPending`: the record that OpenSSL holds is `pending_write`,
and that is what a caller of `write()` has to pass again or, if it came from a flush,
a prefix of the queue within the budget. So the queue may grow behind a retry, and
the retry still passes the same bytes. `PollKnows`: up to the first callback of a
poll the connection is the one it watched, with its handshake complete; after it
the connection may be another one, with the same number, but one without an
established session has no pending record, so that a flush meets one only with its
first `SSL_write` and its whole budget; with the former this gives `RetrySame`.
`StreamOrder`: what is on the wire was accepted before what a direct write still
owes, and that before what is queued, which gives `DirectDoesNotOvertake`.
`NotifyClosesOutput`: our alert goes out in a shutdown only, with nothing queued, and
a shutdown that finds a direct write unfinished was begun by the peer; after it
`SSL_write` fails, so a payload that a producer appends late (`Appends`) is not
written; and while no call is past its tests (`QuietCalls`) a shutdown lets none
begin, which gives `NotifyIsLast`. Steps are sorted (`StepKinds`) into those that leave output alone,
those that drop it with its connection, those that move the polling thread on, and
the five that queue, encrypt, retry or give up bytes.

**Pong.** From the start, `FieldStep` for any moves and the reset after a departure
keep paddles and ball on the board, and every field on the board is in the ranges
of `parse_state`. The set `Fields` is the inductive invariant of the game: that it is
closed under both functions is the induction step, which TLC evaluates for all
115,200 fields of the real board. Assumed (`ViewAssumption`) is that the numbers in
the client fit the server's board, as 24, 12 and 9 do; TLC evaluates that too.
`SeatsDistinct`: a join is answered with the seat its sender has or with a free one,
so the claim together with the types is inductive; the type of `net` is needed
because what a join does depends on who can send one.

### Only model-checked

* Liveness is outside the prover's reach: `OutputLeaves`, `PollEnds`,
  `DeadlineServed`, `CallsReturn`, `StepsEnd`, `QueuedOutputLeaves`, `UntilReturns`,
  `GhostsExpire`, `ClientFollows`.

All other properties of the passing runs are theorems.

## Known limits

Definitions that TLC refutes for constants the code allows, and that no run
claims. They say where the guarantees above stop.

* `queue_write` tests the socket before it takes the mutex (`event_socket.cpp:113`).
  A payload whose test came before a close may be stored after it, for no
  connection, and go out on the next one, or be stored for the next one directly.
  `ConnectionIsolation` is about what was stored while a connection was up.
* `tcp_connect` clears the queue in its `close()` and overwrites the descriptor after
  the `on_close` handler (`socket.cpp:1107-1108`). If the handler connected and
  queued output, that connection's descriptor leaks and its output leaves on the
  outer call's connection. `ConnectionIsolation` excepts exactly these bytes.
* `NoNullToken` with `Threads = TRUE`: `event_socket_set.cpp:338` reads the token
  twice in one condition; another thread may deactivate it in between.
* A set-level handler may run for a socket that another thread has removed since the
  token was checked (`event_socket_set.cpp:341-348` for a listener, and the other
  calls of `fire_on_socket_*`). `FanoutIsRegistered` excepts these removals (`late`).
* `event_socket_set.cpp:342` compares descriptor numbers, and POSIX gives a
  reconnecting socket the number it had. `ActsOnWatched` therefore lets `poll()` act
  on a new connection with the old number (`StillWatched`).
* The comment at `event_socket_set.cpp:420` says that a replaced socket is noticed
  before the flush; only the number is compared. If an `on_data` handler of a TLS
  socket reconnects, gets the same number and queues output, the flush finds no
  established session, drops the queue (`event_socket.cpp:177`) and the new
  connection is closed (line 433). `RetrySame` excepts this case, `conn # seen`.
* `begin_graceful_shutdown` is to "stop new writes" (`ssl_event_socket.hpp:37`), but
  a producer whose test of `shutdown_requested_` came before it may append after it,
  even after `SSL_shutdown`: it is told that the payload was accepted, the next
  `SSL_write` fails, and the connection is closed with an error. `NotifyIsLast` is
  about what is written, and about calls that begin in the shutdown.
* `PollWait`: the clock is read (`event_socket_set.cpp:306`) and the native wait
  begins (lines 172, 175) in one step; a thread that is suspended between the two
  wakes up later by as much. Further, a native call that fails every time starves the deadlines, since
  `poll()` returns before it looks at them (`event_socket_set.cpp:311`); a socket
  registered by another thread during an infinite poll is unseen until that poll
  returns; a finite poll that was interrupted may return up to a millisecond early
  (line 179), and one shortened to a deadline that is removed meanwhile returns at
  that deadline's time.
* `ListenerOwned`: `tcp_listen` (`socket.cpp:1232`) overwrites `sockfd` after a
  `close()` whose handler may have listened again; that descriptor leaks.
  `tcp_connect` has the same shape at line 1108.
* `BroadcastDefined`: `socket_set.cpp:200` holds iterators across write handlers.
* `NoUseAfterRetire`: `event_socket.cpp:278` uses the object after its `on_error`
  handler, which may have retired it.
* A shutdown begun by the peer while a direct `write()` owes OpenSSL a retry sends
  `close_notify` inside a record (`ssl_event_socket.cpp:388`); `NotifyIsLast` excepts
  exactly this case.
* The `read_line` of blocking TLS (`ssl_socket.cpp`) drops what it has read when
  `SSL_read` fails; bytes are not modelled there.
* Pong: a delayed Q ends the match of a player who has joined again; a delayed FULL
  ends a client that is seated by now; a delayed W tells a client a seat it no
  longer has until the next one; a lost U, D or N is not sent again, as the client
  takes its direction for told.
* `LineEndsWithCRLF`: `read_line` (`socket.cpp:690`) ends a line when it has seen
  a CR and an LF, in either order and not necessarily adjacent; the comments at
  lines 683 and 730 say "until CRLF" and "Line terminator found (CRLF)". TLC finds
  a line that ends with LF CR. `LineBoundary` states what holds: the comments are
  right for a peer that sends every LF after a CR, and no CR LF is read past.
* `ModeAgrees`: an untimed `tcp_connect` (`socket.cpp:1107`) makes a blocking
  descriptor although `blocking` is false. `ModeRestored` excludes this case.
* UDP: after `peers().remove(i)` the peer is still owned, and the next `get_peer` or
  datagram makes a second owned peer for its endpoint
  (`udp_server_socket.cpp:42-49` searches the view); both may be active.
  `PeersAreCurrent` claims one *member* for an endpoint. Sockets that the
  application adds to the view itself, an owned peer twice for instance, are not
  modelled.
* `server_socket::accept` returns no peer if `set_blocking` fails after a completed
  TLS handshake (`server_socket.cpp:46`), with the server's error code cleared.
* UDP: an `on_close` handler that listens again has the peers it then makes
  closed when the outer `close()` resumes; `PeersAreCurrent` allows this.
* `remove(index)` (`event_socket_set.cpp:198`) reads a size and locks again; an
  index has no stable meaning for a caller with concurrent removals, and the
  model takes it as one step.
* A reentrant `poll()` calls `try_lock` on a mutex its own thread holds
  (`event_socket_set.cpp:261`), which the standard leaves undefined; the model
  takes the documented result, -1.

## Not modelled

* `address`, `resolver`: stateless conversions around the C library.
* `aeon.cpp`, `native_error.hpp`: version and error texts.
* Event handler tables: pointers replaced under a mutex, one snapshot for each
  dispatch; the models let every callback run or not.
* `ssl_server_event_socket`: certificate loading; its ownership is that of
  `PeerCollection`, its sessions those of `SslEventSocket`.
* Address accessors, certificate files; of socket options only the error paths.
* The chat and HTTP examples: one buffer for each connection, parsed as text, over
  the life cycle of `PeerCollection`. (`http_server.cpp` closes connections beyond
  its limit but leaves them owned until the server closes.)
* The drawing and the keyboard of `pong-client.cpp`; the tests.

## Plan

What would come next:

1. Reads and writes of blocking TLS (`ssl_socket.cpp`).
2. Composition: `EventSocketSet` with `PeerCollection` (accepted peers registered
   in the set), and `WriteQueue` under `SslEventSocket`.
