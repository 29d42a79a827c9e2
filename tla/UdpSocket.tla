------------------------------ MODULE UdpSocket ------------------------------
(***************************************************************************)
(* One UDP socket, a client or a server with its logical peers             *)
(* (src/udp_socket.cpp, src/udp_server_socket.cpp and the event variants). *)
(* A rebind binds candidate descriptors and swaps the live one only on     *)
(* success.  A server owns logical peers, which have no descriptor and no  *)
(* handlers.  It looks a peer up in the member view that peers() returns,  *)
(* from which the application may remove peers that stay owned.            *)
(*                                                                         *)
(* An address is [family, host, mapped, scope]: `host' stands for the IPv4 *)
(* or IPv6 host with its port, `mapped' for ::ffff:a.b.c.d of that host.   *)
(***************************************************************************)
EXTENDS Integers, SequencesExt

CONSTANTS
    Hosts,      \* remote hosts with their ports
    Scopes,     \* sin6_scope_id values, 0 among them
    MaxFds,     \* bound: descriptors made
    MaxOps      \* bound: other calls

\* A constructor makes one descriptor.
ASSUME UdpAssumption == 0 \in Scopes /\ MaxFds \in Nat \ {0} /\ MaxOps \in Nat

VARIABLES
    server,         \* a server or a client; never changes
    fd, family, connected, remote_addr, blocking,
    nonblock,       \* O_NONBLOCK of the descriptor
    peers,          \* the server's owned peers, in order; the listed ones are
                    \* the member view
    job,            \* the udp_listen in progress
    closing,        \* close() calls that run their on_close handler
    open,           \* external: open descriptors made by this socket
    fds, ops,       \* counters
    sent,           \* history: the datagram just sent
    event           \* history: the datagram whose handlers start now

sockVars == <<fd, family, connected, remote_addr, blocking, nonblock>>
vars == <<server, sockVars, peers, job, closing, open, fds, ops, sent, event>>

Address(f, h, m, s) == [family |-> f, host |-> h, mapped |-> m, scope |-> s]
Inet == {Address("inet", h, FALSE, 0) : h \in Hosts}
Inet6 == {Address("inet6", h, m, s) : h \in Hosts, m \in BOOLEAN, s \in Scopes}
Addresses == Inet \cup Inet6

NoAddress == Address("unspec", 0, FALSE, 0)     \* a zeroed sockaddr_storage
Peers == [addr : Addresses, active : BOOLEAN, listed : BOOLEAN, made_on : 1..MaxFds]
Jobs == [left : {<<"inet6", "inet">>, <<"inet">>, <<>>}, candidate : 0..MaxFds]
NoJob == [left |-> <<>>, candidate |-> 0]
NoEvent == [kind |-> "none"]
Free == job = NoJob
Quiet == sent' = NoEvent /\ event' = NoEvent

-----------------------------------------------------------------------------
(* Logical peers.                                                          *)

\* same_udp_address: by family, or an IPv4 address and its mapped form.
same_udp_address(a, b) ==
    LET Mapped(v6, v4) == /\ v6.family = "inet6" /\ v4.family = "inet"
                          /\ v6.scope = 0 /\ v6.mapped /\ v6.host = v4.host
    IN \/ a.family = "inet" /\ b.family = "inet" /\ a.host = b.host
       \/ /\ a.family = "inet6" /\ b.family = "inet6" /\ a.scope = b.scope
          /\ a.host = b.host /\ a.mapped = b.mapped
       \/ Mapped(a, b) \/ Mapped(b, a)

\* find_udp_peer: the members for an address.
Matches(a) == {i \in 1..Len(peers) : peers[i].listed /\ same_udp_address(peers[i].addr, a)}

NewPeer(a) == [addr |-> a, active |-> TRUE, listed |-> TRUE, made_on |-> fd]

\* get_or_create_udp_peer: the peers afterwards.  A closed member is replaced.
GetOrCreate(a) ==
    IF fd = 0 THEN peers
    ELSE IF Matches(a) = {} THEN Append(peers, NewPeer(a))
    ELSE LET i == CHOOSE i \in Matches(a) : \A j \in Matches(a) : i <= j
         IN IF peers[i].active THEN peers ELSE Append(RemoveAt(peers, i), NewPeer(a))

\* close_owned_peers: the peers stay owned, closed.
Closed(ps) == [i \in 1..Len(ps) |-> [ps[i] EXCEPT !.active = FALSE]]

GetPeer(a) ==
    /\ Free /\ server /\ ops < MaxOps
    /\ peers' = GetOrCreate(a)
    /\ ops' = ops + 1 /\ Quiet
    /\ UNCHANGED <<server, sockVars, job, closing, open, fds>>

RemovePeer(i) ==
    /\ Free /\ server /\ ops < MaxOps
    /\ peers' = RemoveAt(peers, i)
    /\ ops' = ops + 1 /\ Quiet
    /\ UNCHANGED <<server, sockVars, job, closing, open, fds>>

\* peers().remove(i), of one or of several: the peer stays owned.
MembersRemove(i) ==
    /\ Free /\ server /\ ops < MaxOps /\ peers[i].listed
    /\ peers' = [peers EXCEPT ![i].listed = FALSE]
    /\ ops' = ops + 1 /\ Quiet
    /\ UNCHANGED <<server, sockVars, job, closing, open, fds>>

\* close() of a logical peer.
ClosePeer(i) ==
    /\ Free /\ ops < MaxOps
    /\ peers' = [peers EXCEPT ![i].active = FALSE]
    /\ ops' = ops + 1 /\ Quiet
    /\ UNCHANGED <<server, sockVars, job, closing, open, fds>>

-----------------------------------------------------------------------------
(* Sending and receiving.                                                  *)

\* Mutant: an IPv4 destination is passed to an IPv6 descriptor as it is.
TargetUnmapped(a) == IF a.family = "unspec" THEN NoAddress ELSE a

\* The destination send_datagram passes to sendto(), or NoAddress.
Target(a) ==
    CASE a.family = family -> a
      [] family = "inet6" /\ a.family = "inet" -> Address("inet6", a.host, TRUE, 0)
      [] OTHER -> NoAddress

\* write() of the socket itself, to its remote address, or of an active peer.
Send(a, usable) ==
    /\ Free /\ usable /\ fd # 0 /\ Target(a) # NoAddress
    /\ sent' = [kind |-> "sent", fd |-> fd, for |-> a, to |-> Target(a)]
    /\ event' = NoEvent
    /\ UNCHANGED <<server, sockVars, peers, job, closing, open, fds, ops>>

\* The kernel shows IPv4 senders to a dual-stack descriptor in mapped form.
Sources == IF family = "inet6" THEN Inet6 \ {a \in Inet6 : a.mapped /\ a.scope # 0} ELSE Inet

\* A datagram is read, by poll() or read(): its source becomes the reply
\* address, and a server has a peer for it before its handlers run.
Datagram(a) ==
    /\ Free /\ fd # 0 /\ ops < MaxOps
    /\ remote_addr' = a
    /\ peers' = IF server THEN GetOrCreate(a) ELSE peers
    /\ event' = [kind |-> "datagram", from |-> a] /\ sent' = NoEvent
    /\ ops' = ops + 1
    /\ UNCHANGED <<server, fd, family, connected, blocking, nonblock, job, closing, open, fds>>

-----------------------------------------------------------------------------
(* Descriptors.                                                            *)

SetBlocking(flag) ==
    /\ Free /\ fd # 0 /\ ops < MaxOps
    /\ nonblock' = ~flag /\ blocking' = flag
    /\ ops' = ops + 1 /\ Quiet
    /\ UNCHANGED <<server, fd, family, connected, remote_addr, peers, job, closing, open, fds>>

\* The O_NONBLOCK that select_family gives a candidate.
CandidateMode == ~blocking

\* Mutant: the descriptor that is replaced is never closed.
AdoptLeaks(c, f) ==
    /\ fd' = c /\ family' = f /\ nonblock' = CandidateMode
    /\ open' = open \cup {c}

\* A ready candidate c replaces the live descriptor, which is closed.
Adopt(c, f) ==
    /\ fd' = c /\ family' = f /\ nonblock' = CandidateMode
    /\ open' = (open \cup {c}) \ {fd}

\* udp_connect(address): a destination is selected, on a new descriptor if
\* there is none or it has the other family.  It may fail to get one, and
\* then nothing changes.
UdpConnect(a) ==
    /\ Free /\ ~server /\ ops < MaxOps
    /\ IF fd = 0 \/ family # a.family
       THEN /\ fds < MaxFds /\ fds' = fds + 1
            /\ Adopt(fds + 1, a.family)
       ELSE UNCHANGED <<fd, family, nonblock, open, fds>>
    /\ remote_addr' = a /\ connected' = TRUE
    /\ ops' = ops + 1 /\ Quiet
    /\ UNCHANGED <<server, blocking, peers, job, closing>>

UdpListen ==
    /\ Free /\ server /\ fds < MaxFds
    /\ job' = [left |-> <<"inet6", "inet">>, candidate |-> 0]
    /\ Quiet
    /\ UNCHANGED <<server, sockVars, peers, closing, open, fds, ops>>

\* select_family makes a candidate of the next family ...
SelectFamily ==
    /\ job.left # <<>> /\ job.candidate = 0 /\ fds < MaxFds
    /\ fds' = fds + 1
    /\ job' = [job EXCEPT !.candidate = fds + 1]
    /\ open' = open \cup {fds + 1}
    /\ Quiet
    /\ UNCHANGED <<server, sockVars, peers, closing, ops>>

\* ... or cannot, and the loop goes on; after the last family it returns false.
SelectFails ==
    /\ job.left # <<>> /\ job.candidate = 0
    /\ job' = [job EXCEPT !.left = Tail(@)]
    /\ Quiet
    /\ UNCHANGED <<server, sockVars, peers, closing, open, fds, ops>>

\* Mutant: the destination is cleared before the outcome of bind() is known.
BindFailsClears ==
    /\ job.candidate # 0
    /\ open' = open \ {job.candidate}
    /\ job' = [left |-> Tail(job.left), candidate |-> 0]
    /\ remote_addr' = NoAddress /\ Quiet
    /\ UNCHANGED <<server, fd, family, connected, blocking, nonblock, peers, closing, fds, ops>>

\* bind() (or IPV6_V6ONLY) fails: the candidate is closed.
BindFails ==
    /\ job.candidate # 0
    /\ open' = open \ {job.candidate}
    /\ job' = [left |-> Tail(job.left), candidate |-> 0]
    /\ Quiet
    /\ UNCHANGED <<server, sockVars, peers, closing, fds, ops>>

\* Mutant: listen() leaves the peers of the old binding alone.
BindSucceedsOnly ==
    /\ job.candidate # 0
    /\ Adopt(job.candidate, Head(job.left))
    /\ connected' = FALSE /\ remote_addr' = NoAddress
    /\ job' = NoJob /\ Quiet
    /\ UNCHANGED <<server, blocking, peers, closing, fds, ops>>

\* bind() succeeds: the candidate is adopted, and listen() closes the peers.
BindSucceeds ==
    /\ job.candidate # 0
    /\ Adopt(job.candidate, Head(job.left))
    /\ connected' = FALSE /\ remote_addr' = NoAddress
    /\ peers' = Closed(peers)
    /\ job' = NoJob /\ Quiet
    /\ UNCHANGED <<server, blocking, closing, fds, ops>>

\* close() releases the descriptor and calls on_close, in which any operation
\* may run ...
Close ==
    /\ Free /\ fd # 0
    /\ fd' = 0 /\ connected' = FALSE /\ open' = open \ {fd}
    /\ closing' = closing + 1 /\ Quiet
    /\ UNCHANGED <<server, family, remote_addr, blocking, nonblock, peers, job, fds, ops>>

\* close() without a descriptor calls no handler and closes the peers.
CloseAgain ==
    /\ Free /\ fd = 0 /\ server
    /\ peers' = Closed(peers) /\ Quiet
    /\ UNCHANGED <<server, sockVars, job, closing, open, fds, ops>>

\* ... and closes the peers when the handler returns.
CloseReturn ==
    /\ Free /\ closing > 0
    /\ closing' = closing - 1
    /\ peers' = Closed(peers) /\ Quiet
    /\ UNCHANGED <<server, sockVars, job, open, fds, ops>>

-----------------------------------------------------------------------------
\* The constructors: an IPv4 descriptor, or none; an event socket is
\* non-blocking.
Init ==
    /\ server \in BOOLEAN /\ fd \in 0..1 /\ blocking \in BOOLEAN
    /\ family = "inet" /\ connected = FALSE /\ remote_addr = NoAddress
    /\ nonblock = ~blocking /\ peers = <<>> /\ job = NoJob /\ closing = 0
    /\ open = {fd} \ {0} /\ fds = 1 /\ ops = 0 /\ sent = NoEvent /\ event = NoEvent

Next ==
    \/ \E a \in Addresses : GetPeer(a)
    \/ \E i \in 1..Len(peers) : RemovePeer(i) \/ MembersRemove(i) \/ ClosePeer(i)
    \/ \E i \in 1..Len(peers) : Send(peers[i].addr, peers[i].active)
    \/ Send(remote_addr, TRUE)
    \/ \E a \in Sources : Datagram(a)
    \/ \E flag \in BOOLEAN : SetBlocking(flag)
    \/ \E a \in Addresses : UdpConnect(a)
    \/ UdpListen \/ SelectFamily \/ SelectFails \/ BindFails \/ BindSucceeds
    \/ Close \/ CloseAgain \/ CloseReturn

Spec == Init /\ [][Next]_vars

-----------------------------------------------------------------------------
(* Properties.                                                             *)

\* Types, and a socket with a selected destination has a descriptor.
TypeOK ==
    /\ server \in BOOLEAN /\ fd \in 0..MaxFds /\ family \in {"inet", "inet6"}
    /\ connected \in BOOLEAN /\ (connected => fd # 0)
    /\ remote_addr \in Addresses \cup {NoAddress}
    /\ blocking \in BOOLEAN /\ nonblock \in BOOLEAN
    /\ peers \in Seq(Peers) /\ job \in Jobs
    /\ closing \in Nat /\ open \subseteq 1..MaxFds /\ fds \in 1..MaxFds /\ ops \in 0..MaxOps

\* Every descriptor the socket made is closed exactly once or is its own: a
\* rebind or a change of family leaks none and never closes the live one early
\* ("A successful swap closes the previous descriptor exactly once").  The one it
\* keeps has the mode of the blocking flag, through every change of family.
DescriptorsOwned ==
    /\ TypeOK
    /\ open = {fd, job.candidate} \ {0}
    /\ fd # 0 => nonblock = ~blocking

\* A udp_listen that does not succeed leaves the socket as it was: descriptor,
\* family, destination and peers ("Bind candidate descriptors rather than
\* rebinding or closing the live one").
RebindAllOrNothing ==
    [][~Free /\ fd' = fd => UNCHANGED <<sockVars, peers>>]_vars

\* The endpoint an address names, whatever its form.
Endpoint(a) ==
    IF a.mapped /\ a.scope = 0 THEN Address("inet", a.host, FALSE, 0) ELSE a

\* A peer that is active on an open server was made on its present binding:
\* "Existing logical peers cannot survive a rebind as active endpoints", also
\* when the rebind happens in the on_close handler or the peer is no longer a
\* member.  And the member view has one peer for an endpoint: an IPv4 sender seen
\* in mapped form, its plain address, a closed member and a peer taken out of the
\* view never give two.
PeersAreCurrent ==
    \A i \in 1..Len(peers) :
        /\ peers[i].active /\ fd # 0 => peers[i].made_on = fd
        /\ \A j \in 1..Len(peers) :
              /\ peers[i].listed /\ peers[j].listed
              /\ Endpoint(peers[i].addr) = Endpoint(peers[j].addr)
              => i = j

\* A datagram reaches the endpoint its sender meant, in both directions: what
\* send_datagram hands to the kernel has the family of the descriptor and names
\* the endpoint of the caller, and when the handlers of a received one start, the
\* member view has an active peer for its sender, also if that peer had been
\* closed or taken out of the view.
EndpointsAgree ==
    /\ sent # NoEvent =>
          /\ sent.to.family = family /\ sent.fd = fd
          /\ Endpoint(sent.to) = Endpoint(sent.for)
    /\ server /\ event # NoEvent =>
          \E i \in 1..Len(peers) :
              /\ peers[i].active /\ peers[i].listed
              /\ Endpoint(peers[i].addr) = Endpoint(event.from)
==============================================================================
