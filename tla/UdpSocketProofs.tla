--------------------------- MODULE UdpSocketProofs ---------------------------
(***************************************************************************)
(* Proofs about UdpSocket, for any sets of hosts and scopes and any number *)
(* of descriptors and calls.                                               *)
(***************************************************************************)
EXTENDS UdpSocket, SequenceTheorems, TLAPS

\* Descriptors are numbered as they are made, and a candidate is not the live
\* descriptor: adopting one changes fd.
CandidatesAreNew ==
    /\ fd <= fds /\ job.candidate <= fds
    /\ job.candidate # 0 => job.candidate # fd /\ job.left # <<>>

\* Only a server makes logical peers, so a client's change of descriptor in
\* udp_connect leaves none behind.
ClientHasNoPeers == ~server => peers = <<>>

\* The inductive invariant.
UdpInv ==
    /\ DescriptorsOwned
    /\ CandidatesAreNew
    /\ ClientHasNoPeers
    /\ PeersAreCurrent
    /\ EndpointsAgree

\* The two halves of PeersAreCurrent, for any sequence of peers.
ActiveOn(ps, d) == \A i \in 1..Len(ps) : ps[i].active /\ d # 0 => ps[i].made_on = d
OnePerEndpoint(ps) ==
    \A i, j \in 1..Len(ps) :
        ps[i].listed /\ ps[j].listed /\ Endpoint(ps[i].addr) = Endpoint(ps[j].addr) => i = j

-----------------------------------------------------------------------------
(* Addresses.                                                              *)

\* The fields of an address.
LEMMA AddressFields ==
  ASSUME NEW a \in Addresses
  PROVE  /\ a \in [family : {"inet", "inet6"}, host : Hosts, mapped : BOOLEAN, scope : Scopes]
         /\ a.family = "inet" => a.mapped = FALSE /\ a.scope = 0
<1>1. CASE a \in Inet
  <2>1. PICK h \in Hosts : a = [family |-> "inet", host |-> h, mapped |-> FALSE, scope |-> 0]
    BY <1>1 DEF Inet, Address
  <2> QED
    BY <2>1, UdpAssumption
<1>2. CASE a \in Inet6
  <2>1. PICK h \in Hosts, m \in BOOLEAN, s \in Scopes :
          a = [family |-> "inet6", host |-> h, mapped |-> m, scope |-> s]
    BY <1>2 DEF Inet6, Address
  <2> QED
    BY <2>1
<1> QED
  BY <1>1, <1>2 DEF Addresses

\* same_udp_address compares endpoints: it is what a server with one peer for
\* each endpoint needs, and an equivalence.
LEMMA SameIsEndpoint ==
  ASSUME NEW a \in Addresses, NEW b \in Addresses
  PROVE  same_udp_address(a, b) <=> Endpoint(a) = Endpoint(b)
<1>1. /\ a = [family |-> a.family, host |-> a.host, mapped |-> a.mapped, scope |-> a.scope]
      /\ b = [family |-> b.family, host |-> b.host, mapped |-> b.mapped, scope |-> b.scope]
  BY AddressFields
<1>2. a.family \in {"inet", "inet6"} /\ b.family \in {"inet", "inet6"}
  BY AddressFields
<1>3. a.mapped \in BOOLEAN /\ b.mapped \in BOOLEAN
  BY AddressFields
<1>4. /\ a.family = "inet" => ~a.mapped /\ a.scope = 0
      /\ b.family = "inet" => ~b.mapped /\ b.scope = 0
  BY AddressFields
<1>5. CASE a.family = "inet" /\ b.family = "inet"
  <2>1. Endpoint(a) = a /\ Endpoint(b) = b
    BY <1>4, <1>5 DEF Endpoint
  <2>2. a = b <=> a.host = b.host
    BY <1>1, <1>4, <1>5, AddressFields
  <2> QED
    BY <1>5, <2>1, <2>2 DEF same_udp_address
<1>6. ASSUME NEW v6 \in {a, b}, NEW v4 \in {a, b}, v6.family = "inet6", v4.family = "inet"
      PROVE  Endpoint(v6) = Endpoint(v4) <=> v6.scope = 0 /\ v6.mapped /\ v6.host = v4.host
  <2>1. Endpoint(v4) = v4 /\ v4 = Address("inet", v4.host, FALSE, 0)
    <3>1. /\ v4.mapped = FALSE /\ v4.scope = 0
          /\ v4 = [family |-> v4.family, host |-> v4.host, mapped |-> v4.mapped,
                   scope |-> v4.scope]
      BY <1>6, AddressFields
    <3> QED
      BY <1>6, <3>1 DEF Endpoint, Address
  <2>2. CASE v6.scope = 0 /\ v6.mapped
    <3>1. Endpoint(v6) = Address("inet", v6.host, FALSE, 0)
      BY <2>2 DEF Endpoint
    <3> QED
      BY <2>1, <2>2, <3>1 DEF Address
  <2>3. CASE ~(v6.scope = 0 /\ v6.mapped)
    <3>1. Endpoint(v6) = v6
      BY <2>3 DEF Endpoint
    <3> QED
      BY <1>6, <2>1, <2>3, <3>1
  <2> QED
    BY <2>2, <2>3
<1>7. CASE a.family # b.family
  <2>1. CASE a.family = "inet6" /\ b.family = "inet"
    BY <1>6, <2>1 DEF same_udp_address
  <2>2. CASE a.family = "inet" /\ b.family = "inet6"
    BY <1>6, <2>2 DEF same_udp_address
  <2> QED
    BY <1>2, <1>7, <2>1, <2>2
<1>8. CASE a.family = "inet6" /\ b.family = "inet6"
  <2>1. a.scope = b.scope /\ a.host = b.host /\ a.mapped = b.mapped => a = b
    <3> HAVE a.scope = b.scope /\ a.host = b.host /\ a.mapped = b.mapped
    <3>1. [family |-> a.family, host |-> a.host, mapped |-> a.mapped, scope |-> a.scope]
        = [family |-> b.family, host |-> b.host, mapped |-> b.mapped, scope |-> b.scope]
      BY <1>8, Zenon
    <3> QED
      BY <1>1, <3>1, Zenon
  <2>2. same_udp_address(a, b) <=> a = b
    BY <1>8, <2>1 DEF same_udp_address
  <2>3. Endpoint(a) = Endpoint(b) => a = b
    <3> HAVE Endpoint(a) = Endpoint(b)
    <3>1. CASE a.mapped /\ a.scope = 0
      <4>1. Endpoint(a).family = "inet" /\ Endpoint(a).host = a.host
        BY <3>1 DEF Endpoint, Address
      <4>2. b.mapped /\ b.scope = 0
        BY <1>8, <4>1 DEF Endpoint
      <4>3. Endpoint(b).host = b.host
        BY <4>2 DEF Endpoint, Address
      <4> QED
        BY <1>3, <2>1, <3>1, <4>1, <4>2, <4>3
    <3>2. CASE ~(a.mapped /\ a.scope = 0)
      <4>1. Endpoint(a) = a /\ Endpoint(a).family = "inet6"
        BY <1>8, <3>2 DEF Endpoint
      <4>2. ~(b.mapped /\ b.scope = 0)
        BY <4>1 DEF Endpoint, Address
      <4> QED
        BY <4>1, <4>2 DEF Endpoint
    <3> QED
      BY <3>1, <3>2
  <2> QED
    BY <2>2, <2>3
<1> QED
  BY <1>2, <1>5, <1>7, <1>8

\* What send_datagram passes to sendto() has the family of the descriptor and
\* names the endpoint it was given.
LEMMA TargetAgrees ==
  ASSUME NEW a \in Addresses \cup {NoAddress}, family \in {"inet", "inet6"},
         Target(a) # NoAddress
  PROVE  Target(a).family = family /\ Endpoint(Target(a)) = Endpoint(a)
<1>1. CASE a.family = family
  BY <1>1 DEF Target
<1>2. CASE family = "inet6" /\ a.family = "inet"
  <2>1. Target(a) = Address("inet6", a.host, TRUE, 0)
    BY <1>2 DEF Target
  <2>2. a \in Addresses
    BY <1>2 DEF NoAddress, Address
  <2>3. /\ a = [family |-> a.family, host |-> a.host, mapped |-> a.mapped, scope |-> a.scope]
        /\ a.mapped = FALSE /\ a.scope = 0
    BY <1>2, <2>2, AddressFields
  <2> QED
    BY <1>2, <2>1, <2>3 DEF Endpoint, Address
<1>3. CASE ~(a.family = family) /\ ~(family = "inet6" /\ a.family = "inet")
  BY <1>3 DEF Target
<1> QED
  BY <1>1, <1>2, <1>3

-----------------------------------------------------------------------------
(* The peers of a server.                                                  *)

\* erase() of one element.
LEMMA RemoveAtProperties ==
  ASSUME NEW S, NEW s \in Seq(S), NEW i \in 1..Len(s)
  PROVE  /\ RemoveAt(s, i) \in Seq(S)
         /\ Len(RemoveAt(s, i)) = Len(s) - 1
         /\ \A k \in 1..(Len(s) - 1) : RemoveAt(s, i)[k] = s[IF k < i THEN k ELSE k + 1]
<1> DEFINE front == SubSeq(s, 1, i - 1)
           back == SubSeq(s, i + 1, Len(s))
<1>0. Len(s) \in Nat /\ \A k \in 1..Len(s) : s[k] \in S
  OBVIOUS
<1>1. /\ front \in Seq(S) /\ Len(front) = i - 1
      /\ \A k \in 1..(i - 1) : front[k] = s[k]
  <2>1. \A k \in 1..(i - 1) : s[k] \in S
    BY <1>0
  <2> QED
    BY <1>0, <2>1, SubSeqProperties
<1>2. /\ back \in Seq(S) /\ Len(back) = Len(s) - i
      /\ \A k \in 1..(Len(s) - i) : back[k] = s[k + i]
  <2>1. \A k \in (i + 1)..Len(s) : s[k] \in S
    BY <1>0
  <2>2. /\ back \in Seq(S)
        /\ Len(back) = IF i + 1 <= Len(s) THEN Len(s) - (i + 1) + 1 ELSE 0
        /\ \A k \in 1..(Len(s) - (i + 1) + 1) : back[k] = s[i + 1 + k - 1]
    BY <1>0, <2>1, SubSeqProperties
  <2>3. Len(back) = Len(s) - i
    BY <1>0, <2>2
  <2>4. \A k \in 1..(Len(s) - i) : back[k] = s[k + i]
    <3> TAKE k \in 1..(Len(s) - i)
    <3>1. k \in 1..(Len(s) - (i + 1) + 1) /\ i + 1 + k - 1 = k + i
      BY <1>0
    <3> QED
      BY <2>2, <3>1
  <2> QED
    BY <2>2, <2>3, <2>4
<1> HIDE DEF front, back
<1>3. /\ front \o back \in Seq(S)
      /\ Len(front \o back) = Len(front) + Len(back)
      /\ \A k \in 1..(Len(front) + Len(back)) :
             (front \o back)[k] = IF k <= Len(front) THEN front[k] ELSE back[k - Len(front)]
  BY <1>1, <1>2, ConcatProperties
<1>4. RemoveAt(s, i) = front \o back
  BY DEF RemoveAt, front, back
<1>5. \A k \in 1..(Len(s) - 1) : (front \o back)[k] = s[IF k < i THEN k ELSE k + 1]
  <2> TAKE k \in 1..(Len(s) - 1)
  <2>1. CASE k < i
    BY <1>0, <1>1, <1>2, <1>3, <2>1
  <2>2. CASE ~(k < i)
    <3>1. k - Len(front) \in 1..(Len(s) - i) /\ (k - Len(front)) + i = k + 1
      BY <1>0, <1>1, <2>2
    <3>2. k \in 1..(Len(front) + Len(back)) /\ ~(k <= Len(front))
      BY <1>0, <1>1, <1>2, <2>2
    <3>3. (front \o back)[k] = back[k - Len(front)]
      BY <1>3, <3>2
    <3>4. back[k - Len(front)] = s[k + 1]
      BY <1>2, <3>1
    <3> QED
      BY <2>2, <3>3, <3>4
  <2> QED
    BY <2>1, <2>2
<1>6. Len(front \o back) = Len(s) - 1
  BY <1>0, <1>1, <1>2, <1>3
<1> QED
  BY <1>3, <1>4, <1>5, <1>6

\* remove_udp_peer leaves the other peers as they are.
LEMMA RemovePeerKeeps ==
  ASSUME NEW ps \in Seq(Peers), NEW i \in 1..Len(ps), NEW d,
         ActiveOn(ps, d), OnePerEndpoint(ps)
  PROVE  ActiveOn(RemoveAt(ps, i), d) /\ OnePerEndpoint(RemoveAt(ps, i))
<1> DEFINE rs == RemoveAt(ps, i)
           Old(k) == IF k < i THEN k ELSE k + 1
<1>1. Len(ps) \in Nat /\ Len(rs) = Len(ps) - 1
  BY RemoveAtProperties
<1>2. \A k \in 1..Len(rs) : rs[k] = ps[Old(k)]
  BY <1>1, RemoveAtProperties
<1>3. \A k \in 1..Len(rs) : Old(k) \in 1..Len(ps)
  BY <1>1
<1>4. \A k, l \in 1..Len(rs) : Old(k) = Old(l) => k = l
  BY <1>1
<1> HIDE DEF rs, Old
<1>5. ActiveOn(rs, d)
  BY <1>2, <1>3 DEF ActiveOn
<1>6. OnePerEndpoint(rs)
  BY <1>2, <1>3, <1>4 DEF OnePerEndpoint
<1> QED
  BY <1>5, <1>6 DEF rs

\* A peer for an endpoint that has no member may be added.
LEMMA AddPeerKeeps ==
  ASSUME NEW ps \in Seq(Peers), NEW p \in Peers, ActiveOn(ps, p.made_on), OnePerEndpoint(ps),
         \A i \in 1..Len(ps) : ps[i].listed => Endpoint(ps[i].addr) # Endpoint(p.addr)
  PROVE  /\ Append(ps, p) \in Seq(Peers)
         /\ ActiveOn(Append(ps, p), p.made_on) /\ OnePerEndpoint(Append(ps, p))
         /\ Len(Append(ps, p)) \in 1..Len(Append(ps, p))
         /\ Append(ps, p)[Len(Append(ps, p))] = p
<1> DEFINE qs == Append(ps, p)
<1>1. /\ Len(ps) \in Nat /\ Len(qs) = Len(ps) + 1 /\ qs \in Seq(Peers)
      /\ \A i \in 1..Len(ps) : qs[i] = ps[i]
      /\ qs[Len(ps) + 1] = p
  OBVIOUS
<1>2. \A i \in 1..Len(qs) : i \in 1..Len(ps) \/ i = Len(ps) + 1
  BY <1>1
<1> HIDE DEF qs
<1>3. ActiveOn(qs, p.made_on)
  BY <1>1, <1>2 DEF ActiveOn
<1>4. OnePerEndpoint(qs)
  BY <1>1, <1>2 DEF OnePerEndpoint
<1>5. Len(qs) \in 1..Len(qs)
  BY <1>1
<1> QED
  BY <1>1, <1>3, <1>4, <1>5 DEF qs

\* close_owned_peers leaves no active peer.
LEMMA ClosedKeeps ==
  ASSUME NEW ps \in Seq(Peers), OnePerEndpoint(ps), NEW d
  PROVE  /\ Closed(ps) \in Seq(Peers)
         /\ ActiveOn(Closed(ps), d) /\ OnePerEndpoint(Closed(ps))
         /\ ps = <<>> => Closed(ps) = <<>>
<1> DEFINE cs == Closed(ps)
<1>1. Len(ps) \in Nat /\ \A i \in 1..Len(ps) : ps[i] \in Peers
  OBVIOUS
<1>2. \A i \in 1..Len(ps) : /\ [ps[i] EXCEPT !.active = FALSE] \in Peers
                            /\ [ps[i] EXCEPT !.active = FALSE].active = FALSE
                            /\ [ps[i] EXCEPT !.active = FALSE].addr = ps[i].addr
                            /\ [ps[i] EXCEPT !.active = FALSE].listed = ps[i].listed
  BY <1>1 DEF Peers
<1>3. cs \in Seq(Peers) /\ Len(cs) = Len(ps)
  BY <1>1, <1>2 DEF Closed
<1>4. \A i \in 1..Len(ps) :
         ~cs[i].active /\ cs[i].addr = ps[i].addr /\ cs[i].listed = ps[i].listed
  BY <1>2 DEF Closed
<1>5. ps = <<>> => cs = <<>>
  BY <1>3
<1> HIDE DEF cs
<1>6. ActiveOn(cs, d)
  BY <1>3, <1>4 DEF ActiveOn
<1>7. OnePerEndpoint(cs)
  BY <1>3, <1>4 DEF OnePerEndpoint
<1> QED
  BY <1>3, <1>5, <1>6, <1>7 DEF cs

\* close() of one logical peer.
LEMMA ClosePeerKeeps ==
  ASSUME NEW ps \in Seq(Peers), NEW i \in 1..Len(ps), NEW d,
         ActiveOn(ps, d), OnePerEndpoint(ps)
  PROVE  /\ [ps EXCEPT ![i].active = FALSE] \in Seq(Peers)
         /\ ActiveOn([ps EXCEPT ![i].active = FALSE], d)
         /\ OnePerEndpoint([ps EXCEPT ![i].active = FALSE])
<1> DEFINE p == [ps[i] EXCEPT !.active = FALSE]
           cs == [ps EXCEPT ![i] = p]
<1>0. ps[i] \in Peers
  OBVIOUS
<1>1. p \in Peers /\ p.addr = ps[i].addr /\ p.listed = ps[i].listed /\ p.active = FALSE
  BY <1>0 DEF Peers
<1>2. [ps EXCEPT ![i].active = FALSE] = cs
  OBVIOUS
<1> HIDE DEF p
<1>3. /\ cs \in Seq(Peers) /\ Len(cs) = Len(ps) /\ cs[i] = p
      /\ \A j \in 1..Len(ps) : j # i => cs[j] = ps[j]
  BY <1>1
<1> HIDE DEF cs
<1>4. \A j \in 1..Len(ps) : /\ cs[j].addr = ps[j].addr /\ cs[j].listed = ps[j].listed
                            /\ cs[j].active => cs[j] = ps[j]
  BY <1>1, <1>3
<1>5. ActiveOn(cs, d)
  BY <1>3, <1>4 DEF ActiveOn
<1>6. OnePerEndpoint(cs)
  BY <1>3, <1>4 DEF OnePerEndpoint
<1> QED
  BY <1>2, <1>3, <1>5, <1>6

\* peers().remove() of one member.
LEMMA MembersRemoveKeeps ==
  ASSUME NEW ps \in Seq(Peers), NEW i \in 1..Len(ps), NEW d,
         ActiveOn(ps, d), OnePerEndpoint(ps)
  PROVE  /\ [ps EXCEPT ![i].listed = FALSE] \in Seq(Peers)
         /\ ActiveOn([ps EXCEPT ![i].listed = FALSE], d)
         /\ OnePerEndpoint([ps EXCEPT ![i].listed = FALSE])
<1> DEFINE p == [ps[i] EXCEPT !.listed = FALSE]
           cs == [ps EXCEPT ![i] = p]
<1>0. ps[i] \in Peers
  OBVIOUS
<1>1. /\ p \in Peers /\ p.addr = ps[i].addr /\ p.listed = FALSE
      /\ p.active = ps[i].active /\ p.made_on = ps[i].made_on
  BY <1>0 DEF Peers
<1>2. [ps EXCEPT ![i].listed = FALSE] = cs
  OBVIOUS
<1> HIDE DEF p
<1>3. /\ cs \in Seq(Peers) /\ Len(cs) = Len(ps) /\ cs[i] = p
      /\ \A j \in 1..Len(ps) : j # i => cs[j] = ps[j]
  BY <1>1
<1> HIDE DEF cs
<1>4. \A j \in 1..Len(ps) : /\ cs[j].active = ps[j].active /\ cs[j].made_on = ps[j].made_on
                            /\ cs[j].listed => cs[j] = ps[j]
  BY <1>1, <1>3
<1>5. ActiveOn(cs, d)
  BY <1>3, <1>4 DEF ActiveOn
<1>6. OnePerEndpoint(cs)
  BY <1>3, <1>4 DEF OnePerEndpoint
<1> QED
  BY <1>2, <1>3, <1>5, <1>6

\* get_or_create_udp_peer keeps one member for each endpoint, makes it on the
\* present descriptor, and leaves an active one for the endpoint asked for.
LEMMA GetOrCreateKeeps ==
  ASSUME UdpInv, NEW a \in Addresses
  PROVE  /\ GetOrCreate(a) \in Seq(Peers)
         /\ ActiveOn(GetOrCreate(a), fd) /\ OnePerEndpoint(GetOrCreate(a))
         /\ fd # 0 => \E i \in 1..Len(GetOrCreate(a)) :
                         /\ GetOrCreate(a)[i].active /\ GetOrCreate(a)[i].listed
                         /\ Endpoint(GetOrCreate(a)[i].addr) = Endpoint(a)
<1>0. /\ peers \in Seq(Peers) /\ ActiveOn(peers, fd) /\ OnePerEndpoint(peers)
      /\ \A i \in 1..Len(peers) : peers[i] \in Peers /\ peers[i].addr \in Addresses
      /\ fd \in 0..MaxFds /\ Len(peers) \in Nat
  <2>1. peers \in Seq(Peers) /\ fd \in 0..MaxFds /\ PeersAreCurrent
    BY DEF UdpInv, DescriptorsOwned, TypeOK
  <2>2. \A i \in 1..Len(peers) : peers[i] \in Peers
    BY <2>1
  <2> QED
    BY <2>1, <2>2 DEF PeersAreCurrent, ActiveOn, OnePerEndpoint, Peers
<1>1. CASE fd = 0
  BY <1>0, <1>1 DEF GetOrCreate
<1>2. CASE fd # 0
  <2> DEFINE new == NewPeer(a)
  <2>1. new \in Peers /\ new.made_on = fd /\ new.addr = a /\ new.active /\ new.listed
    BY <1>0, <1>2, UdpAssumption DEF NewPeer, Peers
  <2>2. \A i \in 1..Len(peers) :
           i \in Matches(a) <=> peers[i].listed /\ Endpoint(peers[i].addr) = Endpoint(a)
    BY <1>0, SameIsEndpoint DEF Matches
  <2> HIDE DEF new
  <2>3. CASE Matches(a) = {}
    <3>1. GetOrCreate(a) = Append(peers, new)
      BY <1>2, <2>3 DEF GetOrCreate, new
    <3>2. \A i \in 1..Len(peers) :
             peers[i].listed => Endpoint(peers[i].addr) # Endpoint(new.addr)
      BY <2>1, <2>2, <2>3
    <3>3. ActiveOn(peers, new.made_on)
      BY <1>0, <2>1
    <3>4. /\ Append(peers, new) \in Seq(Peers)
          /\ ActiveOn(Append(peers, new), new.made_on) /\ OnePerEndpoint(Append(peers, new))
          /\ Len(Append(peers, new)) \in 1..Len(Append(peers, new))
          /\ Append(peers, new)[Len(Append(peers, new))] = new
      BY <1>0, <2>1, <3>2, <3>3, AddPeerKeeps
    <3> QED
      BY <2>1, <3>1, <3>4, Zenon
  <2>4. CASE Matches(a) # {}
    <3> DEFINE first == CHOOSE i \in Matches(a) : \A j \in Matches(a) : i <= j
    <3>1. PICK m \in Matches(a) : m \in 1..Len(peers)
      BY <2>4 DEF Matches
    <3>2. Matches(a) = {m}
      BY <1>0, <2>2, <3>1 DEF OnePerEndpoint, Matches
    <3>3. first = m
      BY <1>0, <3>1, <3>2
    <3>4. GetOrCreate(a) = IF peers[first].active THEN peers
                           ELSE Append(RemoveAt(peers, first), new)
      BY <1>2, <2>4, Zenon DEF GetOrCreate, new
    <3> HIDE DEF first
    <3>5. CASE peers[m].active
      <4>1. GetOrCreate(a) = peers
        BY <3>3, <3>4, <3>5
      <4>2. peers[m].active /\ peers[m].listed /\ Endpoint(peers[m].addr) = Endpoint(a)
        BY <2>2, <3>1, <3>5
      <4> QED
        BY <1>0, <3>1, <4>1, <4>2, Zenon
    <3>6. CASE ~peers[m].active
      <4> DEFINE rest == RemoveAt(peers, m)
      <4>1. rest \in Seq(Peers) /\ Len(rest) = Len(peers) - 1
        BY <1>0, <3>1, RemoveAtProperties
      <4>2. ActiveOn(rest, fd) /\ OnePerEndpoint(rest)
        BY <1>0, <3>1, RemovePeerKeeps
      <4>3. \A k \in 1..(Len(peers) - 1) : rest[k] = peers[IF k < m THEN k ELSE k + 1]
        BY <1>0, <3>1, RemoveAtProperties
      <4> HIDE DEF rest
      <4>4. \A k \in 1..Len(rest) :
               rest[k].listed => Endpoint(rest[k].addr) # Endpoint(new.addr)
        <5> TAKE k \in 1..Len(rest)
        <5> DEFINE old == IF k < m THEN k ELSE k + 1
        <5>1. old \in 1..Len(peers) /\ old # m
          BY <1>0, <3>1, <4>1
        <5>2. rest[k] = peers[old]
          BY <4>1, <4>3
        <5> HIDE DEF old
        <5>3. old \notin Matches(a)
          BY <3>2, <5>1
        <5> QED
          BY <2>1, <2>2, <5>1, <5>2, <5>3
      <4>5. /\ Append(rest, new) \in Seq(Peers)
            /\ ActiveOn(Append(rest, new), new.made_on) /\ OnePerEndpoint(Append(rest, new))
            /\ Len(Append(rest, new)) \in 1..Len(Append(rest, new))
            /\ Append(rest, new)[Len(Append(rest, new))] = new
        BY <2>1, <4>1, <4>2, <4>4, AddPeerKeeps
      <4>6. GetOrCreate(a) = Append(rest, new)
        BY <3>3, <3>4, <3>6 DEF rest
      <4> QED
        BY <2>1, <4>5, <4>6, Zenon
    <3> QED
      BY <3>5, <3>6
  <2> QED
    BY <2>3, <2>4
<1> QED
  BY <1>1, <1>2

-----------------------------------------------------------------------------
(* The invariant is inductive.                                             *)

\* The constructors establish it.
LEMMA UdpInit == Init => UdpInv
<1> SUFFICES ASSUME Init PROVE UdpInv
  OBVIOUS
<1>1. fd \in 0..MaxFds /\ fds \in 1..MaxFds /\ fd <= fds /\ open \subseteq 1..MaxFds
  BY UdpAssumption DEF Init
<1>2. job \in Jobs /\ job.candidate = 0 /\ job.candidate <= fds
  BY <1>1, UdpAssumption DEF Init, NoJob, Jobs
<1>3. connected \in BOOLEAN /\ ~connected /\ server \in BOOLEAN /\ blocking \in BOOLEAN
  BY DEF Init
<1>4. nonblock \in BOOLEAN /\ nonblock = ~blocking
  BY Zenon DEF Init
<1>5. peers = <<>> /\ peers \in Seq(Peers) /\ Len(peers) = 0
  BY DEF Init
<1>6. TypeOK
  BY <1>1, <1>2, <1>3, <1>4, <1>5, UdpAssumption DEF Init, TypeOK
<1>7. DescriptorsOwned /\ CandidatesAreNew
  BY <1>1, <1>2, <1>4, <1>6 DEF DescriptorsOwned, CandidatesAreNew, Init
<1>8. PeersAreCurrent /\ ClientHasNoPeers
  BY <1>5 DEF PeersAreCurrent, ClientHasNoPeers
<1>9. EndpointsAgree
  BY DEF Init, EndpointsAgree
<1> QED
  BY <1>7, <1>8, <1>9 DEF UdpInv

\* After a step that sends nothing and starts no handler there is nothing to
\* agree on.
LEMMA QuietAgrees == Quiet => EndpointsAgree'
  BY DEF Quiet, EndpointsAgree

\* The parts of the invariant that a step on peers alone must establish.
LEMMA PeersStep ==
  ASSUME UdpInv, UNCHANGED <<server, fd, family, connected, blocking, nonblock, job, open, fds>>,
         remote_addr' \in Addresses \cup {NoAddress}, ops' \in 0..MaxOps, closing' \in Nat,
         peers' \in Seq(Peers), ActiveOn(peers', fd), OnePerEndpoint(peers'),
         server \/ peers' = <<>>, EndpointsAgree'
  PROVE  UdpInv'
<1>1. TypeOK'
  BY DEF UdpInv, DescriptorsOwned, TypeOK
<1>2. DescriptorsOwned' /\ CandidatesAreNew'
  BY <1>1 DEF UdpInv, DescriptorsOwned, CandidatesAreNew
<1>3. PeersAreCurrent'
  BY DEF PeersAreCurrent, ActiveOn, OnePerEndpoint
<1>4. ClientHasNoPeers'
  BY DEF ClientHasNoPeers
<1> QED
  BY <1>2, <1>3, <1>4 DEF UdpInv

\* What the invariant says of the peers, and the types of the other variables.
LEMMA InvFacts ==
  ASSUME UdpInv
  PROVE  /\ peers \in Seq(Peers) /\ ActiveOn(peers, fd) /\ OnePerEndpoint(peers)
         /\ server \/ peers = <<>>
         /\ remote_addr \in Addresses \cup {NoAddress}
         /\ ops \in 0..MaxOps /\ closing \in Nat /\ family \in {"inet", "inet6"}
         /\ fd \in 0..MaxFds /\ fds \in 1..MaxFds
         /\ \A i \in 1..Len(peers) : peers[i] \in Peers /\ peers[i].addr \in Addresses
<1>1. peers \in Seq(Peers)
  BY DEF UdpInv, DescriptorsOwned, TypeOK
<1>2. \A i \in 1..Len(peers) : peers[i] \in Peers
  BY <1>1
<1>3. ActiveOn(peers, fd) /\ OnePerEndpoint(peers)
  BY DEF UdpInv, PeersAreCurrent, ActiveOn, OnePerEndpoint
<1>4. \A i \in 1..Len(peers) : peers[i].addr \in Addresses
  BY <1>2 DEF Peers
<1> QED
  BY <1>1, <1>2, <1>3, <1>4 DEF UdpInv, DescriptorsOwned, TypeOK, ClientHasNoPeers

\* Every call on peers, and every datagram, keeps the invariant.
LEMMA PeerSteps ==
  ASSUME UdpInv,
         \/ \E a \in Addresses : GetPeer(a)
         \/ \E i \in 1..Len(peers) : RemovePeer(i) \/ MembersRemove(i) \/ ClosePeer(i)
         \/ \E a \in Sources : Datagram(a)
         \/ CloseAgain \/ CloseReturn
  PROVE  UdpInv'
<1> USE UdpAssumption
<1>1. ASSUME NEW a \in Addresses, GetPeer(a) PROVE UdpInv'
  BY <1>1, GetOrCreateKeeps, InvFacts, PeersStep, QuietAgrees DEF GetPeer, sockVars
<1>2. ASSUME NEW i \in 1..Len(peers), RemovePeer(i) PROVE UdpInv'
  <2>1. RemoveAt(peers, i) \in Seq(Peers)
    BY InvFacts, RemoveAtProperties
  <2>2. ActiveOn(RemoveAt(peers, i), fd) /\ OnePerEndpoint(RemoveAt(peers, i))
    BY InvFacts, RemovePeerKeeps
  <2> QED
    BY <1>2, <2>1, <2>2, InvFacts, PeersStep, QuietAgrees DEF RemovePeer, sockVars
<1>3. ASSUME NEW i \in 1..Len(peers), ClosePeer(i) PROVE UdpInv'
  <2>1. peers' \in Seq(Peers) /\ ActiveOn(peers', fd) /\ OnePerEndpoint(peers')
    BY <1>3, InvFacts, ClosePeerKeeps DEF ClosePeer
  <2>2. server
    BY InvFacts
  <2> QED
    BY <1>3, <2>1, <2>2, InvFacts, PeersStep, QuietAgrees DEF ClosePeer, sockVars
<1>4. ASSUME NEW a \in Sources, Datagram(a) PROVE UdpInv'
  <2>1. a \in Addresses
    BY DEF Sources, Addresses
  <2>2. CASE server
    <3>1. peers' = GetOrCreate(a) /\ fd # 0 /\ fd' = fd
      BY <1>4, <2>2 DEF Datagram
    <3>2. peers' \in Seq(Peers) /\ ActiveOn(peers', fd) /\ OnePerEndpoint(peers')
      BY <2>1, <3>1, GetOrCreateKeeps
    <3>3. \E i \in 1..Len(peers') : /\ peers'[i].active /\ peers'[i].listed
                                    /\ Endpoint(peers'[i].addr) = Endpoint(a)
      BY <2>1, <3>1, GetOrCreateKeeps
    <3>4. EndpointsAgree'
      BY <1>4, <3>3 DEF Datagram, EndpointsAgree
    <3> QED
      BY <1>4, <2>1, <2>2, <3>2, <3>4, InvFacts, PeersStep DEF Datagram
  <2>3. CASE ~server
    <3>1. EndpointsAgree'
      BY <1>4, <2>3 DEF Datagram, EndpointsAgree
    <3> QED
      BY <1>4, <2>1, <2>3, <3>1, InvFacts, PeersStep DEF Datagram
  <2> QED
    BY <2>2, <2>3
<1>5. CASE CloseAgain
  BY <1>5, ClosedKeeps, InvFacts, PeersStep, QuietAgrees DEF CloseAgain, sockVars
<1>6. CASE CloseReturn
  BY <1>6, ClosedKeeps, InvFacts, PeersStep, QuietAgrees DEF CloseReturn, sockVars
<1>7. ASSUME NEW i \in 1..Len(peers), MembersRemove(i) PROVE UdpInv'
  <2>1. peers' \in Seq(Peers) /\ ActiveOn(peers', fd) /\ OnePerEndpoint(peers')
    BY <1>7, InvFacts, MembersRemoveKeeps DEF MembersRemove
  <2> QED
    BY <1>7, <2>1, InvFacts, PeersStep, QuietAgrees DEF MembersRemove, sockVars
<1> QED
  BY <1>1, <1>2, <1>3, <1>4, <1>5, <1>6, <1>7

\* A datagram that is sent keeps the invariant.
LEMMA SendStep ==
  ASSUME UdpInv, NEW a \in Addresses \cup {NoAddress}, NEW usable, Send(a, usable)
  PROVE  UdpInv'
<1>1. Target(a).family = family /\ Endpoint(Target(a)) = Endpoint(a)
  BY InvFacts, TargetAgrees DEF Send
<1>2. EndpointsAgree'
  BY <1>1 DEF Send, EndpointsAgree, sockVars
<1> QED
  BY <1>2, InvFacts, PeersStep DEF Send, sockVars

-----------------------------------------------------------------------------
(* Descriptors.                                                            *)

\* What the invariant says of descriptors.
LEMMA DescriptorFacts ==
  ASSUME UdpInv
  PROVE  /\ fd \in 0..MaxFds /\ fds \in 1..MaxFds /\ fd <= fds
         /\ open = {fd, job.candidate} \ {0} /\ job.candidate <= fds
         /\ job \in Jobs /\ job.candidate \in 0..MaxFds
         /\ job.candidate # 0 => job.candidate # fd /\ job.left # <<>>
         /\ Free <=> job.left = <<>> /\ job.candidate = 0
         /\ blocking \in BOOLEAN /\ nonblock \in BOOLEAN /\ connected \in BOOLEAN
         /\ server \in BOOLEAN
<1>1. TypeOK
  BY DEF UdpInv, DescriptorsOwned
<1>2. job \in Jobs
  BY <1>1 DEF TypeOK
<1>3. job.candidate \in 0..MaxFds /\ (Free <=> job.left = <<>> /\ job.candidate = 0)
  BY <1>2 DEF Jobs, Free, NoJob
<1> QED
  BY <1>1, <1>2, <1>3 DEF UdpInv, TypeOK, DescriptorsOwned, CandidatesAreNew

\* A step on descriptors keeps the invariant when the peers that stay active
\* were made on the new one.
LEMMA DescriptorStep ==
  ASSUME UdpInv, UNCHANGED server, EndpointsAgree',
         fd' \in 0..MaxFds, fds' \in 1..MaxFds, fd' <= fds', family' \in {"inet", "inet6"},
         connected' \in BOOLEAN, connected' => fd' # 0,
         remote_addr' \in Addresses \cup {NoAddress},
         blocking' \in BOOLEAN, nonblock' \in BOOLEAN, fd' # 0 => nonblock' = ~blocking',
         job' \in Jobs, job'.candidate <= fds',
         job'.candidate # 0 => job'.candidate # fd' /\ job'.left # <<>>,
         open' = {fd', job'.candidate} \ {0},
         peers' \in Seq(Peers), ActiveOn(peers', fd'), OnePerEndpoint(peers'),
         server \/ peers' = <<>>,
         ops' \in 0..MaxOps, closing' \in Nat
  PROVE  UdpInv'
<1>1. open' \subseteq 1..MaxFds
  BY UdpAssumption DEF Jobs
<1>2. server' \in BOOLEAN
  BY DescriptorFacts
<1>3. TypeOK'
  BY <1>1, <1>2 DEF TypeOK
<1>4. DescriptorsOwned' /\ CandidatesAreNew'
  BY <1>3 DEF DescriptorsOwned, CandidatesAreNew
<1>5. PeersAreCurrent' /\ ClientHasNoPeers'
  BY DEF PeersAreCurrent, ActiveOn, OnePerEndpoint, ClientHasNoPeers
<1> QED
  BY <1>4, <1>5 DEF UdpInv

\* set_blocking keeps the mode of the descriptor and the flag together.
LEMMA SetBlockingStep ==
  ASSUME UdpInv, NEW flag \in BOOLEAN, SetBlocking(flag)
  PROVE  UdpInv'
<1>1. /\ blocking' \in BOOLEAN /\ nonblock' \in BOOLEAN /\ nonblock' = ~blocking'
  BY Zenon DEF SetBlocking
<1>2. /\ UNCHANGED <<server, fd, family, connected, remote_addr, peers, job, closing, open, fds>>
      /\ ops' \in 0..MaxOps
  BY InvFacts, UdpAssumption DEF SetBlocking
<1>3. EndpointsAgree'
  BY QuietAgrees DEF SetBlocking
<1>4. connected => fd # 0
  BY DEF UdpInv, DescriptorsOwned, TypeOK
<1> QED
  BY <1>1, <1>2, <1>3, <1>4, InvFacts, DescriptorFacts, DescriptorStep

\* select_family gives a candidate the mode of the flag.
LEMMA AdoptMode ==
  ASSUME NEW c, NEW f, Adopt(c, f), blocking \in BOOLEAN, UNCHANGED blocking
  PROVE  blocking' \in BOOLEAN /\ nonblock' \in BOOLEAN /\ nonblock' = ~blocking'
  BY Zenon DEF Adopt, CandidateMode

\* udp_connect keeps the invariant: a client has no peers, and the descriptor it
\* leaves is closed.
LEMMA UdpConnectStep ==
  ASSUME UdpInv, NEW a \in Addresses, UdpConnect(a)
  PROVE  UdpInv'
<1>1. /\ UNCHANGED <<server, blocking, peers, job, closing>> /\ ops' \in 0..MaxOps
      /\ remote_addr' = a /\ connected' \in BOOLEAN /\ ~server /\ Free
  BY InvFacts, UdpAssumption DEF UdpConnect
<1>2. EndpointsAgree'
  BY QuietAgrees DEF UdpConnect
<1>3. job.left = <<>> /\ job.candidate = 0 /\ open = {fd} \ {0}
  BY <1>1, DescriptorFacts
<1>4. peers' = <<>> /\ peers' \in Seq(Peers) /\ ActiveOn(peers', fd') /\ OnePerEndpoint(peers')
  BY <1>1, InvFacts DEF ActiveOn, OnePerEndpoint
<1>5. CASE fd = 0 \/ family # a.family
  <2>1. fds < MaxFds /\ fds' = fds + 1 /\ Adopt(fds + 1, a.family)
    BY <1>5 DEF UdpConnect
  <2>2. /\ fd' \in 1..MaxFds /\ fds' \in 1..MaxFds /\ fd' <= fds' /\ fd' # 0
        /\ open' = {fd'} /\ fd # fd'
    BY <1>3, <2>1, DescriptorFacts, UdpAssumption DEF Adopt
  <2>3. family' \in {"inet", "inet6"}
    BY <2>1, AddressFields DEF Adopt
  <2>4. blocking' \in BOOLEAN /\ nonblock' \in BOOLEAN /\ nonblock' = ~blocking'
    BY <1>1, <2>1, AdoptMode, DescriptorFacts
  <2> QED
    BY <1>1, <1>2, <1>3, <1>4, <2>2, <2>3, <2>4, InvFacts, DescriptorFacts, DescriptorStep
<1>6. CASE ~(fd = 0 \/ family # a.family)
  <2>1. UNCHANGED <<fd, family, nonblock, open, fds>>
    BY <1>6 DEF UdpConnect
  <2>2. nonblock' = ~blocking'
    BY <1>1, <1>6, <2>1 DEF UdpInv, DescriptorsOwned
  <2> QED
    BY <1>1, <1>2, <1>3, <1>4, <1>6, <2>1, <2>2, InvFacts, DescriptorFacts, DescriptorStep
<1> QED
  BY <1>5, <1>6

\* The steps of udp_listen before a candidate is bound keep all but the job, the
\* candidates and their number.
LEMMA JobStep ==
  ASSUME UdpInv, Quiet, UNCHANGED <<server, sockVars, peers, closing, ops>>,
         fds' \in 1..MaxFds, fds <= fds', job' \in Jobs, job'.candidate <= fds',
         job'.candidate # 0 => job'.candidate # fd /\ job'.left # <<>>,
         open' = {fd, job'.candidate} \ {0}
  PROVE  UdpInv'
<1>1. /\ (connected => fd # 0) /\ (fd # 0 => nonblock = ~blocking)
  BY DEF UdpInv, DescriptorsOwned, TypeOK
<1>2. fd <= fds'
  BY DescriptorFacts
<1> QED
  BY <1>1, <1>2, InvFacts, DescriptorFacts, DescriptorStep, QuietAgrees DEF sockVars

\* Every step of udp_listen keeps the invariant.
LEMMA ListenSteps ==
  ASSUME UdpInv, UdpListen \/ SelectFamily \/ SelectFails \/ BindFails \/ BindSucceeds
  PROVE  UdpInv'
<1> USE UdpAssumption
<1>0. /\ job.left \in {<<"inet6", "inet">>, <<"inet">>, <<>>}
      /\ job = [left |-> job.left, candidate |-> job.candidate]
      /\ job.left # <<>> => /\ Tail(job.left) \in {<<"inet6", "inet">>, <<"inet">>, <<>>}
                            /\ Head(job.left) \in {"inet", "inet6"}
  <2>1. /\ job.left \in {<<"inet6", "inet">>, <<"inet">>, <<>>}
        /\ job = [left |-> job.left, candidate |-> job.candidate]
    BY DescriptorFacts DEF Jobs
  <2>2. /\ Tail(<<"inet6", "inet">>) = <<"inet">> /\ Head(<<"inet6", "inet">>) = "inet6"
        /\ Tail(<<"inet">>) = <<>> /\ Head(<<"inet">>) = "inet"
    OBVIOUS
  <2> QED
    BY <2>1, <2>2
<1>1. CASE UdpListen
  <2>1. job'.left = <<"inet6", "inet">> /\ job'.candidate = 0 /\ job' \in Jobs
    BY <1>1 DEF UdpListen, Jobs
  <2> QED
    BY <1>1, <2>1, JobStep, DescriptorFacts DEF UdpListen
<1>2. CASE SelectFamily
  <2>1. fds' \in 1..MaxFds /\ fds' = fds + 1 /\ fd # fds'
    BY <1>2, DescriptorFacts DEF SelectFamily
  <2>2. job'.left = job.left /\ job'.candidate = fds' /\ job' \in Jobs
    BY <1>0, <1>2, <2>1 DEF SelectFamily, Jobs
  <2>3. open' = {fd, job'.candidate} \ {0}
    BY <1>2, <2>1, <2>2, DescriptorFacts DEF SelectFamily
  <2> QED
    BY <1>2, <2>1, <2>2, <2>3, JobStep, DescriptorFacts DEF SelectFamily
<1>3. CASE SelectFails
  <2>1. job'.left = Tail(job.left) /\ job'.candidate = 0 /\ job' \in Jobs
    <3>1. job.left # <<>> /\ job.candidate = 0 /\ job' = [job EXCEPT !.left = Tail(job.left)]
      BY <1>3 DEF SelectFails
    <3>2. job'.left = Tail(job.left) /\ job'.candidate = 0
      BY <1>0, <3>1
    <3>3. job' = [left |-> job'.left, candidate |-> job'.candidate]
      BY <1>0, <3>1
    <3>4. /\ job'.left \in {<<"inet6", "inet">>, <<"inet">>, <<>>}
          /\ job'.candidate \in 0..MaxFds
      BY <1>0, <3>1, <3>2
    <3> QED
      BY <3>2, <3>3, <3>4 DEF Jobs
  <2> QED
    BY <1>3, <2>1, JobStep, DescriptorFacts DEF SelectFails
<1>4. CASE BindFails
  <2>1. job'.left = Tail(job.left) /\ job'.candidate = 0 /\ job' \in Jobs
    BY <1>0, <1>4, DescriptorFacts DEF BindFails, Jobs
  <2>2. open' = {fd, job'.candidate} \ {0}
    BY <1>4, <2>1, DescriptorFacts DEF BindFails
  <2> QED
    BY <1>4, <2>1, <2>2, JobStep, DescriptorFacts DEF BindFails
<1>5. CASE BindSucceeds
  <2>1. fd' = job.candidate /\ fd' # 0 /\ fd' # fd /\ fd' \in 0..MaxFds /\ fd' <= fds
    BY <1>5, DescriptorFacts DEF BindSucceeds, Adopt
  <2>2. job' \in Jobs /\ job'.candidate = 0
    BY <1>5 DEF BindSucceeds, NoJob, Jobs
  <2>3. open' = {fd', job'.candidate} \ {0}
    BY <1>5, <2>1, <2>2, DescriptorFacts DEF BindSucceeds, Adopt
  <2>4. blocking' \in BOOLEAN /\ nonblock' \in BOOLEAN /\ nonblock' = ~blocking'
    BY <1>5, AdoptMode, DescriptorFacts DEF BindSucceeds
  <2>5. /\ peers' \in Seq(Peers) /\ ActiveOn(peers', fd') /\ OnePerEndpoint(peers')
        /\ server \/ peers' = <<>>
    BY <1>5, InvFacts, ClosedKeeps DEF BindSucceeds
  <2>6. /\ family' \in {"inet", "inet6"} /\ connected' \in BOOLEAN /\ ~connected'
        /\ remote_addr' = NoAddress /\ UNCHANGED <<server, closing, fds, ops>>
    BY <1>0, <1>5, DescriptorFacts DEF BindSucceeds, Adopt
  <2>7. EndpointsAgree'
    BY <1>5, QuietAgrees DEF BindSucceeds
  <2> QED
    BY <2>1, <2>2, <2>3, <2>4, <2>5, <2>6, <2>7, InvFacts, DescriptorFacts, DescriptorStep
<1> QED
  BY <1>1, <1>2, <1>3, <1>4, <1>5

\* close() keeps the invariant: it leaves no descriptor, and peers that are
\* closed when its handler returns.
LEMMA CloseStep ==
  ASSUME UdpInv, Close
  PROVE  UdpInv'
<1>1. job' = job /\ job.left = <<>> /\ job.candidate = 0 /\ fd' = 0 /\ open' = {}
  BY DescriptorFacts DEF Close
<1>2. ActiveOn(peers', fd')
  BY <1>1 DEF ActiveOn
<1>3. connected' \in BOOLEAN /\ ~connected' /\ closing' = closing + 1
  BY DEF Close
<1>4. UNCHANGED <<server, family, remote_addr, blocking, nonblock, peers, fds, ops>>
  BY DEF Close
<1>5. EndpointsAgree'
  BY QuietAgrees DEF Close
<1> QED
  BY <1>1, <1>2, <1>3, <1>4, <1>5, InvFacts, DescriptorFacts, DescriptorStep, UdpAssumption

\* Every step keeps the invariant.
LEMMA UdpStep == UdpInv /\ [Next]_vars => UdpInv'
<1> SUFFICES ASSUME UdpInv, [Next]_vars PROVE UdpInv'
  OBVIOUS
<1>1. CASE \/ \E a \in Addresses : GetPeer(a)
           \/ \E i \in 1..Len(peers) : RemovePeer(i) \/ MembersRemove(i) \/ ClosePeer(i)
           \/ \E a \in Sources : Datagram(a)
           \/ CloseAgain \/ CloseReturn
  BY <1>1, PeerSteps
<1>2. ASSUME NEW i \in 1..Len(peers), Send(peers[i].addr, peers[i].active) PROVE UdpInv'
  BY <1>2, InvFacts, SendStep
<1>3. CASE Send(remote_addr, TRUE)
  BY <1>3, InvFacts, SendStep
<1>4. ASSUME NEW flag \in BOOLEAN, SetBlocking(flag) PROVE UdpInv'
  BY <1>4, SetBlockingStep
<1>5. ASSUME NEW a \in Addresses, UdpConnect(a) PROVE UdpInv'
  BY <1>5, UdpConnectStep
<1>6. CASE UdpListen \/ SelectFamily \/ SelectFails \/ BindFails \/ BindSucceeds
  BY <1>6, ListenSteps
<1>7. CASE Close
  BY <1>7, CloseStep
<1>8. CASE UNCHANGED vars
  <2>1. EndpointsAgree'
    BY <1>8 DEF UdpInv, EndpointsAgree, vars, sockVars
  <2> QED
    BY <1>8, <2>1, InvFacts, PeersStep DEF vars, sockVars
<1> QED
  BY <1>1, <1>2, <1>3, <1>4, <1>5, <1>6, <1>7, <1>8, Zenon DEF Next

\* The invariant holds through every rebind, close and handler.
LEMMA UdpInductive == Spec => []UdpInv
<1>1. Init => UdpInv
  BY UdpInit
<1>2. UdpInv /\ [Next]_vars => UdpInv'
  BY UdpStep
<1> QED
  BY <1>1, <1>2, PTL DEF Spec

-----------------------------------------------------------------------------
\* A rebind or a change of family leaks no descriptor, closes the one it replaces
\* and no other, and gives the new one the socket's blocking mode
\* (udp_socket::udp_listen, select_family).
THEOREM DescriptorsTheorem == Spec => []DescriptorsOwned
<1>1. UdpInv => DescriptorsOwned
  BY DEF UdpInv
<1> QED
  BY <1>1, UdpInductive, PTL

\* After any rebind, close or handler of them, an active peer belongs to the
\* present binding, and an endpoint has one peer in the member view, in whatever
\* form the kernel or the caller names it and whatever the application removed from
\* the view (udp_server_socket::get_or_create_udp_peer).
THEOREM PeersTheorem == Spec => []PeersAreCurrent
<1>1. UdpInv => PeersAreCurrent
  BY DEF UdpInv
<1> QED
  BY <1>1, UdpInductive, PTL

\* What is sent names the caller's endpoint in the family of the descriptor, and
\* a received datagram finds an active peer of its sender in the member view.
THEOREM EndpointsTheorem == Spec => []EndpointsAgree
<1>1. UdpInv => EndpointsAgree
  BY DEF UdpInv
<1> QED
  BY <1>1, UdpInductive, PTL

\* While udp_listen tries candidates the socket and its peers stay as they were,
\* until one is bound.
THEOREM RebindTheorem == Spec => RebindAllOrNothing
<1>1. UdpInv /\ [Next]_vars => [~Free /\ fd' = fd => UNCHANGED <<sockVars, peers>>]_vars
  <2> SUFFICES ASSUME UdpInv, Next, ~Free, fd' = fd
               PROVE  UNCHANGED <<sockVars, peers>>
    OBVIOUS
  <2>1. SelectFamily \/ SelectFails \/ BindFails \/ BindSucceeds
    BY DEF Next, GetPeer, RemovePeer, MembersRemove, ClosePeer, Send, Datagram, SetBlocking,
           UdpConnect, UdpListen, Close, CloseAgain, CloseReturn
  <2>2. ~BindSucceeds
    BY DescriptorFacts DEF BindSucceeds, Adopt
  <2> QED
    BY <2>1, <2>2 DEF SelectFamily, SelectFails, BindFails
<1> QED
  BY <1>1, UdpInductive, PTL DEF Spec, RebindAllOrNothing
==============================================================================
