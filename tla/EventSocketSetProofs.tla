------------------------ MODULE EventSocketSetProofs ------------------------
(***************************************************************************)
(* Proofs about EventSocketSet, for any sockets, any number of             *)
(* registrations and operations, with or without threads, destruction and  *)
(* reuse of descriptor numbers.                                            *)
(***************************************************************************)
EXTENDS EventSocketSet, SequenceTheorems, FiniteSetTheorems, WellFoundedInduction, TLAPS

-----------------------------------------------------------------------------
(* The inductive invariant.                                                *)

RegTypes ==
    /\ tokens \in Seq(Sockets) /\ active \subseteq Nat
    /\ tcp \in Seq(Nat) /\ udp \in Seq(Nat)

\* The registries: besides RegistryConsistent, no token is entered twice, and a
\* registered object exists (it is destroyed only after its deregistration).
RegInv ==
    /\ active = ToSet(tcp) \union ToSet(udp)
    /\ \A t \in active : t \in DOMAIN tokens
    /\ \A t \in ToSet(tcp) : tokens[t] \in Tcp
    /\ \A t \in ToSet(udp) : tokens[t] \in Datagrams
    /\ \A t, u \in active : tokens[t] = tokens[u] => t = u
    /\ \A i, j \in DOMAIN tcp : tcp[i] = tcp[j] => i = j
    /\ \A i, j \in DOMAIN udp : udp[i] = udp[j] => i = j
    /\ \A t \in active : tokens[t] \in alive

\* The snapshot names each socket once: in what is not looked at yet, in what is
\* watched, and across the two.
SnapshotInv ==
    /\ \A i \in DOMAIN snap : snap[i] \in DOMAIN tokens
    /\ \A k \in DOMAIN watched : watched[k].tok \in DOMAIN tokens
    /\ \A i, j \in DOMAIN snap : tokens[snap[i]] = tokens[snap[j]] => i = j
    /\ \A k, l \in DOMAIN watched : tokens[watched[k].tok] = tokens[watched[l].tok] => k = l
    /\ \A k \in DOMAIN watched, i \in DOMAIN snap : tokens[watched[k].tok] # tokens[snap[i]]
    /\ pc = "snapshot" => watched = <<>> /\ \A i \in DOMAIN snap : tokens[snap[i]] \in Tcp
    /\ pc = "idle" => watched = <<>> /\ snap = <<>>
    /\ pc = "dispatch" => snap = <<>>

\* Where numbers are not reused, a socket with the descriptor that was watched
\* still has the connection that was watched.
NumbersInv ==
    /\ \A s \in Sockets : fd[s] <= lastFd
    /\ \A k \in DOMAIN watched : watched[k].fd # 0 /\ watched[k].fd <= lastFd
    /\ ~Reuse => \A k \in DOMAIN watched :
          fd[tokens[watched[k].tok]] = watched[k].fd => gen[tokens[watched[k].tok]] = watched[k].gen

\* Steps that read the socket without asking for its registration again.
Unguarded == {"sock", "close", "call"}

\* Only the first step of a script is unguarded ...
Guarded(script) == script \in Seq(Entries) /\ \A k \in 1..Len(script) : script[k].op \notin Unguarded
ScriptOK(script) == script \in Seq(Entries) /\ \A k \in 2..Len(script) : script[k].op \notin Unguarded

\* ... and it is taken before any callback runs: on the object that was checked, with
\* the descriptor that was checked or, for a call of the set's handlers, under the
\* registration that was checked, unless another thread took it away.
ScriptInv ==
    /\ ScriptOK(todo)
    /\ pc # "dispatch" => todo = <<>> /\ cb = NoCallback
    /\ todo # <<>> \/ cb # NoCallback => cursor \in 1..Len(watched)
    /\ cursor <= Len(watched)
    /\ todo # <<>> /\ todo[1].op \in Unguarded => cb = NoCallback /\ Subject \in alive
    /\ todo # <<>> /\ todo[1].op \in {"sock", "close"} => IsSame
    /\ todo # <<>> /\ todo[1].op = "call" => Current.tok \in active \union late

PollInv ==
    /\ TypeOK /\ ~usedDead
    /\ RegInv /\ SnapshotInv /\ NumbersInv /\ ScriptInv

-----------------------------------------------------------------------------
(* Registrations.                                                          *)

\* erase() of entry i of a registry without duplicates removes that token only.
LEMMA EraseFacts ==
  ASSUME NEW r \in Seq(Nat), NEW i \in DOMAIN r,
         \A j, k \in DOMAIN r : r[j] = r[k] => j = k
  PROVE  /\ Erase(r, i) \in Seq(Nat)
         /\ ToSet(Erase(r, i)) = ToSet(r) \ {r[i]}
         /\ \A j, k \in DOMAIN Erase(r, i) : Erase(r, i)[j] = Erase(r, i)[k] => j = k
<1> DEFINE e == Erase(r, i)
           Old(k) == IF k < i THEN k ELSE k + 1
<1>0. Len(r) \in Nat /\ DOMAIN r = 1..Len(r) /\ \A k \in 1..Len(r) : r[k] \in Nat
  OBVIOUS
<1>1. e = [k \in 1..(Len(r) - 1) |-> r[Old(k)]]
  BY DEF Erase
<1>2. \A k \in 1..(Len(r) - 1) : Old(k) \in 1..Len(r) /\ Old(k) # i
  BY <1>0
<1>3. \A j, k \in 1..(Len(r) - 1) : Old(j) = Old(k) => j = k
  BY <1>0
<1>4. \A j \in 1..Len(r) : j # i => \E k \in 1..(Len(r) - 1) : j = Old(k)
  <2> TAKE j \in 1..Len(r)
  <2> HAVE j # i
  <2>1. CASE j < i
    BY <1>0, <2>1
  <2>2. CASE j > i
    <3>1. j - 1 \in 1..(Len(r) - 1) /\ j = Old(j - 1)
      BY <1>0, <2>2
    <3> QED
      BY <3>1
  <2> QED
    BY <1>0, <2>1, <2>2
<1> HIDE DEF Old
<1>5. DOMAIN e = 1..(Len(r) - 1) /\ \A k \in 1..(Len(r) - 1) : e[k] = r[Old(k)]
  BY <1>1
<1>6. e \in Seq(Nat)
  <2>1. Len(r) - 1 \in Nat
    BY <1>0
  <2>2. \A k \in 1..(Len(r) - 1) : r[Old(k)] \in Nat
    BY <1>0, <1>2
  <2> QED
    BY <1>1, <2>1, <2>2
<1> HIDE DEF e
<1>7. ToSet(e) = ToSet(r) \ {r[i]}
  <2>1. \A x \in ToSet(e) : x \in ToSet(r) \ {r[i]}
    <3> TAKE x \in ToSet(e)
    <3>1. PICK k \in 1..(Len(r) - 1) : x = r[Old(k)]
      BY <1>5 DEF ToSet
    <3>2. Old(k) \in DOMAIN r /\ Old(k) # i
      BY <1>0, <1>2
    <3> QED
      BY <3>1, <3>2 DEF ToSet
  <2>2. \A x \in ToSet(r) \ {r[i]} : x \in ToSet(e)
    <3> TAKE x \in ToSet(r) \ {r[i]}
    <3>1. PICK j \in 1..Len(r) : x = r[j] /\ j # i
      BY <1>0 DEF ToSet
    <3>2. PICK k \in 1..(Len(r) - 1) : j = Old(k)
      BY <1>4, <3>1
    <3> QED
      BY <1>5, <3>1, <3>2 DEF ToSet
  <2> QED
    BY <2>1, <2>2
<1>8. \A j, k \in DOMAIN e : e[j] = e[k] => j = k
  BY SMTT(30), <1>0, <1>2, <1>3, <1>5
<1> QED
  BY <1>6, <1>7, <1>8 DEF e

\* The tokens so far keep their sockets: a registration is only ever added.
TokensKept ==
    /\ DOMAIN tokens \subseteq DOMAIN tokens'
    /\ \A t \in DOMAIN tokens : tokens'[t] = tokens[t]

\* add() keeps the registries consistent: the new token is in one of them only.
LEMMA AddStep ==
  ASSUME RegTypes, RegInv, NEW s \in alive, alive \subseteq Sockets, Add(s)
  PROVE  RegTypes' /\ RegInv' /\ TokensKept /\ UNCHANGED objVars
<1> DEFINE n == Len(tokens) + 1
<1>0. /\ Len(tokens) \in Nat /\ DOMAIN tokens = 1..Len(tokens) /\ s \in Sockets
      /\ n \in Nat /\ n \notin DOMAIN tokens
  BY DEF RegTypes
<1>1. /\ tokens' = Append(tokens, s) /\ active' = active \union {n} /\ UNCHANGED objVars
      /\ \A t \in active : tokens[t] # s
  BY DEF Add, Registered
<1>2. /\ tokens' \in Seq(Sockets) /\ DOMAIN tokens' = 1..n
      /\ \A t \in DOMAIN tokens : tokens'[t] = tokens[t]
      /\ tokens'[n] = s
  BY <1>0, <1>1 DEF RegTypes
<1>3. TokensKept
  BY <1>0, <1>2 DEF TokensKept
<1>4. \A r \in Seq(Nat) : /\ Append(r, n) \in Seq(Nat)
                          /\ ToSet(Append(r, n)) = ToSet(r) \union {n}
                          /\ n \notin ToSet(r) /\ (\A i, j \in DOMAIN r : r[i] = r[j] => i = j) =>
                                \A i, j \in DOMAIN Append(r, n) :
                                    Append(r, n)[i] = Append(r, n)[j] => i = j
  <2> TAKE r \in Seq(Nat)
  <2> DEFINE a == Append(r, n)
  <2>1. /\ a \in Seq(Nat) /\ Len(r) \in Nat /\ DOMAIN a = 1..(Len(r) + 1) /\ DOMAIN r = 1..Len(r)
        /\ a[Len(r) + 1] = n /\ \A i \in 1..Len(r) : a[i] = r[i]
    BY <1>0
  <2> HIDE DEF a
  <2>2. \A i \in 1..(Len(r) + 1) : i \in 1..Len(r) \/ i = Len(r) + 1
    BY <2>1
  <2>2a. \A i \in 1..Len(r) : i \in 1..(Len(r) + 1)
    BY <2>1
  <2>2b. Len(r) + 1 \in 1..(Len(r) + 1)
    BY <2>1
  <2>3. ToSet(a) = ToSet(r) \union {n}
    BY <2>1, <2>2, <2>2a, <2>2b DEF ToSet
  <2>4. n \notin ToSet(r) /\ (\A i, j \in DOMAIN r : r[i] = r[j] => i = j) =>
           \A i, j \in DOMAIN a : a[i] = a[j] => i = j
    BY <2>1, <2>2 DEF ToSet
  <2> QED
    BY <2>1, <2>3, <2>4 DEF a
<1>5. n \notin active /\ n \notin ToSet(tcp) /\ n \notin ToSet(udp)
  BY <1>0 DEF RegInv
<1> HIDE DEF n
<1>6. \A t \in active' : t \in DOMAIN tokens' /\ tokens'[t] \in alive'
  BY <1>0, <1>1, <1>2 DEF RegInv, objVars, n
<1>7. \A t, u \in active' : tokens'[t] = tokens'[u] => t = u
  BY <1>0, <1>1, <1>2, <1>5 DEF RegInv
<1>8. active' \subseteq Nat
  BY <1>0, <1>1 DEF RegTypes
<1>9. CASE s \in Datagrams
  <2>1. udp' = Append(udp, n) /\ tcp' = tcp
    BY <1>9 DEF Add, n
  <2>2. \A t \in ToSet(tcp') : tokens'[t] \in Tcp
    BY <1>2, <2>1 DEF RegInv
  <2>3. \A t \in ToSet(udp') : tokens'[t] \in Datagrams
    BY <1>2, <1>4, <1>9, <2>1 DEF RegInv, RegTypes
  <2>4. active' = ToSet(tcp') \union ToSet(udp')
    BY <1>1, <1>4, <2>1 DEF RegInv, RegTypes
  <2>5. RegTypes'
    BY <1>2, <1>4, <1>8, <2>1 DEF RegTypes
  <2>6. RegInv'
    BY <1>4, <1>5, <1>6, <1>7, <2>1, <2>2, <2>3, <2>4 DEF RegInv, RegTypes
  <2> QED
    BY <1>1, <1>3, <2>5, <2>6
<1>10. CASE s \notin Datagrams
  <2>1. tcp' = Append(tcp, n) /\ udp' = udp
    BY <1>10 DEF Add, n
  <2>2. \A t \in ToSet(udp') : tokens'[t] \in Datagrams
    BY <1>2, <2>1 DEF RegInv
  <2>3. \A t \in ToSet(tcp') : tokens'[t] \in Tcp
    <3>1. ToSet(tcp') = ToSet(tcp) \union {n} /\ s \in Tcp
      BY <1>0, <1>4, <1>10, <2>1 DEF RegTypes, Sockets
    <3> QED
      BY <1>2, <3>1 DEF RegInv
  <2>4. active' = ToSet(tcp') \union ToSet(udp')
    BY <1>1, <1>4, <2>1 DEF RegInv, RegTypes
  <2>5. RegTypes'
    BY <1>2, <1>4, <1>8, <2>1 DEF RegTypes
  <2>6. RegInv'
    BY <1>4, <1>5, <1>6, <1>7, <2>1, <2>2, <2>3, <2>4 DEF RegInv, RegTypes
  <2> QED
    BY <1>1, <1>3, <2>5, <2>6
<1> QED
  BY <1>9, <1>10

\* The removal of an entry deactivates its token and no other.
LEMMA RemoveSteps ==
  ASSUME RegTypes, RegInv,
         (\E i \in DOMAIN tcp : RemoveTcp(i)) \/ (\E i \in DOMAIN udp : RemoveUdp(i))
  PROVE  RegTypes' /\ RegInv' /\ TokensKept /\ UNCHANGED objVars
<1>0. ToSet(tcp) \cap ToSet(udp) = {}
  BY KindsAssumption DEF RegInv
<1>1. ASSUME NEW i \in DOMAIN tcp, RemoveTcp(i) PROVE RegTypes' /\ RegInv' /\ TokensKept /\ UNCHANGED objVars
  <2>1. /\ active' = active \ {tcp[i]} /\ tcp' = Erase(tcp, i) /\ UNCHANGED <<tokens, udp>>
        /\ UNCHANGED objVars
    BY <1>1 DEF RemoveTcp
  <2>2. /\ tcp' \in Seq(Nat) /\ ToSet(tcp') = ToSet(tcp) \ {tcp[i]}
        /\ \A j, k \in DOMAIN tcp' : tcp'[j] = tcp'[k] => j = k
    BY <2>1, EraseFacts DEF RegTypes, RegInv
  <2>3. active' = ToSet(tcp') \union ToSet(udp')
    <3>1. active = ToSet(tcp) \union ToSet(udp) /\ tcp[i] \in ToSet(tcp)
      BY DEF RegInv, ToSet
    <3>2. ToSet(udp') = ToSet(udp)
      BY <2>1
    <3> QED
      BY <1>0, <2>1, <2>2, <3>1, <3>2
  <2>4. RegTypes' /\ TokensKept
    BY <2>1, <2>2 DEF RegTypes, TokensKept
  <2>5. RegInv'
    BY ZenonT(60), <2>1, <2>2, <2>3 DEF RegInv, objVars, ToSet
  <2> QED
    BY <2>1, <2>4, <2>5
<1>2. ASSUME NEW i \in DOMAIN udp, RemoveUdp(i) PROVE RegTypes' /\ RegInv' /\ TokensKept /\ UNCHANGED objVars
  <2>1. /\ active' = active \ {udp[i]} /\ udp' = Erase(udp, i) /\ UNCHANGED <<tokens, tcp>>
        /\ UNCHANGED objVars
    BY <1>2 DEF RemoveUdp
  <2>2. /\ udp' \in Seq(Nat) /\ ToSet(udp') = ToSet(udp) \ {udp[i]}
        /\ \A j, k \in DOMAIN udp' : udp'[j] = udp'[k] => j = k
    BY <2>1, EraseFacts DEF RegTypes, RegInv
  <2>3. active' = ToSet(tcp') \union ToSet(udp')
    <3>1. active = ToSet(tcp) \union ToSet(udp) /\ udp[i] \in ToSet(udp)
      BY DEF RegInv, ToSet
    <3>2. ToSet(tcp') = ToSet(tcp)
      BY <2>1
    <3> QED
      BY <1>0, <2>1, <2>2, <3>1, <3>2
  <2>4. RegTypes' /\ TokensKept
    BY <2>1, <2>2 DEF RegTypes, TokensKept
  <2>5. RegInv'
    BY <2>1, <2>2, <2>3 DEF RegInv, objVars, ToSet
  <2> QED
    BY <2>1, <2>4, <2>5
<1> QED
  BY <1>1, <1>2

\* What another thread, or user code, does to the registries.
LEMMA RegistrationStep ==
  ASSUME RegTypes, RegInv, alive \subseteq Sockets, RegistrationOp
  PROVE  RegTypes' /\ RegInv' /\ TokensKept /\ UNCHANGED objVars
<1>1. ASSUME NEW s \in alive, Add(s) PROVE RegTypes' /\ RegInv' /\ TokensKept /\ UNCHANGED objVars
  BY <1>1, AddStep
<1>2. ASSUME NEW s \in alive, RemoveSocket(s) PROVE RegTypes' /\ RegInv' /\ TokensKept /\ UNCHANGED objVars
  BY <1>2, RemoveSteps DEF RemoveSocket
<1>3. ASSUME NEW index \in 0..(Len(tcp) + Len(udp) - 1), RemoveIndex(index)
      PROVE  RegTypes' /\ RegInv' /\ TokensKept /\ UNCHANGED objVars
  <2>1. /\ DOMAIN tcp = 1..Len(tcp) /\ DOMAIN udp = 1..Len(udp) /\ Len(tcp) \in Nat /\ Len(udp) \in Nat
    BY DEF RegTypes
  <2>2. \/ index + 1 \in DOMAIN tcp /\ RemoveTcp(index + 1)
        \/ index - Len(tcp) + 1 \in DOMAIN udp /\ RemoveUdp(index - Len(tcp) + 1)
    BY <1>3, <2>1 DEF RemoveIndex
  <2> QED
    BY <2>2, RemoveSteps
<1> QED
  BY <1>1, <1>2, <1>3 DEF RegistrationOp

-----------------------------------------------------------------------------
(* Descriptor numbers.                                                     *)

\* A non-empty set of naturals has a least element.
LEMMA LeastNumber ==
  ASSUME NEW S \in SUBSET Nat, S # {}
  PROVE  \E d \in S : \A e \in S : d <= e
<1> DEFINE R == {ss \in Nat \X Nat : ss[1] < ss[2]}
<1>1. IsWellFoundedOn(R, Nat)
  BY NatLessThanWellFounded DEF OpToRel
<1> HIDE DEF R
<1>2. PICK d \in S : \A e \in S : ~(<<e, d>> \in R)
  BY <1>1, WFMin
<1>3. \A e \in S : ~(e < d)
  BY <1>2 DEF R
<1> QED
  BY <1>2, <1>3

\* There is a first numbering of the sockets.
LEMMA NumberingFacts ==
  /\ Cardinality(Sockets) \in Nat
  /\ Numbering \in [Sockets -> 1..Cardinality(Sockets)]
<1> DEFINE n == Cardinality(Sockets)
<1>1. n \in Nat /\ ExistsBijection(1..n, Sockets)
  BY KindsAssumption, FS_CardinalityType
<1>2. PICK b \in [1..n -> Sockets] : \A s \in Sockets : \E i \in 1..n : b[i] = s
  BY <1>1 DEF ExistsBijection, Bijection, Injection, Surjection
<1> DEFINE m == [s \in Sockets |-> CHOOSE i \in 1..n : b[i] = s]
<1>3. \A s \in Sockets : m[s] \in 1..n /\ b[m[s]] = s
  BY <1>2
<1>4. m \in [Sockets -> 1..n]
  BY <1>3
<1> HIDE DEF m
<1>5. \A s, r \in Sockets : s # r => m[s] # m[r]
  BY <1>3
<1>6. \E f \in [Sockets -> 1..n] : \A s, r \in Sockets : s # r => f[s] # f[r]
  BY <1>4, <1>5
<1> QED
  BY <1>1, <1>6 DEF Numbering

\* The OS always finds a free number: there are fewer open descriptors than
\* candidates.
LEMMA LowestFreeFacts ==
  ASSUME fd \in [Sockets -> Nat], NEW taken \in SUBSET InUse
  PROVE  LowestFree(taken) \in Nat \ {0}
<1> DEFINE n == Cardinality(Sockets)
           free == {k \in 1..(n + 1) : k \notin taken}
<1>1. n \in Nat /\ IsFiniteSet(Sockets)
  BY KindsAssumption, FS_CardinalityType
<1>2. IsFiniteSet(InUse) /\ Cardinality(InUse) <= n
  <2>1. fd \in Surjection(Sockets, InUse)
    BY DEF Surjection, InUse
  <2> QED
    BY <1>1, <2>1, FS_Surjection
<1>3. IsFiniteSet(taken) /\ Cardinality(taken) <= Cardinality(InUse)
  BY <1>2, FS_Subset
<1>4. Cardinality(taken) \in Nat /\ Cardinality(InUse) \in Nat
  BY <1>2, <1>3, FS_CardinalityType
<1>5. free # {}
  <2> SUFFICES ASSUME free = {} PROVE FALSE
    OBVIOUS
  <2>1. 1..(n + 1) \subseteq taken
    OBVIOUS
  <2>2. Cardinality(1..(n + 1)) <= Cardinality(taken)
    BY <1>3, <2>1, FS_Subset
  <2>3. Cardinality(1..(n + 1)) = n + 1
    BY <1>1, FS_Interval
  <2> QED
    BY <1>1, <1>2, <1>3, <1>4, <2>2, <2>3
<1>6. free \in SUBSET Nat
  BY <1>1
<1> HIDE DEF free
<1>7. PICK k \in free : \A e \in free : k <= e
  BY <1>5, <1>6, LeastNumber
<1>8. k \in 1..(n + 1) /\ k \notin taken /\ \A m \in 1..(k - 1) : m \in taken
  <2>1. k \in 1..(n + 1) /\ k \notin taken
    BY DEF free
  <2>2. ASSUME NEW m \in 1..(k - 1), m \notin taken PROVE FALSE
    <3>1. m \in 1..(n + 1)
      BY <1>1, <2>1
    <3>2. m \in free
      BY <2>2, <3>1 DEF free
    <3> QED
      BY <1>7, <2>1, <3>2
  <2> QED
    BY <2>1, <2>2
<1>9. LowestFree(taken) \in 1..(n + 1)
  BY <1>8 DEF LowestFree
<1> QED
  BY <1>1, <1>9

-----------------------------------------------------------------------------
(* Scripts.                                                                *)

\* What follows a script may not be unguarded.
LEMMA ConcatGuarded ==
  ASSUME NEW a, NEW b, Guarded(b)
  PROVE  /\ ScriptOK(a) /\ a # <<>> => ScriptOK(a \o b) /\ a \o b # <<>>
         /\ Guarded(a) => Guarded(a \o b)
<1>1. b \in Seq(Entries) /\ \A k \in 1..Len(b) : b[k].op \notin Unguarded
  BY DEF Guarded
<1>2. ASSUME a \in Seq(Entries)
      PROVE  /\ a \o b \in Seq(Entries) /\ Len(a) \in Nat /\ Len(b) \in Nat
             /\ Len(a \o b) = Len(a) + Len(b)
             /\ \A k \in 1..(Len(a) + Len(b)) :
                   (a \o b)[k] = IF k <= Len(a) THEN a[k] ELSE b[k - Len(a)]
  BY <1>1, <1>2, ConcatProperties
<1>3. ASSUME a \in Seq(Entries), NEW k \in 1..(Len(a) + Len(b)), k > Len(a)
      PROVE  (a \o b)[k].op \notin Unguarded
  BY <1>1, <1>2, <1>3
<1>4. ASSUME ScriptOK(a), a # <<>> PROVE ScriptOK(a \o b) /\ a \o b # <<>>
  <2>1. a \in Seq(Entries) /\ Len(a) > 0 /\ \A k \in 2..Len(a) : a[k].op \notin Unguarded
    BY <1>4 DEF ScriptOK
  <2>2. a \o b \in Seq(Entries) /\ Len(a \o b) = Len(a) + Len(b) /\ Len(a) \in Nat /\ Len(b) \in Nat
    BY <1>2, <2>1
  <2>3. ASSUME NEW k \in 2..(Len(a) + Len(b)) PROVE (a \o b)[k].op \notin Unguarded
    <3>1. k \in 1..(Len(a) + Len(b))
      BY <2>2
    <3>2. CASE k > Len(a)
      BY <1>3, <2>1, <3>1, <3>2
    <3>3. CASE ~(k > Len(a))
      <4>1. k <= Len(a) /\ k \in 2..Len(a)
        BY <2>2, <3>3
      <4>2. (a \o b)[k] = a[k]
        BY <1>2, <2>1, <3>1, <4>1
      <4> QED
        BY <2>1, <4>1, <4>2
    <3> QED
      BY <3>2, <3>3
  <2>4. a \o b # <<>>
    BY <2>1, <2>2
  <2>5. \A k \in 2..Len(a \o b) : (a \o b)[k].op \notin Unguarded
    BY <2>2, <2>3
  <2> QED
    BY <2>2, <2>4, <2>5 DEF ScriptOK
<1>5. ASSUME Guarded(a) PROVE Guarded(a \o b)
  <2>1. a \in Seq(Entries) /\ \A k \in 1..Len(a) : a[k].op \notin Unguarded
    BY <1>5 DEF Guarded
  <2>2. a \o b \in Seq(Entries) /\ Len(a \o b) = Len(a) + Len(b) /\ Len(a) \in Nat /\ Len(b) \in Nat
    BY <1>2, <2>1
  <2>3. ASSUME NEW k \in 1..(Len(a) + Len(b)) PROVE (a \o b)[k].op \notin Unguarded
    <3>2. CASE k > Len(a)
      BY <1>3, <2>1, <3>2
    <3>3. CASE ~(k > Len(a))
      <4>1. k <= Len(a) /\ k \in 1..Len(a)
        BY <2>2, <3>3
      <4>2. (a \o b)[k] = a[k]
        BY <1>2, <2>1, <4>1
      <4> QED
        BY <2>1, <4>1, <4>2
    <3> QED
      BY <3>2, <3>3
  <2>4. \A k \in 1..Len(a \o b) : (a \o b)[k].op \notin Unguarded
    BY <2>2, <2>3
  <2> QED
    BY <2>2, <2>4 DEF Guarded
<1> QED
  BY <1>4, <1>5

\* Script entries are entries; those of the set level are guarded.
LEMMA EntryFacts ==
  /\ \A ev \in Events : /\ Sock(ev) \in Entries /\ Set(ev) \in Entries
                        /\ SetSame(ev) \in Entries /\ Call(ev) \in Entries
  /\ \A ev \in Events : Set(ev).op \notin Unguarded /\ SetSame(ev).op \notin Unguarded
  /\ Step("close") \in Entries /\ Step("due") \in Entries /\ Step("due").op \notin Unguarded
  /\ Step("flush") \in Entries /\ Step("flush").op \notin Unguarded
  /\ Step("close_active") \in Entries /\ Step("close_active").op \notin Unguarded
  /\ Step("close_same_terminal") \in Entries /\ Step("close_same_terminal").op \notin Unguarded
<1>1. \A ev \in Events : /\ Sock(ev) \in Entries /\ Set(ev) \in Entries
                          /\ SetSame(ev) \in Entries /\ Call(ev) \in Entries
  BY DEF Entries, Sock, Set, SetSame, Call
<1>2. \A ev \in Events : Set(ev).op \notin Unguarded /\ SetSame(ev).op \notin Unguarded
  BY DEF Set, SetSame, Unguarded
<1>3. /\ Step("close") \in Entries /\ Step("due") \in Entries /\ Step("flush") \in Entries
      /\ Step("close_active") \in Entries /\ Step("close_same_terminal") \in Entries
  BY DEF Entries, Step, Events
<1>4. /\ Step("due").op \notin Unguarded /\ Step("flush").op \notin Unguarded
      /\ Step("close_active").op \notin Unguarded /\ Step("close_same_terminal").op \notin Unguarded
  BY DEF Step, Unguarded
<1> QED
  BY <1>1, <1>2, <1>3, <1>4

\* The pieces that scripts are made of: one guarded step, or two of which the
\* second is guarded.
LEMMA Pieces ==
  /\ Guarded(<<>>) /\ ScriptOK(<<>>)
  /\ \A x \in Entries : x.op \notin Unguarded => Guarded(<<x>>)
  /\ \A x \in Entries : ScriptOK(<<x>>) /\ <<x>> # <<>>
  /\ \A x, y \in Entries : y.op \notin Unguarded => ScriptOK(<<x, y>>) /\ <<x, y>> # <<>>
  /\ \A script : Guarded(script) => ScriptOK(script)
<1>1. Guarded(<<>>) /\ ScriptOK(<<>>)
  BY DEF Guarded, ScriptOK
<1>2. ASSUME NEW x \in Entries
      PROVE  /\ x.op \notin Unguarded => Guarded(<<x>>)
             /\ ScriptOK(<<x>>) /\ <<x>> # <<>>
  <2> HIDE DEF Entries, Unguarded
  <2>1. <<x>> \in Seq(Entries) /\ Len(<<x>>) = 1 /\ <<x>>[1] = x
    OBVIOUS
  <2> QED
    BY <1>2, <2>1 DEF Guarded, ScriptOK
<1>3. ASSUME NEW x \in Entries, NEW y \in Entries, y.op \notin Unguarded
      PROVE  ScriptOK(<<x, y>>) /\ <<x, y>> # <<>>
  <2>1. <<x, y>> \in Seq(Entries) /\ Len(<<x, y>>) = 2 /\ <<x, y>>[2] = y
    OBVIOUS
  <2> DEFINE p == <<x, y>>
  <2> HIDE DEF p
  <2>2. \A k \in 2..Len(p) : p[k].op \notin Unguarded
    BY <1>3, <2>1 DEF p
  <2> QED
    BY <2>1, <2>2 DEF ScriptOK, p
<1>4. ASSUME NEW script, Guarded(script) PROVE ScriptOK(script)
  BY <1>4 DEF Guarded, ScriptOK
<1> QED
  BY <1>1, <1>2, <1>3, <1>4

\* Every script of the code is one.
LEMMA ScriptsOK ==
  ASSUME NEW s \in Sockets, NEW flags, NEW script \in Scripts(s, flags)
  PROVE  ScriptOK(script)
<1>1. /\ "data" \in Events /\ "error" \in Events /\ "close" \in Events /\ "connect" \in Events
      /\ "listen" \in Events /\ "datagram" \in Events
  BY DEF Events
<1>2. /\ ScriptOK(<<Sock("data"), Set("data")>>) /\ <<Sock("data"), Set("data")>> # <<>>
      /\ ScriptOK(<<Step("close"), Set("close")>>) /\ <<Step("close"), Set("close")>> # <<>>
      /\ ScriptOK(<<Sock("connect"), SetSame("connect")>>)
      /\ ScriptOK(<<Sock("datagram"), Set("datagram")>>) /\ ScriptOK(<<Call("listen")>>)
      /\ ScriptOK(<<>>) /\ Guarded(<<>>)
      /\ ScriptOK(<<Sock("error"), Set("error")>>) /\ <<Sock("error"), Set("error")>> # <<>>
      /\ Guarded(<<Step("close_active")>>) /\ Guarded(<<Step("close_same_terminal")>>)
      /\ Guarded(<<Step("flush")>>) /\ ScriptOK(<<Step("flush")>>)
  BY <1>1, Pieces, EntryFacts
<1>3. /\ ScriptOK(Failure) /\ Failure # <<>> /\ Guarded(Flush) /\ ScriptOK(Flush)
  BY <1>2 DEF Failure, Flush
<1>3a. /\ ScriptOK(Failure \o <<Step("close_active")>>)
       /\ ScriptOK(Failure \o <<Step("close_same_terminal")>>)
       /\ Failure \o <<Step("close_same_terminal")>> # <<>>
  BY <1>2, <1>3, ConcatGuarded
<1>4. CASE s \in Tls
  <2>0. ~(s \in Listeners) /\ ~(s \in Datagrams)
    BY <1>4, KindsAssumption DEF Tcp
  <2>1. script \in TlsScripts(flags)
    BY <1>4, <2>0 DEF Scripts
  <2>2. \/ script = Failure \o <<Step("close_active")>>
        \/ script = <<Step("close"), Set("close")>>
        \/ script = <<>> \/ script = <<Sock("connect"), SetSame("connect")>>
        \/ script = <<Sock("data"), Set("data")>> \o Flush
        \/ script = Failure \o <<Step("close_same_terminal")>> \o Flush
        \/ script = Flush
    BY <2>1 DEF TlsScripts
  <2>3. ScriptOK(<<Sock("data"), Set("data")>> \o Flush)
    BY <1>2, <1>3, ConcatGuarded
  <2>4. ScriptOK(Failure \o <<Step("close_same_terminal")>> \o Flush)
    BY <1>3, <1>3a, ConcatGuarded
  <2> QED
    BY <1>2, <1>3, <1>3a, <2>2, <2>3, <2>4
<1>5. CASE s \in Listeners
  <2>0. s \notin Tls /\ s \notin Datagrams
    BY <1>5, KindsAssumption DEF Tcp
  <2>1. script \in {<<Call("listen")>>, Failure}
    BY <1>5, <2>0 DEF Scripts
  <2> QED
    BY <1>2, <1>3, <2>1
<1>6. CASE s \in Datagrams
  <2>1. s \notin Listeners
    BY <1>6, KindsAssumption DEF Tcp
  <2>2. s \notin Tls
    BY <1>6, KindsAssumption DEF Tcp
  <2>3. script \in {<<Sock("datagram"), Set("datagram")>>, Failure, <<>>}
    BY <1>6, <2>1, <2>2 DEF Scripts
  <2> QED
    BY <1>2, <1>3, <2>3
<1>7. CASE s \notin Tls /\ s \notin Listeners /\ s \notin Datagrams
  <2>1. script \in StreamScripts(flags)
    BY <1>7 DEF Scripts
  <2> DEFINE tail == IF "OUT" \in flags THEN Flush ELSE <<>>
  <2>2. PICK h : /\ script = h \o tail
                 /\ h \in {<<Sock("data"), Set("data")>>, <<Step("close"), Set("close")>>,
                           Failure \o <<Step("close_same_terminal")>>, <<>>, Failure}
    BY <2>1 DEF StreamScripts
  <2>3. Guarded(tail)
    BY <1>2, <1>3
  <2> HIDE DEF tail
  <2>4. (ScriptOK(h) /\ h # <<>>) \/ Guarded(h)
    BY <1>2, <1>3, <1>3a, <2>2
  <2> QED
    BY <2>2, <2>3, <2>4, ConcatGuarded, Pieces
<1> QED
  BY <1>4, <1>5, <1>6, <1>7
-----------------------------------------------------------------------------
(* The steps.                                                              *)

ObjTypes ==
    /\ alive \subseteq Sockets
    /\ fd \in [Sockets -> Nat] /\ gen \in [Sockets -> Nat] /\ lastFd \in Nat

PollTypes ==
    /\ snap \in Seq(Nat) /\ pc \in {"idle", "snapshot", "wait", "dispatch"}
    /\ watched \in Seq(Watches) /\ cursor \in Nat
    /\ todo \in Seq(Entries) /\ cb \in Callbacks

HistoryTypes == ops \in Nat /\ usedDead \in BOOLEAN /\ nullUse \in BOOLEAN /\ late \subseteq Nat

\* The types, in four parts: registries, objects, the poll in progress, history.
LEMMA TypeParts ==
  TypeOK <=> RegTypes /\ ObjTypes /\ PollTypes /\ HistoryTypes
BY DEF TypeOK, RegTypes, ObjTypes, PollTypes, HistoryTypes

\* What the invariant says of the sequences of the poll in progress.
LEMMA PollFacts ==
  ASSUME PollInv
  PROVE  /\ Len(watched) \in Nat /\ DOMAIN watched = 1..Len(watched) /\ cursor \in Nat
         /\ \A k \in DOMAIN watched : /\ watched[k] \in Watches /\ watched[k].tok \in DOMAIN tokens
                                      /\ watched[k].fd \in Nat /\ watched[k].gen \in Nat
                                      /\ tokens[watched[k].tok] \in Sockets
         /\ Len(snap) \in Nat /\ DOMAIN snap = 1..Len(snap)
         /\ \A t \in DOMAIN tokens : tokens[t] \in Sockets
         /\ todo # <<>> \/ cb # NoCallback =>
               /\ cursor \in DOMAIN watched /\ Current = watched[cursor]
               /\ Current.tok \in DOMAIN tokens /\ Current.tok \in Nat /\ Subject \in Sockets
         /\ todo \in Seq(Entries)
         /\ ~usedDead
<1>1. /\ watched \in Seq(Watches) /\ cursor \in Nat /\ snap \in Seq(Nat) /\ tokens \in Seq(Sockets)
      /\ todo \in Seq(Entries) /\ ~usedDead
  BY DEF PollInv, TypeOK
<1>2. /\ Len(watched) \in Nat /\ DOMAIN watched = 1..Len(watched)
      /\ \A k \in DOMAIN watched : watched[k] \in Watches
      /\ Len(snap) \in Nat /\ DOMAIN snap = 1..Len(snap)
      /\ \A t \in DOMAIN tokens : tokens[t] \in Sockets
  BY <1>1
<1>3. \A w \in Watches : w.tok \in Nat /\ w.fd \in Nat /\ w.gen \in Nat
  BY DEF Watches
<1>4. \A k \in DOMAIN watched : watched[k].tok \in DOMAIN tokens
  BY DEF PollInv, SnapshotInv
<1>5. todo # <<>> \/ cb # NoCallback => cursor \in DOMAIN watched
  BY <1>2 DEF PollInv, ScriptInv
<1> QED
  BY <1>1, <1>2, <1>3, <1>4, <1>5 DEF Current, Subject

\* A registration that is added or removed changes no socket and no script.
LEMMA RegistrationKeeps ==
  ASSUME PollInv, RegTypes', RegInv', TokensKept,
         UNCHANGED <<objVars, pc, pollVars, cb, usedDead, nullUse>>, ops' \in Nat,
         late' = IF Calling THEN late \union (active \ active') ELSE late
  PROVE  PollInv'
<1>0. UNCHANGED <<alive, fd, gen, lastFd, pc, snap, watched, cursor, todo, cb, usedDead, nullUse>>
  BY DEF objVars, pollVars
<1>1. TypeOK'
  <2>1. late' \subseteq Nat
    BY DEF PollInv, TypeOK
  <2> QED
    BY <1>0, <2>1, TypeParts DEF PollInv, TypeOK, RegTypes
<1>2. SnapshotInv'
  <2>1. /\ \A i \in DOMAIN snap : snap[i] \in DOMAIN tokens' /\ tokens'[snap[i]] = tokens[snap[i]]
        /\ \A k \in DOMAIN watched : /\ watched[k].tok \in DOMAIN tokens'
                                     /\ tokens'[watched[k].tok] = tokens[watched[k].tok]
    BY DEF TokensKept, PollInv, SnapshotInv
  <2> QED
    BY <1>0, <2>1 DEF PollInv, SnapshotInv
<1>3. NumbersInv'
  <2>1. \A k \in DOMAIN watched : tokens'[watched[k].tok] = tokens[watched[k].tok]
    BY DEF TokensKept, PollInv, SnapshotInv
  <2> QED
    BY <1>0, <2>1 DEF PollInv, NumbersInv
<1>4. ScriptInv'
  <2>1. todo # <<>> => Subject' = Subject /\ Current' = Current
    BY <1>0, PollFacts DEF TokensKept, Subject, Current
  <2>2. ASSUME todo # <<>>, todo[1].op = "call" PROVE Current.tok \in active' \union late'
    <3>1. Head(todo) = todo[1]
      BY <2>2, PollFacts
    <3>2. pc = "dispatch" /\ cb = NoCallback /\ Current.tok \in active \union late
      BY <2>2 DEF PollInv, ScriptInv, Unguarded
    <3>3. late' = late \union (active \ active')
      BY <2>2, <3>1, <3>2 DEF Calling
    <3> QED
      BY <3>2, <3>3
  <2> QED
    BY <1>0, <2>1, <2>2 DEF PollInv, ScriptInv, IsSame
<1> QED
  BY <1>0, <1>1, <1>2, <1>3, <1>4 DEF PollInv

\* User code closes, reconnects and destroys sockets only while no unguarded
\* step is left.
LEMMA SocketStep ==
  ASSUME PollInv, pc = "idle" \/ cb # NoCallback, NEW s \in Sockets,
         CloseSocket(s) \/ Reconnect(s) \/ Destroy(s),
         UNCHANGED <<pc, pollVars, cb, usedDead, nullUse, late>>, ops' \in Nat
  PROVE  PollInv'
<1>0. UNCHANGED <<tokens, active, tcp, udp, pc, snap, watched, cursor, todo, cb, usedDead, nullUse, late>>
  BY DEF pollVars, regVars, CloseSocket, Reconnect, Destroy
<1>1. ObjTypes /\ RegTypes /\ PollTypes /\ HistoryTypes
  BY TypeParts DEF PollInv
<1>2. PICK n \in Nat : /\ fd' = [fd EXCEPT ![s] = n]
                       /\ lastFd' \in Nat /\ lastFd' >= lastFd /\ n <= lastFd'
                       /\ gen' = [gen EXCEPT ![s] = @ + 1] \/ gen' = gen
                       /\ n = 0 \/ Reuse \/ n > lastFd
  <2>1. CASE CloseSocket(s) \/ Destroy(s)
    BY <1>1, <2>1 DEF CloseSocket, Destroy, ObjTypes
  <2>2. CASE Reconnect(s)
    <3> DEFINE taken == IF s \in Datagrams THEN InUse ELSE InUse \ {fd[s]}
               n == IF Reuse THEN LowestFree(taken) ELSE lastFd + 1
    <3>1. /\ fd' = [fd EXCEPT ![s] = n] /\ lastFd' = IF n > lastFd THEN n ELSE lastFd
          /\ gen' = [gen EXCEPT ![s] = @ + 1]
      BY <2>2 DEF Reconnect
    <3>2. n \in Nat /\ (Reuse \/ n > lastFd)
      <4>1. LowestFree(taken) \in Nat \ {0}
        BY <1>1, LowestFreeFacts DEF ObjTypes
      <4> HIDE DEF taken
      <4> QED
        BY <1>1, <4>1 DEF ObjTypes
    <3> HIDE DEF n
    <3>3. lastFd' \in Nat /\ lastFd' >= lastFd /\ n <= lastFd'
      BY <1>1, <3>1, <3>2 DEF ObjTypes
    <3> QED
      BY <3>1, <3>2, <3>3
  <2> QED
    BY <2>1, <2>2
<1>3. fd' \in [Sockets -> Nat] /\ \A r \in Sockets : fd'[r] = IF r = s THEN n ELSE fd[r]
  BY <1>1, <1>2 DEF ObjTypes
<1>4. gen' \in [Sockets -> Nat] /\ \A r \in Sockets : r # s => gen'[r] = gen[r]
  BY <1>1, <1>2 DEF ObjTypes
<1>5. alive' \subseteq alive /\ \A r \in alive \ alive' : ~Registered(r)
  BY DEF CloseSocket, Reconnect, Destroy
<1>6. TypeOK'
  <2>1. ObjTypes'
    BY <1>1, <1>2, <1>3, <1>4, <1>5 DEF ObjTypes
  <2>2. RegTypes' /\ PollTypes' /\ HistoryTypes'
    BY <1>0, <1>1 DEF RegTypes, PollTypes, HistoryTypes
  <2> QED
    BY <2>1, <2>2 DEF TypeOK, ObjTypes, RegTypes, PollTypes, HistoryTypes
<1>7. RegInv'
  <2>1. \A t \in active : tokens[t] \in alive'
    BY <1>5 DEF Registered, PollInv, RegInv
  <2> QED
    BY <1>0, <2>1 DEF PollInv, RegInv
<1>8. SnapshotInv'
  BY <1>0 DEF PollInv, SnapshotInv
<1>9. NumbersInv'
  <2>1. \A r \in Sockets : fd'[r] <= lastFd'
    BY <1>1, <1>2, <1>3 DEF PollInv, NumbersInv, ObjTypes
  <2>2. ASSUME NEW k \in DOMAIN watched PROVE watched[k].fd # 0 /\ watched[k].fd <= lastFd'
    <3>1. watched[k].fd \in Nat /\ watched[k].fd # 0 /\ watched[k].fd <= lastFd
      BY PollFacts DEF PollInv, NumbersInv
    <3> QED
      BY <1>1, <1>2, <3>1 DEF ObjTypes
  <2>3. ASSUME ~Reuse, NEW k \in DOMAIN watched, fd'[tokens[watched[k].tok]] = watched[k].fd
        PROVE  gen'[tokens[watched[k].tok]] = watched[k].gen
    <3>1. tokens[watched[k].tok] \in Sockets /\ watched[k].fd \in Nat
      BY PollFacts
    <3>2. watched[k].fd # 0 /\ watched[k].fd <= lastFd
      BY DEF PollInv, NumbersInv
    <3>3. tokens[watched[k].tok] # s
      BY <1>1, <1>2, <1>3, <2>3, <3>1, <3>2 DEF ObjTypes
    <3> QED
      BY <1>3, <1>4, <2>3, <3>1, <3>3 DEF PollInv, NumbersInv
  <2> QED
    BY <1>0, <2>1, <2>2, <2>3 DEF NumbersInv
<1>10. ScriptInv'
  <2>1. todo = <<>> \/ todo[1].op \notin Unguarded
    BY DEF PollInv, ScriptInv
  <2> QED
    BY <1>0, <2>1 DEF PollInv, ScriptInv, Unguarded
<1> QED
  BY <1>0, <1>6, <1>7, <1>8, <1>9, <1>10 DEF PollInv

\* What user code does, idle, in a callback or on another thread, keeps the invariant.
LEMMA UserOpStep ==
  ASSUME PollInv, UserOp PROVE PollInv'
<1>1. ops' \in Nat /\ UNCHANGED <<pc, pollVars, cb, usedDead, nullUse>>
  BY DEF UserOp, PollInv, TypeOK
<1>2. CASE RegistrationOp
  <2>1. RegTypes /\ RegInv /\ alive \subseteq Sockets
    BY DEF PollInv, TypeOK, RegTypes
  <2>2. RegTypes' /\ RegInv' /\ TokensKept /\ UNCHANGED objVars
    BY <1>2, <2>1, RegistrationStep
  <2>3. late' = IF Calling THEN late \union (active \ active') ELSE late
    BY DEF UserOp
  <2> QED
    BY <1>1, <2>2, <2>3, RegistrationKeeps
<1>3. ASSUME pc = "idle" \/ cb # NoCallback, NEW s \in Sockets,
             CloseSocket(s) \/ Reconnect(s) \/ Destroy(s)
      PROVE  PollInv'
  <2>1. late' = late
    BY <1>3 DEF UserOp, Calling
  <2> QED
    BY <1>1, <1>3, <2>1, SocketStep
<1> QED
  BY <1>2, <1>3 DEF UserOp

\* The TCP snapshot names each socket once, because no socket is registered twice.
LEMMA PollEnterStep ==
  ASSUME PollInv, PollEnter PROVE PollInv'
<1>0. /\ UNCHANGED <<alive, fd, gen, lastFd, tokens, active, tcp, udp, watched, cursor, todo, cb, ops,
                     usedDead, nullUse, late>>
      /\ pc = "idle" /\ pc' = "snapshot" /\ snap' = tcp
  BY DEF PollEnter, objVars, regVars
<1>1. TypeOK'
  BY <1>0 DEF PollInv, TypeOK
<1>2. RegInv' /\ NumbersInv'
  BY <1>0 DEF PollInv, RegInv, NumbersInv
<1>3. watched = <<>> /\ DOMAIN watched = {} /\ tcp \in Seq(Nat)
  BY <1>0 DEF PollInv, SnapshotInv, TypeOK
<1>4. \A i \in DOMAIN tcp : tcp[i] \in active /\ tcp[i] \in ToSet(tcp)
  BY DEF PollInv, RegInv, ToSet
<1>5. \A i \in DOMAIN tcp : tcp[i] \in DOMAIN tokens /\ tokens[tcp[i]] \in Tcp
  BY <1>4 DEF PollInv, RegInv
<1>6. \A i, j \in DOMAIN tcp : tokens[tcp[i]] = tokens[tcp[j]] => i = j
  BY <1>4 DEF PollInv, RegInv
<1>7. SnapshotInv'
  BY <1>0, <1>3, <1>5, <1>6 DEF SnapshotInv
<1>8. ScriptInv'
  BY <1>0 DEF PollInv, ScriptInv
<1> QED
  BY <1>0, <1>1, <1>2, <1>7, <1>8 DEF PollInv

\* The UDP snapshot adds datagram sockets to TCP sockets, whatever another
\* thread did to the registries between the two.
LEMMA PollSnapshotStep ==
  ASSUME PollInv, PollSnapshot PROVE PollInv'
<1>0. /\ UNCHANGED <<alive, fd, gen, lastFd, tokens, active, tcp, udp, watched, cursor, todo, cb, ops,
                     usedDead, nullUse, late>>
      /\ pc = "snapshot" /\ pc' = "wait" /\ snap' = snap \o udp
  BY DEF PollSnapshot, objVars, regVars
<1>1. snap \in Seq(Nat) /\ udp \in Seq(Nat)
  BY DEF PollInv, TypeOK
<1>2. /\ snap' \in Seq(Nat) /\ Len(snap) \in Nat /\ Len(udp) \in Nat
      /\ Len(snap') = Len(snap) + Len(udp) /\ DOMAIN snap' = 1..(Len(snap) + Len(udp))
      /\ DOMAIN snap = 1..Len(snap) /\ DOMAIN udp = 1..Len(udp)
      /\ \A k \in 1..(Len(snap) + Len(udp)) :
            snap'[k] = IF k <= Len(snap) THEN snap[k] ELSE udp[k - Len(snap)]
  BY <1>0, <1>1, ConcatProperties
<1>3. TypeOK'
  BY <1>0, <1>2 DEF PollInv, TypeOK
<1>4. RegInv' /\ NumbersInv' /\ ScriptInv'
  BY <1>0 DEF PollInv, RegInv, NumbersInv, ScriptInv, Subject, Current, IsSame
<1>5. watched = <<>> /\ DOMAIN watched = {}
  BY <1>0 DEF PollInv, SnapshotInv
<1>6. \A i \in DOMAIN udp : /\ udp[i] \in active /\ udp[i] \in DOMAIN tokens
                            /\ tokens[udp[i]] \in Datagrams
  BY DEF PollInv, RegInv, ToSet
<1>7. \A i, j \in DOMAIN udp : tokens[udp[i]] = tokens[udp[j]] => i = j
  BY <1>6 DEF PollInv, RegInv
<1>8. \A i \in DOMAIN snap : snap[i] \in DOMAIN tokens /\ tokens[snap[i]] \in Tcp
  BY <1>0 DEF PollInv, SnapshotInv
<1>9. \A i, j \in DOMAIN snap : tokens[snap[i]] = tokens[snap[j]] => i = j
  BY DEF PollInv, SnapshotInv
<1>10. ASSUME NEW k \in DOMAIN snap'
       PROVE  \/ k <= Len(snap) /\ k \in DOMAIN snap /\ snap'[k] = snap[k]
              \/ k > Len(snap) /\ k - Len(snap) \in DOMAIN udp /\ snap'[k] = udp[k - Len(snap)]
  BY <1>2
<1>11. \A k \in DOMAIN snap' : snap'[k] \in DOMAIN tokens
  BY <1>6, <1>8, <1>10
<1>12. ASSUME NEW k \in DOMAIN snap', NEW l \in DOMAIN snap', tokens[snap'[k]] = tokens[snap'[l]]
       PROVE  k = l
  <2>0. k \in Nat /\ l \in Nat /\ Len(snap) \in Nat
    BY <1>2
  <2>1. CASE k <= Len(snap) /\ l <= Len(snap)
    BY <1>9, <1>10, <1>12, <2>0, <2>1
  <2>2. CASE k > Len(snap) /\ l > Len(snap)
    <3>1. /\ k - Len(snap) \in DOMAIN udp /\ snap'[k] = udp[k - Len(snap)]
          /\ l - Len(snap) \in DOMAIN udp /\ snap'[l] = udp[l - Len(snap)]
      BY <1>10, <2>0, <2>2
    <3>2. k - Len(snap) = l - Len(snap)
      BY <1>7, <1>12, <3>1
    <3> QED
      BY <2>0, <3>2
  <2>3. CASE (k <= Len(snap) /\ l > Len(snap)) \/ (k > Len(snap) /\ l <= Len(snap))
    <3>1. \/ tokens[snap'[k]] \in Tcp /\ tokens[snap'[l]] \in Datagrams
          \/ tokens[snap'[k]] \in Datagrams /\ tokens[snap'[l]] \in Tcp
      BY <1>6, <1>8, <1>10, <2>0, <2>3
    <3> QED
      BY <1>12, <3>1, KindsAssumption
  <2> QED
    BY <2>0, <2>1, <2>2, <2>3
<1>13. SnapshotInv'
  BY <1>0, <1>5, <1>11, <1>12 DEF SnapshotInv
<1> QED
  BY <1>0, <1>3, <1>4, <1>13 DEF PollInv

\* A descriptor that is watched is the one its socket has now.
LEMMA PollWatchStep ==
  ASSUME PollInv, PollWatch PROVE PollInv'
<1> DEFINE t == Head(snap)
           s == tokens[t]
           w == [tok |-> t, fd |-> fd[s], gen |-> gen[s]]
<1>0. /\ UNCHANGED <<alive, fd, gen, lastFd, tokens, active, tcp, udp, pc, cursor, todo, cb, ops,
                     usedDead, nullUse, late>>
      /\ pc = "wait" /\ snap # <<>> /\ snap' = Tail(snap)
      /\ watched' = IF Watchable(t) THEN Append(watched, w) ELSE watched
  BY DEF PollWatch, objVars, regVars
<1>1. /\ snap \in Seq(Nat) /\ watched \in Seq(Watches) /\ fd \in [Sockets -> Nat]
      /\ gen \in [Sockets -> Nat] /\ lastFd \in Nat
  BY DEF PollInv, TypeOK
<1>2. /\ Len(snap) \in Nat /\ Len(snap) > 0 /\ DOMAIN snap = 1..Len(snap) /\ t = snap[1]
      /\ snap' \in Seq(Nat) /\ DOMAIN snap' = 1..(Len(snap) - 1)
      /\ \A i \in 1..(Len(snap) - 1) : snap'[i] = snap[i + 1]
  BY <1>0, <1>1
<1>3. \A i \in DOMAIN snap' : i + 1 \in DOMAIN snap /\ i + 1 # 1 /\ snap'[i] = snap[i + 1]
  BY <1>2
<1>4. 1 \in DOMAIN snap /\ t \in DOMAIN tokens /\ s \in Sockets /\ t \in Nat
  <2>1. 1 \in DOMAIN snap /\ snap[1] \in Nat
    BY <1>1, <1>2
  <2>2. snap[1] \in DOMAIN tokens
    BY <2>1 DEF PollInv, SnapshotInv
  <2> QED
    BY <1>2, <2>1, <2>2, PollFacts
<1>5. w \in Watches /\ w.tok = t /\ w.fd = fd[s] /\ w.gen = gen[s]
  BY <1>1, <1>4 DEF Watches
<1> HIDE DEF t, s, w
<1>6. /\ watched' \in Seq(Watches) /\ Len(watched) \in Nat /\ DOMAIN watched = 1..Len(watched)
      /\ DOMAIN watched \subseteq DOMAIN watched' /\ Len(watched') >= Len(watched)
      /\ DOMAIN watched' = 1..Len(watched') /\ Len(watched') \in Nat
      /\ \A k \in DOMAIN watched : watched'[k] = watched[k]
      /\ \A k \in DOMAIN watched' :
            k \in DOMAIN watched \/ (k = Len(watched) + 1 /\ watched'[k] = w /\ Watchable(t))
  <2>1. Len(watched) \in Nat /\ DOMAIN watched = 1..Len(watched)
    BY <1>1
  <2>2. CASE ~Watchable(t)
    <3>1. watched' = watched
      BY <1>0, <2>2
    <3> QED
      BY <1>1, <2>1, <3>1
  <2>3. CASE Watchable(t)
    <3>1. watched' = Append(watched, w)
      BY <1>0, <2>3
    <3>2. /\ Append(watched, w) \in Seq(Watches) /\ Len(Append(watched, w)) = Len(watched) + 1
          /\ Append(watched, w)[Len(watched) + 1] = w
          /\ \A k \in 1..Len(watched) : Append(watched, w)[k] = watched[k]
      BY <1>1, <1>5, AppendProperties
    <3>3. /\ watched' \in Seq(Watches) /\ Len(watched') = Len(watched) + 1
          /\ watched'[Len(watched) + 1] = w /\ \A k \in 1..Len(watched) : watched'[k] = watched[k]
          /\ DOMAIN watched' = 1..Len(watched')
      BY <3>1, <3>2
    <3>4. \A k \in 1..(Len(watched) + 1) : k \in 1..Len(watched) \/ k = Len(watched) + 1
      BY <2>1
    <3> QED
      BY <2>1, <2>3, <3>3, <3>4
  <2> QED
    BY <2>2, <2>3
<1>7. TypeOK'
  BY <1>0, <1>2, <1>6 DEF PollInv, TypeOK
<1>8. RegInv'
  BY <1>0 DEF PollInv, RegInv
<1>9. SnapshotInv'
  <2>1. \A i \in DOMAIN snap' : snap'[i] \in DOMAIN tokens /\ tokens[snap'[i]] # tokens[t]
    <3> TAKE i \in DOMAIN snap'
    <3>1. i + 1 \in DOMAIN snap /\ i + 1 # 1 /\ snap'[i] = snap[i + 1]
      BY <1>3
    <3> QED
      BY <1>2, <1>4, <3>1 DEF PollInv, SnapshotInv
  <2>2. \A i, j \in DOMAIN snap' : tokens[snap'[i]] = tokens[snap'[j]] => i = j
    <3> TAKE i, j \in DOMAIN snap'
    <3> HAVE tokens[snap'[i]] = tokens[snap'[j]]
    <3>1. /\ i + 1 \in DOMAIN snap /\ snap'[i] = snap[i + 1]
          /\ j + 1 \in DOMAIN snap /\ snap'[j] = snap[j + 1]
      BY <1>3
    <3>2. i + 1 = j + 1
      BY <3>1 DEF PollInv, SnapshotInv
    <3> QED
      BY <1>2, <3>2
  <2>3. \A k \in DOMAIN watched' :
           \/ k \in DOMAIN watched /\ watched'[k].tok = watched[k].tok
           \/ k = Len(watched) + 1 /\ watched'[k].tok = t
    BY <1>5, <1>6
  <2>4. \A k \in DOMAIN watched' : watched'[k].tok \in DOMAIN tokens
    BY <1>4, <2>3 DEF PollInv, SnapshotInv
  <2>5. \A k \in DOMAIN watched : tokens[watched[k].tok] # tokens[t]
    BY <1>2, <1>4 DEF PollInv, SnapshotInv
  <2>6. \A k, l \in DOMAIN watched' : tokens[watched'[k].tok] = tokens[watched'[l].tok] => k = l
    BY <2>3, <2>5 DEF PollInv, SnapshotInv
  <2>7. \A k \in DOMAIN watched', i \in DOMAIN snap' : tokens[watched'[k].tok] # tokens[snap'[i]]
    <3> TAKE k \in DOMAIN watched', i \in DOMAIN snap'
    <3>1. i + 1 \in DOMAIN snap /\ snap'[i] = snap[i + 1]
      BY <1>3
    <3> QED
      BY <2>1, <2>3, <3>1 DEF PollInv, SnapshotInv
  <2> QED
    BY <1>0, <2>1, <2>2, <2>4, <2>6, <2>7 DEF SnapshotInv
<1>10. NumbersInv'
  <2>1. \A k \in DOMAIN watched' :
           \/ k \in DOMAIN watched /\ watched'[k] = watched[k]
           \/ /\ watched'[k].tok = t /\ watched'[k].fd = fd[tokens[t]]
              /\ watched'[k].gen = gen[tokens[t]] /\ fd[tokens[t]] # 0
    BY <1>5, <1>6 DEF Watchable, s
  <2>2. \A k \in DOMAIN watched' : watched'[k].fd # 0 /\ watched'[k].fd <= lastFd
    BY <1>4, <2>1 DEF PollInv, NumbersInv, s
  <2> QED
    BY <1>0, <2>1, <2>2 DEF PollInv, NumbersInv
<1>11. ScriptInv'
  <2>1. todo = <<>> /\ cb = NoCallback /\ cursor <= Len(watched) /\ cursor \in Nat
    BY <1>0 DEF PollInv, ScriptInv, TypeOK
  <2>2. cursor <= Len(watched')
    BY <1>6, <2>1
  <2> QED
    BY <1>0, <2>1, <2>2 DEF PollInv, ScriptInv
<1> QED
  BY <1>0, <1>7, <1>8, <1>9, <1>10, <1>11 DEF PollInv

\* A poll that ends forgets its locals.
LEMMA LeaveStep ==
  ASSUME PollInv, Leave, cb' = NoCallback, snap = <<>> PROVE PollInv'
<1>0. /\ UNCHANGED <<alive, fd, gen, lastFd, tokens, active, tcp, udp, snap, ops, usedDead, nullUse>>
      /\ pc' = "idle" /\ watched' = <<>> /\ cursor' = 0 /\ todo' = <<>> /\ cb' = NoCallback
      /\ late' = {}
  BY DEF Leave, objVars, regVars
<1>1. NoCallback \in Callbacks
  BY DEF NoCallback, Callbacks, Events
<1>2. TypeOK'
  BY <1>0, <1>1 DEF PollInv, TypeOK
<1>3. RegInv' /\ SnapshotInv' /\ NumbersInv'
  BY <1>0 DEF PollInv, RegInv, SnapshotInv, NumbersInv
<1>4. ScriptInv'
  BY <1>0 DEF ScriptInv, ScriptOK
<1> QED
  BY <1>0, <1>2, <1>3, <1>4 DEF PollInv

\* The end of the native wait: the dispatch begins at the first watched descriptor.
LEMMA PollReadyStep ==
  ASSUME PollInv, PollReady PROVE PollInv'
<1>0. /\ UNCHANGED <<alive, fd, gen, lastFd, tokens, active, tcp, udp, snap, watched, cursor, todo, cb,
                     ops, usedDead, nullUse, late>>
      /\ pc = "wait" /\ pc' = "dispatch" /\ snap = <<>>
  BY DEF PollReady, objVars, regVars, pollVars
<1>1. TypeOK'
  BY <1>0 DEF PollInv, TypeOK
<1>2. RegInv' /\ SnapshotInv' /\ NumbersInv'
  BY <1>0 DEF PollInv, RegInv, SnapshotInv, NumbersInv
<1>3. ScriptInv'
  BY <1>0 DEF PollInv, ScriptInv
<1> QED
  BY <1>0, <1>1, <1>2, <1>3 DEF PollInv

\* What stays when poll() moves on in its script: a new script is one of the
\* code's, its first step may be unguarded only on an object that was just found
\* to exist and to have the watched descriptor.
LEMMA ScriptMoves ==
  ASSUME PollInv, pc = "dispatch", cb = NoCallback,
         UNCHANGED <<regVars, pc, snap, watched, alive, gen, lastFd, ops, cb, fd, late>>,
         ~usedDead', usedDead' \in BOOLEAN, nullUse' \in BOOLEAN,
         cursor' \in 1..Len(watched), ScriptOK(todo'),
         todo' # <<>> /\ todo'[1].op \in Unguarded =>
            LET w == watched[cursor']
            IN  /\ tokens[w.tok] \in alive
                /\ todo'[1].op # "call" => fd[tokens[w.tok]] = w.fd
                /\ todo'[1].op = "call" => w.tok \in active
  PROVE  PollInv'
<1>0. UNCHANGED <<alive, fd, gen, lastFd, tokens, active, tcp, udp, pc, snap, watched, cb, ops, late>>
  BY DEF regVars
<1>1. TypeOK'
  <2>1. todo' \in Seq(Entries) /\ cursor' \in Nat
    BY PollFacts DEF ScriptOK
  <2> QED
    BY <1>0, <2>1 DEF PollInv, TypeOK
<1>2. RegInv' /\ SnapshotInv' /\ NumbersInv'
  BY <1>0 DEF PollInv, RegInv, SnapshotInv, NumbersInv
<1>3. ScriptInv'
  <2>1. cursor' <= Len(watched')
    BY <1>0, PollFacts
  <2>2. ScriptOK(todo)'
    BY DEF ScriptOK
  <2> QED
    BY <1>0, <2>1, <2>2 DEF ScriptInv, Subject, IsSame, Current, Unguarded
<1> QED
  BY <1>1, <1>2, <1>3 DEF PollInv

\* The next watched descriptor is looked at and its script chosen.
LEMMA DispatchStep ==
  ASSUME PollInv, Dispatch PROVE PollInv'
<1> DEFINE w == watched[cursor + 1]
           s == tokens[w.tok]
<1>0. /\ pc = "dispatch" /\ cb = NoCallback /\ cursor < Len(watched) /\ cursor' = cursor + 1
      /\ UNCHANGED <<regVars, pc, snap, watched, alive, gen, lastFd, ops, cb, fd, nullUse, late>>
  BY DEF Dispatch, Idling, objVars
<1>1. cursor' \in 1..Len(watched) /\ cursor' \in DOMAIN watched /\ w = watched[cursor']
  BY <1>0, PollFacts
<1>2. s \in Sockets /\ w.tok \in DOMAIN tokens
  BY <1>1, PollFacts
<1>3. usedDead \in BOOLEAN /\ ~usedDead /\ nullUse' \in BOOLEAN
  BY <1>0 DEF PollInv, TypeOK
<1> HIDE DEF w, s
<1>4. \/ todo' \in {<<Step("due")>>, <<>>} /\ usedDead' = usedDead
      \/ /\ w.tok \in active /\ Touches(s) /\ fd[s] = w.fd
         /\ \E flags \in Ready(s) : todo' \in Scripts(s, flags)
  BY DEF Dispatch, w, s
<1>5. CASE todo' \in {<<Step("due")>>, <<>>} /\ usedDead' = usedDead
  <2>1. Guarded(todo')
    BY <1>5, EntryFacts, Pieces
  <2>2. ScriptOK(todo') /\ (todo' # <<>> => todo'[1].op \notin Unguarded)
    BY <2>1, Pieces DEF Guarded
  <2> QED
    BY <1>0, <1>1, <1>3, <1>5, <2>2, ScriptMoves
<1>6. CASE /\ w.tok \in active /\ Touches(s) /\ fd[s] = w.fd
           /\ \E flags \in Ready(s) : todo' \in Scripts(s, flags)
  <2>1. s \in alive
    BY <1>6 DEF PollInv, RegInv, s
  <2>2. usedDead' \in BOOLEAN /\ ~usedDead'
    BY <1>3, <1>6, <2>1 DEF Touches
  <2>3. ScriptOK(todo')
    BY <1>2, <1>6, ScriptsOK
  <2> QED
    BY <1>0, <1>1, <1>3, <1>6, <2>1, <2>2, <2>3, ScriptMoves DEF s
<1> QED
  BY <1>4, <1>5, <1>6

\* The step that asks for a deadline that is due reads the token a second time.
LEMMA CheckDueStep ==
  ASSUME PollInv, CheckDue PROVE PollInv'
<1>0. /\ pc = "dispatch" /\ cb = NoCallback /\ todo # <<>> /\ cursor' = cursor
      /\ UNCHANGED <<regVars, pc, snap, watched, alive, gen, lastFd, ops, cb, fd, late>>
  BY DEF CheckDue, objVars
<1>1. /\ cursor' \in 1..Len(watched) /\ Subject = tokens[watched[cursor'].tok]
      /\ Current = watched[cursor'] /\ Subject \in Sockets
  BY <1>0, PollFacts DEF Subject, Current
<1>2. usedDead \in BOOLEAN /\ ~usedDead /\ nullUse' \in BOOLEAN
  BY DEF PollInv, TypeOK, CheckDue
<1>3. \/ todo' = <<>>
      \/ IsActive /\ IsSame /\ todo' \in Scripts(Subject, {"DUE"})
  BY DEF CheckDue
<1>4. IsActive => Subject \in alive
  BY DEF IsActive, Subject, PollInv, RegInv
<1>5. usedDead' \in BOOLEAN /\ ~usedDead'
  BY <1>2, <1>4 DEF CheckDue, Touches
<1>6. ScriptOK(todo')
  BY <1>1, <1>3, ScriptsOK, Pieces
<1> QED
  BY <1>0, <1>1, <1>2, <1>3, <1>4, <1>5, <1>6, ScriptMoves DEF IsSame, IsActive

\* flush_queued: the drain or error callback comes next, on the object that was
\* just asked.
LEMMA FlushStep ==
  ASSUME PollInv, FlushOutput PROVE PollInv'
<1>0. /\ pc = "dispatch" /\ cb = NoCallback /\ todo # <<>> /\ cursor' = cursor
      /\ UNCHANGED <<regVars, pc, snap, watched, alive, gen, lastFd, ops, cb, fd, nullUse, late>>
  BY DEF FlushOutput, ScriptStep
<1>1. /\ cursor' \in 1..Len(watched) /\ Subject = tokens[watched[cursor'].tok]
      /\ Current = watched[cursor'] /\ Subject \in Sockets
  BY <1>0, PollFacts DEF Subject, Current
<1>2. usedDead \in BOOLEAN /\ ~usedDead /\ nullUse' \in BOOLEAN
  BY <1>0 DEF PollInv, TypeOK
<1>3. \/ todo' = <<>>
      \/ /\ IsActive /\ IsSame
         /\ todo' \in {Failure \o <<Step("close_same_terminal")>>, <<Sock("drain"), Set("drain")>>}
  BY DEF FlushOutput
<1>4. IsActive => Subject \in alive
  BY DEF IsActive, Subject, PollInv, RegInv
<1>5. usedDead' \in BOOLEAN /\ ~usedDead'
  BY <1>2, <1>4 DEF FlushOutput, Touches
<1>6. ScriptOK(todo')
  <2>1. "error" \in Events /\ "drain" \in Events
    BY DEF Events
  <2>2. ScriptOK(<<Sock("drain"), Set("drain")>>) /\ ScriptOK(<<>>)
    BY <2>1, EntryFacts, Pieces
  <2>3. ScriptOK(Failure) /\ Failure # <<>> /\ Guarded(<<Step("close_same_terminal")>>)
    BY <2>1, EntryFacts, Pieces DEF Failure
  <2>4. ScriptOK(Failure \o <<Step("close_same_terminal")>>)
    BY <2>3, ConcatGuarded
  <2> QED
    BY <1>3, <2>2, <2>4
<1> QED
  BY <1>0, <1>1, <1>2, <1>3, <1>4, <1>5, <1>6, ScriptMoves DEF IsSame, IsActive

\* The other steps of a script consume its head, may run a callback, and may close
\* the socket that is dispatched.
LEMMA ConsumeStep ==
  ASSUME PollInv, ScriptStep, Consume,
         usedDead' \in BOOLEAN, ~usedDead', cb' \in Callbacks,
         fd' = fd \/ fd' = [fd EXCEPT ![Subject] = 0]
  PROVE  PollInv'
<1>0. /\ UNCHANGED <<alive, gen, lastFd, tokens, active, tcp, udp, pc, snap, watched, cursor, ops,
                        nullUse, late>>
      /\ pc = "dispatch" /\ todo # <<>> /\ todo' = Tail(todo)
  BY DEF ScriptStep, Consume, regVars
<1>1. cursor \in 1..Len(watched) /\ Subject \in Sockets /\ todo \in Seq(Entries)
  BY <1>0, PollFacts
<1>2. Guarded(todo')
  <2>1. /\ Len(todo) \in Nat /\ Len(todo) > 0 /\ todo' \in Seq(Entries) /\ Len(todo') = Len(todo) - 1
        /\ \A k \in 1..(Len(todo) - 1) : todo'[k] = todo[k + 1]
    BY <1>0, <1>1
  <2>2. \A k \in 1..(Len(todo) - 1) : k + 1 \in 2..Len(todo)
    BY <2>1
  <2>3. \A k \in 2..Len(todo) : todo[k].op \notin Unguarded
    BY DEF PollInv, ScriptInv, ScriptOK
  <2> QED
    BY <2>1, <2>2, <2>3 DEF Guarded
<1>3. ScriptOK(todo') /\ todo' \in Seq(Entries) /\ (todo' # <<>> => todo'[1].op \notin Unguarded)
  BY <1>2, Pieces DEF Guarded
<1>4. /\ fd \in [Sockets -> Nat] /\ fd' \in [Sockets -> Nat]
      /\ \A s \in Sockets : fd'[s] = fd[s] \/ fd'[s] = 0
  BY <1>1 DEF PollInv, TypeOK
<1>5. TypeOK'
  BY <1>0, <1>3, <1>4 DEF PollInv, TypeOK
<1>6. RegInv' /\ SnapshotInv'
  BY <1>0 DEF PollInv, RegInv, SnapshotInv
<1>7. NumbersInv'
  <2>1. lastFd \in Nat /\ \A s \in Sockets : fd'[s] <= lastFd
    BY <1>4 DEF PollInv, TypeOK, NumbersInv
  <2>2. ASSUME NEW k \in DOMAIN watched, fd'[tokens[watched[k].tok]] = watched[k].fd
        PROVE  fd[tokens[watched[k].tok]] = watched[k].fd
    BY <1>4, <2>2, PollFacts DEF PollInv, NumbersInv
  <2> QED
    BY <1>0, <2>1, <2>2 DEF PollInv, NumbersInv
<1>8. ScriptInv'
  <2>1. cursor <= Len(watched)
    BY <1>1, PollFacts
  <2>2. ScriptOK(todo)'
    BY <1>3 DEF ScriptOK
  <2> QED
    BY <1>0, <1>1, <1>3, <2>1, <2>2 DEF ScriptInv, Unguarded
<1> QED
  BY <1>5, <1>6, <1>7, <1>8 DEF PollInv

\* Every other script step looks at a socket that exists: it is registered, or
\* the step is unguarded and nothing ran since the socket was checked.
LEMMA ScriptSteps ==
  ASSUME PollInv,
         FireSocket \/ FireSet \/ CloseNow \/ CloseActive \/ CloseSameTerminal
  PROVE  PollInv'
<1>1. ScriptStep /\ Consume /\ pc = "dispatch" /\ todo # <<>> /\ cb = NoCallback
  BY DEF FireSocket, FireSet, CloseNow, CloseActive, CloseSameTerminal, ScriptStep
<1>2. /\ Current.tok \in Nat /\ cb \in Callbacks /\ usedDead \in BOOLEAN /\ ~usedDead
      /\ Head(todo) = todo[1] /\ todo[1] \in Entries
  <2>1. todo \in Seq(Entries)
    BY PollFacts
  <2> QED
    BY <1>1, <2>1, PollFacts DEF PollInv, TypeOK
<1>3. IsActive => Subject \in alive
  BY DEF IsActive, Subject, PollInv, RegInv
<1>4. Head(todo).op \in Unguarded => Subject \in alive
  BY <1>1, <1>2 DEF PollInv, ScriptInv
<1>5. usedDead' \in BOOLEAN /\ ~usedDead'
  <2>1. CASE FireSocket \/ CloseNow \/ FireSet
    <3>1. Head(todo).op \in Unguarded /\ Touches(Subject)
      BY <2>1 DEF FireSocket, CloseNow, FireSet, Unguarded
    <3> QED
      BY <1>2, <1>4, <3>1 DEF Touches
  <2>2. CASE CloseActive \/ CloseSameTerminal
    <3>1. (IsActive /\ Touches(Subject)) \/ usedDead' = usedDead
      BY <2>2 DEF CloseActive, CloseSameTerminal
    <3> QED
      BY <1>2, <1>3, <3>1 DEF Touches
  <2> QED
    BY <2>1, <2>2
<1>6. ASSUME NEW level \in {"sock", "set"}, NEW ev \in Events, Fire(level, ev) PROVE cb' \in Callbacks
  <2>1. cb' = [level |-> level, ev |-> ev, tok |-> Current.tok]
    BY <1>6 DEF Fire
  <2> QED
    BY <1>2, <2>1 DEF Callbacks
<1>7. Head(todo).ev \in Events /\ "close" \in Events
  BY <1>2 DEF Entries, Events
<1>8. \/ cb' = cb
      \/ \E level \in {"sock", "set"}, ev \in Events : Fire(level, ev)
  BY <1>7 DEF FireSocket, FireSet, CloseNow, CloseActive, CloseSameTerminal, CloseByPoll
<1>9. cb' \in Callbacks
  BY <1>2, <1>6, <1>8
<1>10. fd' = fd \/ fd' = [fd EXCEPT ![Subject] = 0]
  BY DEF FireSocket, FireSet, CloseNow, CloseActive, CloseSameTerminal, CloseByPoll
<1> QED
  BY <1>1, <1>5, <1>9, <1>10, ConsumeStep

\* A check of the registration decides whether the set's handlers are called next:
\* the rest of the script is guarded, so the call is its only unguarded step.
LEMMA CheckStep ==
  ASSUME PollInv, CheckSet \/ CheckSetSame PROVE PollInv'
<1>0. /\ pc = "dispatch" /\ cb = NoCallback /\ todo # <<>> /\ cursor' = cursor
      /\ UNCHANGED <<regVars, pc, snap, watched, alive, gen, lastFd, ops, cb, fd, nullUse, late>>
  BY DEF CheckSet, CheckSetSame, ScriptStep
<1>1. /\ cursor' \in 1..Len(watched) /\ Subject = tokens[watched[cursor'].tok]
      /\ Current = watched[cursor']
  BY <1>0, PollFacts DEF Subject, Current
<1>2. usedDead \in BOOLEAN /\ ~usedDead /\ nullUse' \in BOOLEAN
  BY <1>0 DEF PollInv, TypeOK
<1>3. IsActive => Subject \in alive
  BY DEF IsActive, Subject, PollInv, RegInv
<1>4. usedDead' \in BOOLEAN /\ ~usedDead'
  BY <1>2, <1>3 DEF CheckSet, CheckSetSame, Touches
<1> DEFINE call == <<Call(Head(todo).ev)>>
<1>5. todo' = Tail(todo) \/ (IsActive /\ todo' = call \o Tail(todo))
  BY DEF CheckSet, CheckSetSame, Decide
<1>6. todo \in Seq(Entries) /\ Head(todo).ev \in Events
  <2>1. todo \in Seq(Entries)
    BY PollFacts
  <2>2. Head(todo) \in Entries
    BY <1>0, <2>1
  <2> QED
    BY <2>1, <2>2 DEF Entries
<1>7. Guarded(Tail(todo))
  <2>1. /\ Len(todo) \in Nat /\ Len(todo) > 0 /\ Tail(todo) \in Seq(Entries)
        /\ Len(Tail(todo)) = Len(todo) - 1
        /\ \A k \in 1..(Len(todo) - 1) : Tail(todo)[k] = todo[k + 1]
    BY <1>0, <1>6
  <2>2. \A k \in 1..(Len(todo) - 1) : k + 1 \in 2..Len(todo)
    BY <2>1
  <2>3. \A k \in 2..Len(todo) : todo[k].op \notin Unguarded
    BY DEF PollInv, ScriptInv, ScriptOK
  <2> QED
    BY <2>1, <2>2, <2>3 DEF Guarded
<1>8. ScriptOK(call) /\ call # <<>>
  BY <1>6, EntryFacts, Pieces
<1> HIDE DEF call
<1>9. CASE todo' = Tail(todo)
  <2>1. ScriptOK(todo') /\ (todo' # <<>> => todo'[1].op \notin Unguarded)
    <3>1. ScriptOK(Tail(todo))
      BY <1>7, Pieces
    <3>2. \A rest : Guarded(rest) /\ rest # <<>> => rest[1].op \notin Unguarded
      BY DEF Guarded
    <3> QED
      BY <1>7, <1>9, <3>1, <3>2
  <2> QED
    BY <1>0, <1>1, <1>2, <1>4, <2>1, ScriptMoves
<1>10. CASE IsActive /\ todo' = call \o Tail(todo)
  <2>1. ScriptOK(todo')
    BY <1>7, <1>8, <1>10, ConcatGuarded
  <2>2. todo'[1].op = "call"
    <3>1. call \in Seq(Entries) /\ Len(call) = 1 /\ call[1] = Call(Head(todo).ev)
      BY <1>6, EntryFacts DEF call
    <3>2. Tail(todo) \in Seq(Entries)
      BY <1>7 DEF Guarded
    <3>3. (call \o Tail(todo))[1] = call[1]
      BY <3>1, <3>2, ConcatProperties
    <3>4. Call(Head(todo).ev).op = "call"
      BY DEF Call
    <3>5. todo'[1] = Call(Head(todo).ev)
      BY <1>10, <3>1, <3>3
    <3> QED
      BY <3>4, <3>5
  <2> QED
    BY <1>0, <1>1, <1>2, <1>3, <1>4, <1>10, <2>1, <2>2, ScriptMoves DEF IsActive
<1> QED
  BY <1>5, <1>9, <1>10

\* A callback that returns leaves the rest of the script to do.
LEMMA CallbackReturnsStep ==
  ASSUME PollInv, CallbackReturns PROVE PollInv'
<1>0. /\ UNCHANGED <<alive, fd, gen, lastFd, tokens, active, tcp, udp, pc, snap, watched, cursor, todo,
                     ops, usedDead, nullUse>>
      /\ cb # NoCallback /\ cb' = NoCallback /\ late' = {}
  BY DEF CallbackReturns, objVars, regVars, pollVars
<1>1. NoCallback \in Callbacks
  BY DEF NoCallback, Callbacks, Events
<1>2. TypeOK'
  BY <1>0, <1>1 DEF PollInv, TypeOK
<1>3. RegInv' /\ SnapshotInv' /\ NumbersInv'
  BY <1>0 DEF PollInv, RegInv, SnapshotInv, NumbersInv
<1>4. ScriptInv'
  <2>1. todo = <<>> \/ todo[1].op \notin Unguarded
    BY <1>0 DEF PollInv, ScriptInv
  <2> QED
    BY <1>0, <2>1 DEF PollInv, ScriptInv, Unguarded
<1> QED
  BY <1>0, <1>2, <1>3, <1>4 DEF PollInv

\* An empty set, with no poll in progress, satisfies the invariant.
LEMMA InitPollInv ==
  ASSUME Init PROVE PollInv
<1>1. /\ Cardinality(Sockets) \in Nat /\ fd \in [Sockets -> 1..Cardinality(Sockets)]
      /\ alive = Sockets /\ gen = [s \in Sockets |-> 1] /\ lastFd = Cardinality(Sockets)
  BY NumberingFacts DEF Init
<1>2. fd \in [Sockets -> Nat] /\ \A s \in Sockets : fd[s] <= lastFd
  BY <1>1
<1>3. /\ tokens = <<>> /\ active = {} /\ tcp = <<>> /\ udp = <<>>
      /\ pc = "idle" /\ snap = <<>> /\ watched = <<>> /\ cursor = 0 /\ todo = <<>>
      /\ cb = NoCallback /\ ops = 0 /\ usedDead \in BOOLEAN /\ ~usedDead /\ nullUse \in BOOLEAN
      /\ late = {}
  BY DEF Init
<1>4. NoCallback \in Callbacks
  BY DEF NoCallback, Callbacks, Events
<1>5. TypeOK
  BY <1>1, <1>2, <1>3, <1>4 DEF TypeOK
<1>6. RegInv
  BY <1>3 DEF RegInv, ToSet
<1>7. SnapshotInv
  BY <1>3 DEF SnapshotInv
<1>8. NumbersInv
  BY <1>2, <1>3 DEF NumbersInv
<1>9. ScriptInv
  BY <1>3 DEF ScriptInv, ScriptOK
<1> QED
  BY <1>3, <1>5, <1>6, <1>7, <1>8, <1>9 DEF PollInv

\* Every step keeps the invariant.
LEMMA PollInvStep ==
  ASSUME PollInv, [Next]_vars PROVE PollInv'
<1>1. CASE PollEnter
  BY <1>1, PollEnterStep
<1>2. CASE PollSnapshot
  BY <1>2, PollSnapshotStep
<1>3. CASE PollWatch
  BY <1>3, PollWatchStep
<1>4. CASE PollNothing \/ PollDone \/ CallbackThrows
  <2>1. Leave /\ cb' = NoCallback
    BY <1>4 DEF PollNothing, PollDone, CallbackThrows, Idling, PollInv, ScriptInv
  <2>2. snap = <<>>
    BY <1>4 DEF PollNothing, PollDone, CallbackThrows, Idling, PollInv, ScriptInv, SnapshotInv
  <2> QED
    BY <2>1, <2>2, LeaveStep
<1>5. CASE PollReady
  BY <1>5, PollReadyStep
<1>6. CASE Dispatch
  BY <1>6, DispatchStep
<1>7. CASE CheckDue
  BY <1>7, CheckDueStep
<1>8. CASE FlushOutput
  BY <1>8, FlushStep
<1>9. CASE FireSocket \/ FireSet \/ CloseNow \/ CloseActive \/ CloseSameTerminal
  BY <1>9, ScriptSteps
<1>9a. CASE CheckSet \/ CheckSetSame
  BY <1>9a, CheckStep
<1>10. CASE CallbackReturns
  BY <1>10, CallbackReturnsStep
<1>11. CASE UserOp
  BY <1>11, UserOpStep
<1>12. CASE UNCHANGED vars
  <2>1. UNCHANGED <<alive, fd, gen, lastFd, tokens, active, tcp, udp, pc, snap, watched, cursor, todo, cb,
                    ops, usedDead, nullUse, late>>
    BY <1>12 DEF vars, objVars, regVars, pollVars
  <2>2. TypeOK'
    BY <2>1 DEF PollInv, TypeOK
  <2>3. RegInv' /\ SnapshotInv' /\ NumbersInv'
    BY <2>1 DEF PollInv, RegInv, SnapshotInv, NumbersInv
  <2>4. ScriptInv'
    BY <2>1 DEF PollInv, ScriptInv, ScriptOK, Subject, Current, IsSame
  <2> QED
    BY <2>1, <2>2, <2>3, <2>4 DEF PollInv
<1> QED
  BY <1>1, <1>2, <1>3, <1>4, <1>5, <1>6, <1>7, <1>8, <1>9, <1>9a, <1>10, <1>11, <1>12 DEF Next, PollStep

\* The invariant holds at every moment of every poll.
LEMMA PollInvariant == Spec => []PollInv
<1>1. Init => PollInv
  BY InitPollInv
<1>2. PollInv /\ [Next]_vars => PollInv'
  BY PollInvStep
<1> QED
  BY <1>1, <1>2, PTL DEF Spec

-----------------------------------------------------------------------------
(* The theorems.                                                           *)

\* The flags of the tokens and the entry lists of the two registries agree at
\* every moment, whatever threads and callbacks add and remove during a poll.
THEOREM RegistryTheorem == Spec => []RegistryConsistent
<1>1. PollInv => RegistryConsistent
  BY DEF PollInv, RegInv, RegistryConsistent
<1> QED
  BY <1>1, PollInvariant, PTL

\* poll() never reads a socket that a callback destroyed.
THEOREM NoUseAfterDestroyTheorem == Spec => []NoUseAfterDestroy
<1>1. PollInv => NoUseAfterDestroy
  BY DEF PollInv, NoUseAfterDestroy
<1> QED
  BY <1>1, PollInvariant, PTL

\* What only script steps do: they start callbacks, and close sockets during a
\* dispatch outside of callbacks.
LEMMA ActingSteps ==
  ASSUME PollInv, [Next]_vars, cb = NoCallback,
         cb' # NoCallback \/ (pc = "dispatch" /\ fd' # fd)
  PROVE  FireSocket \/ FireSet \/ CloseNow \/ CloseActive \/ CloseSameTerminal
<1>1. ~(UNCHANGED <<cb, fd>>)
  OBVIOUS
<1>2. ~(PollEnter \/ PollSnapshot \/ PollWatch \/ PollNothing \/ PollReady \/ Dispatch \/ PollDone
        \/ FlushOutput \/ CheckDue \/ CheckSet \/ CheckSetSame)
  BY <1>1 DEF PollEnter, PollSnapshot, PollWatch, PollNothing, PollReady, Dispatch, PollDone,
              FlushOutput, CheckDue, CheckSet, CheckSetSame, Leave, objVars
<1>3. ~(CallbackReturns \/ CallbackThrows)
  BY DEF CallbackReturns, CallbackThrows
<1>4. ASSUME UserOp PROVE FALSE
  <2>1. cb' = cb
    BY <1>4 DEF UserOp
  <2>2. pc = "dispatch" /\ fd' # fd
    BY <2>1
  <2>3. RegistrationOp
    BY <1>4, <2>2 DEF UserOp
  <2>4. RegTypes /\ RegInv /\ alive \subseteq Sockets
    BY DEF PollInv, TypeOK, RegTypes
  <2>5. UNCHANGED objVars
    BY <2>3, <2>4, RegistrationStep
  <2> QED
    BY <2>2, <2>5 DEF objVars
<1>5. ~(UNCHANGED vars)
  BY <1>1 DEF vars, objVars
<1> QED
  BY <1>2, <1>3, <1>4, <1>5 DEF Next, PollStep

\* A set-level callback runs only for a registration that is active, or that another
\* thread took away after poll() had checked it, and no other watched entry of this
\* poll is for the same socket.
THEOREM FanoutTheorem == Spec => FanoutIsRegistered
<1> DEFINE A == cb = NoCallback /\ cb'.level = "set" =>
                  /\ cb'.tok \in active \union late
                  /\ \A k \in DOMAIN watched : tokens[watched[k].tok] = Subject => k = cursor
<1>1. ASSUME PollInv, [Next]_vars, cb = NoCallback, cb'.level = "set" PROVE A
  <2>1. cb' # NoCallback
    BY <1>1 DEF NoCallback
  <2>2. FireSocket \/ FireSet \/ CloseNow \/ CloseActive \/ CloseSameTerminal
    BY <1>1, <2>1, ActingSteps
  <2>3. \A level, ev : Fire(level, ev) => cb'.level = level /\ cb'.tok = Current.tok
    BY DEF Fire
  <2>4. cb' # cb
    BY <1>1, <2>1
  <2>5. ~(FireSocket \/ CloseNow \/ CloseActive \/ CloseSameTerminal)
    BY <1>1, <2>3, <2>4 DEF FireSocket, CloseNow, CloseActive, CloseSameTerminal, CloseByPoll
  <2>6. Head(todo).op = "call" /\ cb'.tok = Current.tok
    BY <2>2, <2>3, <2>5 DEF FireSet
  <2>7. todo # <<>> /\ Head(todo) = todo[1]
    <3>1. todo # <<>>
      BY <2>2, <2>5 DEF FireSet, ScriptStep
    <3> QED
      BY <1>1, <3>1, PollFacts
  <2>8. cursor \in DOMAIN watched /\ Subject = tokens[watched[cursor].tok]
    BY <1>1, <2>7, PollFacts DEF Subject, Current
  <2>9. \A k \in DOMAIN watched : tokens[watched[k].tok] = Subject => k = cursor
    BY <1>1, <2>8 DEF PollInv, SnapshotInv
  <2>10. Current.tok \in active \union late
    BY <1>1, <2>6, <2>7 DEF PollInv, ScriptInv
  <2> QED
    BY <2>6, <2>9, <2>10
<1>2. PollInv /\ [Next]_vars => [A]_vars
  BY <1>1
<1> QED
  BY <1>2, PollInvariant, PTL DEF Spec, FanoutIsRegistered

\* A failure is reported to, and a close hits, the connection that poll() watched.
THEOREM ActsOnWatchedTheorem == Spec => ActsOnWatched
<1> DEFINE A == /\ cb = NoCallback /\ pc = "dispatch"
                /\ \/ cb'.level = "sock" /\ cb'.ev = "error"
                   \/ fd' # fd /\ Head(todo).op # "close_active"
                => StillWatched
<1>1. ASSUME PollInv, IsSame, todo # <<>> PROVE StillWatched
  <2>1. cursor \in DOMAIN watched
    BY <1>1, PollFacts
  <2> QED
    BY <1>1, <2>1, SwitchAssumption DEF StillWatched, IsSame, Subject, Current, PollInv, NumbersInv
<1>2. ASSUME PollInv, [Next]_vars, cb = NoCallback, pc = "dispatch",
             \/ cb'.level = "sock" /\ cb'.ev = "error"
             \/ fd' # fd /\ Head(todo).op # "close_active"
      PROVE  StillWatched
  <2>1. cb'.level = "sock" => cb' # NoCallback
    BY DEF NoCallback
  <2>2. FireSocket \/ FireSet \/ CloseNow \/ CloseActive \/ CloseSameTerminal
    BY <1>2, <2>1, ActingSteps
  <2>3. todo # <<>>
    BY <2>2 DEF FireSocket, FireSet, CloseNow, CloseActive, CloseSameTerminal, ScriptStep
  <2>4. Head(todo) = todo[1]
    <3>1. todo \in Seq(Entries)
      BY <1>2, PollFacts
    <3> QED
      BY <2>3, <3>1
  <2>5. Head(todo).op \in {"sock", "close"} => IsSame
    BY <1>2, <2>3, <2>4 DEF PollInv, ScriptInv
  <2>6. \A level, ev : Fire(level, ev) => cb'.level = level /\ cb'.ev = ev
    BY DEF Fire
  <2>7. CASE FireSocket \/ CloseNow
    <3>1. IsSame
      BY <2>5, <2>7 DEF FireSocket, CloseNow
    <3> QED
      BY <1>1, <1>2, <2>3, <3>1
  <2>8. CASE FireSet
    <3>1. fd' = fd /\ (cb' = cb \/ \E ev : Fire("set", ev))
      BY <2>8 DEF FireSet
    <3> QED
      BY <1>2, <2>1, <2>6, <3>1
  <2>9. CASE CloseActive
    <3>1. Head(todo).op = "close_active" /\ (cb' = cb \/ Fire("sock", "close"))
      BY <2>9 DEF CloseActive, CloseByPoll
    <3> QED
      BY <1>2, <2>1, <2>6, <3>1
  <2>10. CASE CloseSameTerminal
    <3>1. CASE IsSame
      BY <1>1, <1>2, <2>3, <3>1
    <3>2. CASE ~IsSame
      <4>1. fd' = fd /\ cb' = cb
        BY <2>10, <3>2 DEF CloseSameTerminal
      <4> QED
        BY <1>2, <2>1, <4>1
    <3> QED
      BY <3>1, <3>2
  <2> QED
    BY <2>2, <2>7, <2>8, <2>9, <2>10
<1>3. PollInv /\ [Next]_vars => [A]_vars
  BY <1>2
<1> QED
  BY <1>3, PollInvariant, PTL DEF Spec, ActsOnWatched
==============================================================================
