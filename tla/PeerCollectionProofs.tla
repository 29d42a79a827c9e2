------------------------ MODULE PeerCollectionProofs ------------------------
(***************************************************************************)
(* Proofs about PeerCollection, for any set of peer addresses, any depth   *)
(* of reentered calls and any number of calls of user code.                *)
(***************************************************************************)
EXTENDS PeerCollection, SequenceTheorems, FiniteSetTheorems, WellFoundedInduction, TLAPS

-----------------------------------------------------------------------------
(* The inductive invariant.                                                *)

\* The peers on their way out, and the runs of close_owned_peers, of a stack.
RetiredOf(st) == {st[k].peer : k \in {j \in DOMAIN st : st[j].fn = "remove"}}
Loops(st) == {k \in DOMAIN st : st[k].fn = "close_all"}
IsLooping(st) == Loops(st) # {}

\* Each peer is on its way out once, remove_owned_peer always stands at its
\* handler, and close_owned_peers is not reentered.
Good(st) ==
    /\ st \in Seq(Frames)
    /\ \A j, k \in DOMAIN st :
          st[j].fn = "remove" /\ st[k].fn = "remove" /\ st[j].peer = st[k].peer => j = k
    /\ \A k \in DOMAIN st : st[k].fn = "remove" => st[k].at = "handler"
    /\ \A j, k \in Loops(st) : j = k

PeerInv ==
    /\ TypeOK
    /\ Injective(owned) /\ Injective(members)
    /\ Elements(members) \subseteq Elements(owned)
    /\ open \subseteq Elements(owned)
    /\ alive = Elements(owned) \union RetiredOf(stack)
    /\ RetiredOf(stack) \cap Elements(owned) = {}
    /\ Good(stack)
    /\ closing <=> IsLooping(stack)

-----------------------------------------------------------------------------
(* Vectors.                                                                *)

\* The erasure of one entry of a vector without duplicates.
LEMMA EraseFacts ==
  ASSUME NEW S, NEW r \in Seq(S), NEW i \in DOMAIN r, Injective(r)
  PROVE  /\ Erase(r, i) \in Seq(S) /\ Injective(Erase(r, i))
         /\ Elements(Erase(r, i)) = Elements(r) \ {r[i]}
<1> DEFINE e == Erase(r, i)
           Old(k) == IF k < i THEN k ELSE k + 1
<1>0. Len(r) \in Nat /\ DOMAIN r = 1..Len(r) /\ \A k \in 1..Len(r) : r[k] \in S
  OBVIOUS
<1>1. e = [k \in 1..(Len(r) - 1) |-> r[Old(k)]]
  BY DEF Erase
<1>2. \A k \in 1..(Len(r) - 1) : Old(k) \in 1..Len(r) /\ Old(k) # i
  BY <1>0
<1>3. \A j, k \in 1..(Len(r) - 1) : Old(j) = Old(k) => j = k
  BY <1>0
<1>4. \A j \in 1..Len(r) : j # i => \E k \in 1..(Len(r) - 1) : j = Old(k)
  <2> TAKE j \in 1..Len(r)
  <2> HAVE j # i
  <2>1. CASE j < i
    BY <1>0, <2>1
  <2>2. CASE j > i
    <3>1. j - 1 \in 1..(Len(r) - 1) /\ j = Old(j - 1)
      BY <1>0, <2>2
    <3> QED
      BY <3>1
  <2> QED
    BY <1>0, <2>1, <2>2
<1> HIDE DEF Old
<1>5. DOMAIN e = 1..(Len(r) - 1) /\ \A k \in 1..(Len(r) - 1) : e[k] = r[Old(k)]
  BY <1>1
<1>6. e \in Seq(S)
  <2>1. Len(r) - 1 \in Nat
    BY <1>0
  <2>2. \A k \in 1..(Len(r) - 1) : r[Old(k)] \in S
    BY <1>0, <1>2
  <2> QED
    BY <1>1, <2>1, <2>2
<1> HIDE DEF e
<1>7. Elements(e) = Elements(r) \ {r[i]}
  <2>1. ASSUME NEW x \in Elements(e) PROVE x \in Elements(r) \ {r[i]}
    <3>1. PICK k \in 1..(Len(r) - 1) : x = r[Old(k)]
      BY <1>5 DEF Elements
    <3>2. Old(k) \in DOMAIN r /\ Old(k) # i
      BY <1>0, <1>2
    <3> QED
      BY <3>1, <3>2 DEF Elements, Injective
  <2>2. ASSUME NEW x \in Elements(r) \ {r[i]} PROVE x \in Elements(e)
    <3>1. PICK j \in 1..Len(r) : x = r[j] /\ j # i
      BY <1>0 DEF Elements
    <3>2. PICK k \in 1..(Len(r) - 1) : j = Old(k)
      BY <1>4, <3>1
    <3> QED
      BY <1>5, <3>1, <3>2 DEF Elements
  <2> QED
    BY <2>1, <2>2
<1>8. Injective(e)
  BY <1>0, <1>2, <1>3, <1>5 DEF Injective
<1> QED
  BY <1>6, <1>7, <1>8 DEF e

\* remove_owned_peer takes the peer out of a vector, and nothing else.
LEMMA WithoutFacts ==
  ASSUME NEW S, NEW r \in Seq(S), NEW p, Injective(r)
  PROVE  /\ Without(r, p) \in Seq(S) /\ Injective(Without(r, p))
         /\ Elements(Without(r, p)) = Elements(r) \ {p}
         /\ p \in Elements(r) => \E i \in DOMAIN r : r[i] = p /\ Without(r, p) = Erase(r, i)
<1>1. CASE p \notin Elements(r)
  BY <1>1 DEF Without
<1>2. CASE p \in Elements(r)
  <2> DEFINE First(i) == r[i] = p /\ \A j \in 1..(i - 1) : r[j] # p
             c == CHOOSE i \in DOMAIN r : First(i)
  <2>1. PICK i \in DOMAIN r : r[i] = p
    BY <1>2 DEF Elements
  <2>2. First(i)
    <3>1. Len(r) \in Nat /\ DOMAIN r = 1..Len(r)
      OBVIOUS
    <3>2. ASSUME NEW j \in 1..(i - 1), r[j] = p PROVE FALSE
      <4>1. j \in DOMAIN r /\ j # i
        BY <3>1
      <4> QED
        BY <2>1, <3>2, <4>1 DEF Injective
    <3> QED
      BY <2>1, <3>2
  <2>3. c \in DOMAIN r /\ r[c] = p
    BY <2>1, <2>2
  <2>4. Without(r, p) = Erase(r, c)
    BY <1>2 DEF Without
  <2> HIDE DEF c
  <2> QED
    BY <2>3, <2>4, EraseFacts
<1> QED
  BY <1>1, <1>2

\* push_back of a new entry.
LEMMA AppendFacts ==
  ASSUME NEW S, NEW r \in Seq(S), NEW p \in S
  PROVE  /\ Append(r, p) \in Seq(S) /\ Elements(Append(r, p)) = Elements(r) \union {p}
         /\ Injective(r) /\ p \notin Elements(r) => Injective(Append(r, p))
<1> DEFINE a == Append(r, p)
<1>1. /\ a \in Seq(S) /\ Len(r) \in Nat /\ DOMAIN r = 1..Len(r) /\ DOMAIN a = 1..(Len(r) + 1)
      /\ a[Len(r) + 1] = p /\ \A i \in 1..Len(r) : a[i] = r[i]
  OBVIOUS
<1> HIDE DEF a
<1>2. /\ \A i \in 1..(Len(r) + 1) : i \in 1..Len(r) \/ i = Len(r) + 1
      /\ \A i \in 1..Len(r) : i \in 1..(Len(r) + 1)
      /\ Len(r) + 1 \in 1..(Len(r) + 1)
  BY <1>1
<1>3. Elements(a) = Elements(r) \union {p}
  BY <1>1, <1>2 DEF Elements
<1>4. Injective(r) /\ p \notin Elements(r) => Injective(a)
  BY <1>1, <1>2 DEF Elements, Injective
<1> QED
  BY <1>1, <1>3, <1>4 DEF a

\* socket_set::remove(index, count) drops a run of members.
LEMMA CutFacts ==
  ASSUME NEW S, NEW r \in Seq(S), NEW i \in DOMAIN r, NEW count \in Nat \ {0}, Injective(r)
  PROVE  LET c == SubSeq(r, 1, i - 1) \o SubSeq(r, i + count, Len(r))
         IN  c \in Seq(S) /\ Injective(c) /\ Elements(c) \subseteq Elements(r)
<1> DEFINE a == SubSeq(r, 1, i - 1)
           b == SubSeq(r, i + count, Len(r))
           c == a \o b
           Old(k) == IF k < i THEN k ELSE k + count
<1>0. Len(r) \in Nat /\ DOMAIN r = 1..Len(r) /\ i \in 1..Len(r)
  OBVIOUS
<1>1. /\ a \in Seq(S) /\ Len(a) = i - 1 /\ \A k \in 1..(i - 1) : a[k] = r[k]
  <2>1. i - 1 \in Int /\ \A k \in 1..(i - 1) : r[k] \in S
    BY <1>0
  <2>2. /\ a \in Seq(S) /\ Len(a) = IF 1 <= i - 1 THEN i - 1 - 1 + 1 ELSE 0
        /\ \A k \in 1..(i - 1 - 1 + 1) : a[k] = r[1 + k - 1]
    BY <2>1, SubSeqProperties
  <2> HIDE DEF a
  <2> QED
    BY <1>0, <2>2
<1>2. /\ b \in Seq(S) /\ Len(b) \in Nat
      /\ Len(b) = IF i + count <= Len(r) THEN Len(r) - (i + count) + 1 ELSE 0
      /\ \A k \in 1..Len(b) : b[k] = r[i + count + k - 1]
  <2>1. CASE i + count <= Len(r)
    BY SMTT(30), <1>0, <2>1, SubSeqProperties
  <2>2. CASE i + count > Len(r)
    <3>1. b = <<>>
      BY <1>0, <2>2, SubSeqEmpty
    <3> QED
      BY <1>0, <2>2, <3>1
  <2> QED
    BY <1>0, <2>1, <2>2
<1> HIDE DEF a, b
<1>3. /\ c \in Seq(S) /\ Len(c) = Len(a) + Len(b) /\ DOMAIN c = 1..(Len(a) + Len(b))
      /\ \A k \in 1..(Len(a) + Len(b)) : c[k] = IF k <= Len(a) THEN a[k] ELSE b[k - Len(a)]
  <2>1. a \in Seq(S) /\ b \in Seq(S) /\ Len(a) \in Nat /\ Len(b) \in Nat
    BY <1>0, <1>1, <1>2
  <2>2. /\ a \o b \in Seq(S) /\ Len(a \o b) = Len(a) + Len(b)
        /\ \A k \in 1..(Len(a) + Len(b)) : (a \o b)[k] = IF k <= Len(a) THEN a[k] ELSE b[k - Len(a)]
    BY <2>1, ConcatProperties
  <2> QED
    BY <2>1, <2>2
<1> HIDE DEF c
<1>4. \A k \in DOMAIN c : Old(k) \in DOMAIN r /\ c[k] = r[Old(k)]
  <2> TAKE k \in DOMAIN c
  <2>1. CASE k < i
    BY <1>0, <1>1, <1>2, <1>3, <2>1
  <2>2. CASE k >= i
    <3>1. k - Len(a) \in 1..Len(b) /\ k > Len(a) /\ k \in Int
      BY SMTT(30), <1>0, <1>1, <1>2, <1>3, <2>2
    <3>2. c[k] = b[k - Len(a)]
      BY <1>3, <1>1, <1>0, <3>1
    <3>3. b[k - Len(a)] = r[i + count + (k - Len(a)) - 1]
      BY <1>2, <3>1
    <3>4. i + count + (k - Len(a)) - 1 = k + count
      BY SMTT(30), <1>0, <1>1, <3>1
    <3>5. k + count \in DOMAIN r /\ Old(k) = k + count
      BY SMTT(30), <1>0, <1>1, <1>2, <2>2, <3>1
    <3> QED
      BY <3>2, <3>3, <3>4, <3>5
  <2> QED
    BY <1>0, <1>3, <1>1, <1>2, <2>1, <2>2
<1>5. \A j, k \in DOMAIN c : Old(j) = Old(k) => j = k
  BY <1>0, <1>1, <1>2, <1>3
<1> HIDE DEF Old
<1>6. Injective(c) /\ Elements(c) \subseteq Elements(r)
  BY <1>4, <1>5 DEF Injective, Elements
<1> QED
  BY <1>3, <1>6 DEF a, b, c

-----------------------------------------------------------------------------
(* The stack of calls.                                                     *)

\* A call that begins.
LEMMA PushFacts ==
  ASSUME NEW st, NEW f \in Frames, Good(st),
         f.fn = "remove" => f.peer \notin RetiredOf(st) /\ f.at = "handler",
         f.fn = "close_all" => ~IsLooping(st)
  PROVE  /\ Good(Append(st, f))
         /\ RetiredOf(Append(st, f)) = RetiredOf(st) \union (IF f.fn = "remove" THEN {f.peer} ELSE {})
         /\ IsLooping(Append(st, f)) <=> IsLooping(st) \/ f.fn = "close_all"
<1> DEFINE a == Append(st, f)
<1>0. st \in Seq(Frames)
  BY DEF Good
<1>1. /\ a \in Seq(Frames) /\ Len(st) \in Nat /\ DOMAIN st = 1..Len(st) /\ DOMAIN a = 1..(Len(st) + 1)
      /\ a[Len(st) + 1] = f /\ \A i \in 1..Len(st) : a[i] = st[i]
  BY <1>0
<1> HIDE DEF a
<1> DEFINE last == Len(st) + 1
<1>2. /\ \A i \in DOMAIN a : i \in DOMAIN st \/ i = last
      /\ \A i \in DOMAIN st : i \in DOMAIN a /\ a[i] = st[i] /\ i # last
      /\ last \in DOMAIN a /\ a[last] = f
  BY <1>1
<1> HIDE DEF last
<1>3. \A k \in DOMAIN st : st[k].fn = "remove" => st[k].peer \in RetiredOf(st)
  BY DEF RetiredOf
<1>4. \A k \in DOMAIN st : st[k].fn = "close_all" => IsLooping(st)
  BY DEF IsLooping, Loops
<1>5. ASSUME NEW j \in DOMAIN a, NEW k \in DOMAIN a,
             a[j].fn = "remove" /\ a[k].fn = "remove" /\ a[j].peer = a[k].peer
      PROVE  j = k
  BY <1>2, <1>3, <1>5 DEF Good
<1>6. \A k \in DOMAIN a : a[k].fn = "remove" => a[k].at = "handler"
  BY <1>2 DEF Good
<1>7. \A j, k \in Loops(a) : j = k
  BY <1>2, <1>4 DEF Good, Loops
<1>8. Good(a)
  BY <1>1, <1>5, <1>6, <1>7 DEF Good
<1>9. RetiredOf(a) = RetiredOf(st) \union (IF f.fn = "remove" THEN {f.peer} ELSE {})
  <2>1. ASSUME NEW p \in RetiredOf(a)
        PROVE  p \in RetiredOf(st) \union (IF f.fn = "remove" THEN {f.peer} ELSE {})
    <3>1. PICK k \in DOMAIN a : a[k].fn = "remove" /\ p = a[k].peer
      BY DEF RetiredOf
    <3> QED
      BY <1>2, <1>3, <3>1
  <2>2. ASSUME NEW p \in RetiredOf(st) PROVE p \in RetiredOf(a)
    <3>1. PICK k \in DOMAIN st : st[k].fn = "remove" /\ p = st[k].peer
      BY DEF RetiredOf
    <3> QED
      BY <1>2, <3>1 DEF RetiredOf
  <2>3. f.fn = "remove" => f.peer \in RetiredOf(a)
    BY <1>2 DEF RetiredOf
  <2> QED
    BY <2>1, <2>2, <2>3
<1>10. IsLooping(a) <=> IsLooping(st) \/ f.fn = "close_all"
  BY <1>2 DEF IsLooping, Loops
<1> QED
  BY <1>8, <1>9, <1>10 DEF a

\* The innermost call and the ones around it.
LEMMA PopFacts ==
  ASSUME Good(stack), stack # <<>>
  PROVE  /\ Good(Below) /\ Top \in Frames
         /\ RetiredOf(stack) = RetiredOf(Below) \union (IF Top.fn = "remove" THEN {Top.peer} ELSE {})
         /\ Top.fn = "remove" => Top.peer \notin RetiredOf(Below) /\ Top.at = "handler"
         /\ IsLooping(stack) <=> IsLooping(Below) \/ Top.fn = "close_all"
         /\ Top.fn = "close_all" => ~IsLooping(Below)
<1> DEFINE n == Len(stack)
           b == Below
<1>0. stack \in Seq(Frames)
  BY DEF Good
<1>1. n \in Nat /\ n > 0 /\ DOMAIN stack = 1..n /\ Top = stack[n] /\ Top \in Frames
  BY <1>0 DEF Top
<1>2. b \in Seq(Frames) /\ DOMAIN b = 1..(n - 1) /\ \A k \in 1..(n - 1) : b[k] = stack[k]
  BY <1>0, <1>1 DEF Below
<1>3. /\ \A k \in DOMAIN b : k \in DOMAIN stack /\ b[k] = stack[k] /\ k # n
      /\ \A k \in DOMAIN stack : k \in DOMAIN b \/ k = n
      /\ n \in DOMAIN stack
  BY <1>1, <1>2
<1> HIDE DEF b, n
<1>4. Good(b)
  BY <1>2, <1>3 DEF Good, Loops
<1>5. RetiredOf(stack) = RetiredOf(b) \union (IF Top.fn = "remove" THEN {Top.peer} ELSE {})
  <2>1. ASSUME NEW p \in RetiredOf(stack)
        PROVE  p \in RetiredOf(b) \union (IF Top.fn = "remove" THEN {Top.peer} ELSE {})
    <3>1. PICK k \in DOMAIN stack : stack[k].fn = "remove" /\ p = stack[k].peer
      BY DEF RetiredOf
    <3>2. CASE k \in DOMAIN b
      BY <1>3, <3>1, <3>2 DEF RetiredOf
    <3>3. CASE k = n
      BY <1>1, <3>1, <3>3
    <3> QED
      BY <1>3, <3>2, <3>3
  <2>2. ASSUME NEW p \in RetiredOf(b) PROVE p \in RetiredOf(stack)
    <3>1. PICK k \in DOMAIN b : b[k].fn = "remove" /\ p = b[k].peer
      BY DEF RetiredOf
    <3> QED
      BY <1>3, <3>1 DEF RetiredOf
  <2>3. Top.fn = "remove" => Top.peer \in RetiredOf(stack)
    BY <1>1, <1>3 DEF RetiredOf
  <2> QED
    BY <2>1, <2>2, <2>3
<1>6. Top.fn = "remove" => Top.peer \notin RetiredOf(b) /\ Top.at = "handler"
  <2>1. ASSUME Top.fn = "remove", Top.peer \in RetiredOf(b) PROVE FALSE
    <3>1. PICK k \in DOMAIN b : b[k].fn = "remove" /\ Top.peer = b[k].peer
      BY <2>1 DEF RetiredOf
    <3> QED
      BY <1>1, <1>3, <2>1, <3>1 DEF Good
  <2> QED
    BY <1>1, <1>3, <2>1 DEF Good
<1>7. IsLooping(stack) <=> IsLooping(b) \/ Top.fn = "close_all"
  BY <1>1, <1>3 DEF IsLooping, Loops
<1>8. Top.fn = "close_all" => ~IsLooping(b)
  BY <1>1, <1>3 DEF IsLooping, Loops, Good
<1> QED
  BY <1>1, <1>4, <1>5, <1>6, <1>7, <1>8 DEF b

\* A call that moves on: it stays a removal, or a run of close_owned_peers, or neither.
LEMMA ReplaceFacts ==
  ASSUME Good(stack), stack # <<>>, NEW f \in Frames,
         f.fn = "remove" <=> Top.fn = "remove", f.fn = "close_all" <=> Top.fn = "close_all",
         f.fn = "remove" => f.peer = Top.peer /\ f.at = "handler"
  PROVE  /\ Good(Replace(f)) /\ RetiredOf(Replace(f)) = RetiredOf(stack)
         /\ IsLooping(Replace(f)) <=> IsLooping(stack)
<1>1. /\ Good(Below)
      /\ f.fn = "remove" => f.peer \notin RetiredOf(Below) /\ f.at = "handler"
      /\ f.fn = "close_all" => ~IsLooping(Below)
  BY PopFacts
<1>2. /\ Good(Append(Below, f))
      /\ RetiredOf(Append(Below, f)) =
            RetiredOf(Below) \union (IF f.fn = "remove" THEN {f.peer} ELSE {})
      /\ IsLooping(Append(Below, f)) <=> IsLooping(Below) \/ f.fn = "close_all"
  BY <1>1, PushFacts
<1>3. /\ RetiredOf(stack) = RetiredOf(Below) \union (IF Top.fn = "remove" THEN {Top.peer} ELSE {})
      /\ IsLooping(stack) <=> IsLooping(Below) \/ Top.fn = "close_all"
  BY PopFacts
<1>4. RetiredOf(Append(Below, f)) = RetiredOf(stack)
  BY <1>2, <1>3
<1> QED
  BY <1>2, <1>3, <1>4 DEF Replace

\* An exception drops the calls that do not stand at a handler.
LEMMA UnwoundPrefix ==
  ASSUME Good(stack), stack # <<>>
  PROVE  LET n == Len(stack)
             u == Len(Unwound)
         IN  /\ Unwound \in Seq(Frames) /\ u \in 0..(n - 1) /\ DOMAIN Unwound = 1..u
             /\ \A k \in 1..u : Unwound[k] = stack[k]
             /\ \A k \in (u + 1)..(n - 1) : stack[k].at # "handler"
<1> DEFINE n == Len(stack)
           u == Len(Unwound)
<1>a. stack \in Seq(Frames)
  BY DEF Good
<1>b. n \in Nat /\ n > 0 /\ DOMAIN stack = 1..n
  BY <1>a
<1>1. CASE Outer = {}
  <2>1. Unwound = <<>>
    BY <1>1 DEF Unwound
  <2>2. \A k \in 1..(n - 1) : stack[k].at # "handler"
    BY <1>1 DEF Outer, Passes
  <2> QED
    BY <1>b, <2>1, <2>2
<1>2. CASE Outer # {}
  <2> DEFINE m == CHOOSE k \in Outer : \A j \in Outer : j <= k
             T == {n - k : k \in Outer}
             R == {ss \in Nat \X Nat : ss[1] < ss[2]}
  <2>1. Outer \subseteq 1..(n - 1)
    BY DEF Outer
  <2>2. T \in SUBSET Nat /\ T # {}
    <3>1. \A k \in Outer : n - k \in Nat
      BY <1>b, <2>1
    <3> QED
      BY <1>2, <3>1
  <2>3. IsWellFoundedOn(R, Nat)
    BY NatLessThanWellFounded DEF OpToRel
  <2> HIDE DEF R, T
  <2>4. PICK d \in T : \A e \in T : ~(<<e, d>> \in R)
    BY <2>2, <2>3, WFMin
  <2>5. PICK k \in Outer : d = n - k
    BY DEF T
  <2>6. \A j \in Outer : j <= k
    <3> TAKE j \in Outer
    <3>1. n - j \in T
      BY DEF T
    <3>2. ~(n - j < n - k)
      BY <1>b, <2>1, <2>2, <2>4, <2>5, <3>1 DEF R
    <3> QED
      BY <1>b, <2>1, <3>2
  <2>7. m \in Outer /\ \A j \in Outer : j <= m
    BY <2>6
  <2> HIDE DEF m
  <2>8. m \in 1..(n - 1) /\ Unwound = SubSeq(stack, 1, m)
    BY <1>2, <2>1, <2>7 DEF Unwound, m
  <2>9. /\ SubSeq(stack, 1, m) \in Seq(Frames) /\ Len(SubSeq(stack, 1, m)) = m
        /\ \A j \in 1..m : SubSeq(stack, 1, m)[j] = stack[j]
    <3>1. m \in Nat /\ m <= n /\ \A j \in 1..m : stack[j] \in Frames
      BY <1>a, <1>b, <2>8
    <3> QED
      BY <1>a, <1>b, <3>1
  <2>10. \A j \in (m + 1)..(n - 1) : stack[j].at # "handler"
    <3> SUFFICES ASSUME NEW j \in (m + 1)..(n - 1), stack[j].at = "handler" PROVE FALSE
      OBVIOUS
    <3>1. j \in Outer
      BY <1>b, <2>8 DEF Outer, Passes
    <3> QED
      BY <1>b, <2>7, <2>8, <3>1
  <2>11. u = m /\ Unwound \in Seq(Frames) /\ DOMAIN Unwound = 1..m
         /\ \A j \in 1..m : Unwound[j] = stack[j]
    BY <2>8, <2>9
  <2> QED
    BY <1>b, <2>8, <2>10, <2>11
<1> QED
  BY <1>1, <1>2

\* What the calls left by an exception keep.
LEMMA UnwoundFacts ==
  ASSUME Good(stack), stack # <<>>
  PROVE  LET left == SubSeq(stack, Len(Unwound) + 1, Len(stack)) IN
         /\ Good(Unwound) /\ RetiredOf(Unwound) = RetiredOf(Below)
         /\ IsLooping(Unwound) <=>
               IsLooping(stack) /\ \A f \in Elements(left) : f.fn # "close_all"
<1> DEFINE n == Len(stack)
           u == Len(Unwound)
           left == SubSeq(stack, u + 1, n)
<1>0. stack \in Seq(Frames)
  BY DEF Good
<1>1. n \in Nat /\ n > 0 /\ DOMAIN stack = 1..n
  BY <1>0
<1>2. /\ Unwound \in Seq(Frames) /\ u \in 0..(n - 1) /\ DOMAIN Unwound = 1..u
      /\ \A k \in 1..u : Unwound[k] = stack[k]
      /\ \A k \in (u + 1)..(n - 1) : stack[k].at # "handler"
  BY UnwoundPrefix
<1> HIDE DEF u
<1>3. \A k \in DOMAIN Unwound : k \in DOMAIN stack /\ Unwound[k] = stack[k] /\ k # n
  BY <1>1, <1>2
<1>4. Good(Unwound)
  BY <1>2, <1>3 DEF Good, Loops
<1>5. /\ DOMAIN Below = 1..(n - 1) /\ \A k \in 1..(n - 1) : Below[k] = stack[k]
  BY <1>0, <1>1 DEF Below
<1>6. \A k \in DOMAIN Below :
         stack[k].fn = "remove" => k \in DOMAIN Unwound
  <2> SUFFICES ASSUME NEW k \in 1..(n - 1), stack[k].fn = "remove", ~(k \in 1..u) PROVE FALSE
    BY <1>2, <1>5
  <2>1. k \in (u + 1)..(n - 1) /\ k \in DOMAIN stack
    BY <1>1, <1>2
  <2> QED
    BY <1>2, <2>1 DEF Good
<1>7. \A k \in DOMAIN Unwound : k \in DOMAIN Below
  BY <1>1, <1>2, <1>5
<1>8. RetiredOf(Unwound) = RetiredOf(Below)
  <2>1. ASSUME NEW p \in RetiredOf(Unwound) PROVE p \in RetiredOf(Below)
    <3>1. PICK k \in DOMAIN Unwound : Unwound[k].fn = "remove" /\ p = Unwound[k].peer
      BY DEF RetiredOf
    <3> QED
      BY <1>3, <1>5, <1>7, <3>1 DEF RetiredOf
  <2>2. ASSUME NEW p \in RetiredOf(Below) PROVE p \in RetiredOf(Unwound)
    <3>1. PICK k \in DOMAIN Below : Below[k].fn = "remove" /\ p = Below[k].peer
      BY DEF RetiredOf
    <3>2. k \in DOMAIN Unwound /\ Unwound[k] = Below[k]
      BY <1>3, <1>5, <1>6, <3>1
    <3> QED
      BY <3>1, <3>2 DEF RetiredOf
  <2> QED
    BY <2>1, <2>2
<1>9. Elements(left) = {stack[k] : k \in (u + 1)..n}
  <2>1. u + 1 \in 1..n /\ n - (u + 1) + 1 = n - u /\ \A k \in (u + 1)..n : stack[k] \in Frames
    BY <1>0, <1>1, <1>2
  <2>2. left \in Seq(Frames) /\ Len(left) = n - u /\ \A k \in 1..(n - u) : left[k] = stack[u + 1 + k - 1]
    BY <1>1, <2>1, SubSeqProperties
  <2> HIDE DEF left
  <2>3. DOMAIN left = 1..(n - u) /\ \A k \in 1..(n - u) : left[k] = stack[u + k]
    BY <1>1, <1>2, <2>2
  <2>4. ASSUME NEW x \in Elements(left) PROVE \E k \in (u + 1)..n : x = stack[k]
    <3>1. PICK k \in 1..(n - u) : x = stack[u + k]
      BY <2>3 DEF Elements
    <3>2. u + k \in (u + 1)..n
      BY <1>1, <1>2
    <3> QED
      BY <3>1, <3>2
  <2>5. ASSUME NEW k \in (u + 1)..n PROVE stack[k] \in Elements(left)
    <3>1. k - u \in 1..(n - u) /\ u + (k - u) = k
      BY <1>1, <1>2
    <3>2. left[k - u] = stack[k]
      BY <2>3, <3>1
    <3> QED
      BY <2>3, <3>1, <3>2 DEF Elements
  <2> QED
    BY <2>4, <2>5
<1> HIDE DEF left
<1>10. \A k \in DOMAIN stack : k \in DOMAIN Unwound \/ k \in (u + 1)..n
  BY <1>1, <1>2
<1>11. ASSUME IsLooping(Unwound)
       PROVE  IsLooping(stack) /\ \A f \in Elements(left) : f.fn # "close_all"
  <2>1. PICK k \in DOMAIN Unwound : Unwound[k].fn = "close_all"
    BY <1>11 DEF IsLooping, Loops
  <2>2. k \in Loops(stack)
    BY <1>3, <2>1 DEF Loops
  <2>3. ASSUME NEW f \in Elements(left), f.fn = "close_all" PROVE FALSE
    <3>1. PICK l \in (u + 1)..n : f = stack[l]
      BY <1>9
    <3>2. l \in DOMAIN stack /\ l # k
      BY <1>1, <1>2
    <3> QED
      BY <2>2, <2>3, <3>1, <3>2 DEF Good, Loops
  <2> QED
    BY <2>2, <2>3 DEF IsLooping
<1>12. ASSUME IsLooping(stack), \A f \in Elements(left) : f.fn # "close_all"
       PROVE  IsLooping(Unwound)
  <2>1. PICK k \in DOMAIN stack : stack[k].fn = "close_all"
    BY <1>12 DEF IsLooping, Loops
  <2>2. k \in DOMAIN Unwound
    BY <1>9, <1>10, <1>12, <2>1
  <2> QED
    BY <1>3, <2>1, <2>2 DEF IsLooping, Loops
<1> QED
  BY <1>4, <1>8, <1>11, <1>12 DEF left, u

-----------------------------------------------------------------------------
(* The steps.                                                              *)

\* The frames the code pushes.
LEMMA FrameFacts ==
  ASSUME NEW fn, NEW at, NEW peer \in Peers \union {NoPeer},
         fn \in {"remove", "peer_close", "close", "listen", "close_all", "broadcast", "write", "written"},
         at \in {"handler", "start", "peers", "socket", "failed", "finish", "loop", "next", "report"}
  PROVE  /\ Frame(fn, at, peer) \in Frames /\ Frame(fn, at, peer).fn = fn
         /\ Frame(fn, at, peer).at = at /\ Frame(fn, at, peer).peer = peer
<1>1. <<>> \in Seq(Peers)
  OBVIOUS
<1> QED
  BY <1>1 DEF Frame, Frames

\* A frame that moves to another place of its function.
LEMMA AtFacts ==
  ASSUME Top \in Frames, NEW place,
         place \in {"handler", "start", "peers", "socket", "failed", "finish", "loop", "next", "report"}
  PROVE  /\ At(place) \in Frames /\ At(place).fn = Top.fn /\ At(place).at = place
         /\ At(place).peer = Top.peer
BY DEF At, Frames

\* TypeOK without the stack.
Types ==
    /\ owned \in Seq(Peers) /\ members \in Seq(Peers) /\ closing \in BOOLEAN
    /\ alive \subseteq Peers /\ open \subseteq Peers /\ fresh \subseteq Peers
    /\ sockfd \in Nat /\ opened \subseteq Nat /\ ops \in Nat
    /\ undefined \in BOOLEAN /\ usedDead \in BOOLEAN

\* A stack with the same removals in progress, and the same run of the loop.
Keeps(st) ==
    /\ Good(st)
    /\ RetiredOf(st) = RetiredOf(stack)
    /\ IsLooping(st) <=> IsLooping(stack)

\* What the invariant says of the next state, its stack given.
LEMMA NextInv ==
  ASSUME Types', Injective(owned'), Injective(members'),
         Elements(members') \subseteq Elements(owned'), open' \subseteq Elements(owned'),
         NEW st, stack' = st, Good(st), alive' = Elements(owned') \union RetiredOf(st),
         RetiredOf(st) \cap Elements(owned') = {}, closing' <=> IsLooping(st)
  PROVE  PeerInv'
<1>1. /\ Injective(owned)' /\ Injective(members)' /\ Good(stack)'
  BY DEF Injective, Good, Loops
<1>2. Elements(members)' = Elements(members') /\ Elements(owned)' = Elements(owned')
  BY DEF Elements
<1>3. RetiredOf(stack)' = RetiredOf(st) /\ (IsLooping(stack)' <=> IsLooping(st))
  BY DEF RetiredOf, IsLooping, Loops
<1>4. TypeOK'
  BY DEF Types, TypeOK, Good
<1> QED
  BY <1>1, <1>2, <1>3, <1>4 DEF PeerInv

\* A step that changes neither owners nor removals keeps the invariant.
LEMMA CollectionKept ==
  ASSUME PeerInv, Types', UNCHANGED <<owned, members, alive, closing>>, open' \subseteq open,
         NEW st, stack' = st, Keeps(st)
  PROVE  PeerInv'
<1>1. /\ Injective(owned') /\ Injective(members')
      /\ Elements(members') \subseteq Elements(owned') /\ open' \subseteq Elements(owned')
  BY DEF PeerInv, Injective, Elements
<1>2. Elements(owned') = Elements(owned)
  BY DEF Elements
<1>3. /\ Good(st) /\ alive' = Elements(owned') \union RetiredOf(st)
      /\ RetiredOf(st) \cap Elements(owned') = {}
  BY <1>2 DEF PeerInv, Keeps
<1>4. closing' <=> IsLooping(st)
  BY DEF PeerInv, Keeps
<1> QED
  BY <1>1, <1>3, <1>4, NextInv

\* The facts of the invariant that most steps use.
LEMMA InvFacts ==
  ASSUME PeerInv
  PROVE  /\ Types /\ Keeps(stack) /\ Good(stack)
         /\ stack # <<>> => Top \in Frames
  BY PopFacts DEF PeerInv, TypeOK, Types, Keeps

\* A call other than a removal or the loop begins.
LEMMA KeepsPush ==
  ASSUME NEW st, Keeps(st), NEW f \in Frames, f.fn \notin {"remove", "close_all"}
  PROVE  Keeps(Append(st, f))
<1>1. f.fn # "remove" /\ f.fn # "close_all" /\ Good(st)
  BY DEF Keeps
<1>2. /\ Good(Append(st, f))
      /\ RetiredOf(Append(st, f)) = RetiredOf(st) \union (IF f.fn = "remove" THEN {f.peer} ELSE {})
      /\ IsLooping(Append(st, f)) <=> IsLooping(st) \/ f.fn = "close_all"
  BY <1>1, PushFacts
<1> QED
  BY <1>1, <1>2 DEF Keeps

\* The innermost call moves on.
LEMMA KeepsReplace ==
  ASSUME PeerInv, stack # <<>>, NEW f \in Frames,
         f.fn = Top.fn \/ {f.fn, Top.fn} \cap {"remove", "close_all"} = {},
         f.fn = "remove" => f.peer = Top.peer /\ f.at = "handler"
  PROVE  Keeps(Replace(f))
<1>1. /\ f.fn = "remove" <=> Top.fn = "remove"
      /\ f.fn = "close_all" <=> Top.fn = "close_all"
      /\ Good(stack)
  BY InvFacts
<1> QED
  BY <1>1, ReplaceFacts DEF Keeps

\* A call other than a removal or the loop returns.
LEMMA KeepsBelow ==
  ASSUME PeerInv, stack # <<>>, Top.fn \notin {"remove", "close_all"}
  PROVE  Keeps(Below)
<1>1. Top.fn # "remove" /\ Top.fn # "close_all" /\ Good(stack)
  BY InvFacts
<1> QED
  BY <1>1, PopFacts DEF Keeps

\* The count of a turn is not what the invariant is about.
LEMMA KeepsCounted ==
  ASSUME PeerInv PROVE Keeps(Counted)
<1>1. Good(stack) /\ stack \in Seq(Frames)
  BY InvFacts DEF Good
<1>2. DOMAIN Counted = DOMAIN stack /\ Counted \in Seq(Frames)
  <2>1. Len(stack) \in Nat /\ DOMAIN stack = 1..Len(stack) /\ \A k \in 1..Len(stack) : stack[k] \in Frames
    BY <1>1
  <2>2. \A f \in Frames : [f EXCEPT !.retired = @ + 1] \in Frames
    BY DEF Frames
  <2>3. \A k \in 1..Len(stack) : Counted[k] \in Frames
    BY <2>1, <2>2 DEF Counted
  <2> QED
    BY <2>1, <2>3 DEF Counted
<1>3. \A k \in DOMAIN stack : /\ Counted[k].fn = stack[k].fn /\ Counted[k].peer = stack[k].peer
                               /\ Counted[k].at = stack[k].at
  <2>1. \A k \in DOMAIN stack : stack[k] \in Frames
    BY <1>1
  <2> QED
    BY <2>1 DEF Counted, Frames
<1>4. Loops(Counted) = Loops(stack)
  BY <1>2, <1>3 DEF Loops
<1>5. Good(Counted)
  BY <1>1, <1>2, <1>3, <1>4 DEF Good
<1>6. RetiredOf(Counted) = RetiredOf(stack)
  BY <1>2, <1>3 DEF RetiredOf
<1> QED
  BY <1>4, <1>5, <1>6 DEF Keeps, IsLooping

-----------------------------------------------------------------------------
(* The actions: calls of user code.                                        *)

\* A new peer object has no owner yet.
LEMMA AcceptStep ==
  ASSUME PeerInv, Accept PROVE PeerInv'
<1>1. PICK p \in Peers \ alive :
         /\ alive' = alive \union {p} /\ open' = open \union {p}
         /\ owned' = Append(owned, p) /\ members' = Append(members, p)
         /\ fresh' = fresh \union {p}
  BY DEF Accept
<1>2. ops' = ops + 1 /\ UNCHANGED <<closing, sockfd, stack, opened, undefined, usedDead>>
  BY DEF Accept, Calls
<1>3. Types /\ Injective(owned) /\ Injective(members)
  BY InvFacts DEF PeerInv
<1>4. p \notin Elements(owned) /\ p \notin Elements(members) /\ p \notin RetiredOf(stack)
  BY DEF PeerInv
<1>5. /\ owned' \in Seq(Peers) /\ Elements(owned') = Elements(owned) \union {p} /\ Injective(owned')
      /\ members' \in Seq(Peers) /\ Elements(members') = Elements(members) \union {p} /\ Injective(members')
  BY <1>1, <1>3, <1>4, AppendFacts DEF Types
<1>6. Types'
  BY <1>1, <1>2, <1>3, <1>5 DEF Types
<1>7. /\ Elements(members') \subseteq Elements(owned') /\ open' \subseteq Elements(owned')
      /\ alive' = Elements(owned') \union RetiredOf(stack)
      /\ RetiredOf(stack) \cap Elements(owned') = {} /\ Good(stack)
  BY <1>1, <1>4, <1>5 DEF PeerInv
<1>8. closing' <=> IsLooping(stack)
  BY <1>2 DEF PeerInv
<1> QED
  BY <1>2, <1>5, <1>6, <1>7, <1>8, NextInv

\* The retired peer passes from the vector to the call that closes it, or, if it
\* is closed already, is destroyed.
LEMMA RemovePeerStep ==
  ASSUME PeerInv, NEW p \in Peers, RemovePeer(p) PROVE PeerInv'
<1> DEFINE frame == Frame("remove", "handler", p)
<1>1. /\ p \in Elements(owned) /\ owned' = Without(owned, p) /\ members' = Without(members, p)
      /\ UNCHANGED <<closing, sockfd, opened, undefined, usedDead>> /\ ops' = ops + 1
  BY DEF RemovePeer, Calls
<1>2. \/ /\ p \in open /\ open' = open \ {p} /\ stack' = Append(Counted, frame)
         /\ UNCHANGED <<alive, fresh>>
      \/ /\ p \notin open /\ alive' = alive \ {p} /\ fresh' = fresh \ {p} /\ stack' = Counted
         /\ UNCHANGED open
  BY DEF RemovePeer
<1>3. Types /\ Injective(owned) /\ Injective(members)
  BY InvFacts DEF PeerInv
<1>4. /\ owned' \in Seq(Peers) /\ Elements(owned') = Elements(owned) \ {p} /\ Injective(owned')
      /\ members' \in Seq(Peers) /\ Elements(members') = Elements(members) \ {p} /\ Injective(members')
  BY <1>1, <1>3, WithoutFacts DEF Types
<1>5. Keeps(Counted)
  BY KeepsCounted
<1>6. frame \in Frames /\ frame.fn = "remove" /\ frame.at = "handler" /\ frame.peer = p
  BY FrameFacts
<1> HIDE DEF frame
<1>7. Types'
  BY <1>1, <1>2, <1>3, <1>4 DEF Types
<1>8. Elements(members') \subseteq Elements(owned') /\ open' \subseteq Elements(owned')
  BY <1>2, <1>4 DEF PeerInv
<1>9. p \notin RetiredOf(stack) /\ alive = Elements(owned) \union RetiredOf(stack)
      /\ RetiredOf(stack) \cap Elements(owned) = {}
  BY <1>1 DEF PeerInv
<1>10. /\ Good(Counted) /\ RetiredOf(Counted) = RetiredOf(stack)
       /\ closing' <=> IsLooping(Counted)
  BY <1>1, <1>5 DEF Keeps, PeerInv
<1>11. CASE p \in open
  <2>1. stack' = Append(Counted, frame) /\ alive' = alive
    BY <1>2, <1>11
  <2>2. /\ Good(Append(Counted, frame))
        /\ RetiredOf(Append(Counted, frame)) = RetiredOf(Counted) \union {p}
        /\ IsLooping(Append(Counted, frame)) <=> IsLooping(Counted)
    BY <1>6, <1>9, <1>10, PushFacts
  <2>3. /\ alive' = Elements(owned') \union RetiredOf(Append(Counted, frame))
        /\ RetiredOf(Append(Counted, frame)) \cap Elements(owned') = {}
    BY <1>1, <1>4, <1>9, <1>10, <2>1, <2>2
  <2>4. closing' <=> IsLooping(Append(Counted, frame))
    BY <1>10, <2>2
  <2> QED
    BY <1>4, <1>7, <1>8, <2>1, <2>2, <2>3, <2>4, NextInv
<1>12. CASE p \notin open
  <2>1. stack' = Counted /\ alive' = alive \ {p}
    BY <1>2, <1>12
  <2>2. /\ alive' = Elements(owned') \union RetiredOf(Counted)
        /\ RetiredOf(Counted) \cap Elements(owned') = {}
    BY <1>4, <1>9, <1>10, <2>1
  <2> QED
    BY <1>4, <1>7, <1>8, <1>10, <2>1, <2>2, NextInv
<1> QED
  BY <1>11, <1>12

\* The view loses members, the owners stay.
LEMMA RemoveMembersStep ==
  ASSUME PeerInv, NEW i \in DOMAIN members, NEW count \in 1..Len(members), RemoveMembers(i, count)
  PROVE  PeerInv'
<1>1. /\ members' = SubSeq(members, 1, i - 1) \o SubSeq(members, i + count, Len(members))
      /\ UNCHANGED <<owned, closing, alive, open, sockfd, stack, opened, fresh, undefined, usedDead>>
      /\ ops' = ops + 1
  BY DEF RemoveMembers, Calls
<1>2. Types /\ Injective(members) /\ count \in Nat \ {0}
  <2>1. Len(members) \in Nat
    BY DEF PeerInv, TypeOK
  <2> QED
    BY <2>1, InvFacts DEF PeerInv
<1>3. members' \in Seq(Peers) /\ Injective(members') /\ Elements(members') \subseteq Elements(members)
  BY <1>1, <1>2, CutFacts DEF Types
<1>4. Types'
  BY <1>1, <1>2, <1>3 DEF Types
<1>5. Injective(owned') /\ Elements(owned') = Elements(owned)
  BY <1>1 DEF PeerInv
<1>6. /\ Elements(members') \subseteq Elements(owned') /\ open' \subseteq Elements(owned')
      /\ alive' = Elements(owned') \union RetiredOf(stack)
      /\ RetiredOf(stack) \cap Elements(owned') = {} /\ Good(stack)
  BY <1>1, <1>3, <1>5 DEF PeerInv
<1>7. closing' <=> IsLooping(stack)
  BY <1>1 DEF PeerInv
<1> QED
  BY <1>1, <1>3, <1>4, <1>5, <1>6, <1>7, NextInv

\* The calls that only push frames, or nothing.
LEMMA PushingSteps ==
  ASSUME PeerInv, AcceptFails \/ Close \/ Listen \/ Broadcast
                  \/ \E p \in Peers : ClosePeer(p) \/ WritePeer(p)
  PROVE  PeerInv'
<1>1. /\ UNCHANGED <<owned, members, alive, closing, sockfd, opened, fresh, undefined, usedDead>>
      /\ ops' = ops + 1 /\ open' \subseteq open
  BY DEF AcceptFails, Close, Listen, Broadcast, ClosePeer, WritePeer, Calls, collVars
<1>2. Types /\ Keeps(stack)
  BY InvFacts
<1>3. Types'
  BY <1>1, <1>2 DEF Types
<1>4. ASSUME NEW f \in Frames, f.fn \notin {"remove", "close_all"}, stack' = Append(stack, f)
      PROVE  PeerInv'
  BY <1>1, <1>2, <1>3, <1>4, KeepsPush, CollectionKept
<1>5. CASE AcceptFails
  <2>1. stack' = stack
    BY <1>5 DEF AcceptFails
  <2> QED
    BY <1>1, <1>2, <1>3, <2>1, CollectionKept
<1>6. CASE Close
  <2>1. stack' = Append(stack, Frame("close", "start", NoPeer))
    BY <1>6 DEF Close, Push
  <2>2. Frame("close", "start", NoPeer) \in Frames /\ Frame("close", "start", NoPeer).fn = "close"
    BY FrameFacts
  <2> QED
    BY <1>4, <2>1, <2>2
<1>7. CASE Listen
  <2> DEFINE f == Frame("listen", "socket", NoPeer)
             g == Frame("close", "start", NoPeer)
  <2>1. stack' = Append(Append(stack, f), g)
    BY <1>7 DEF Listen, Push
  <2>2. f \in Frames /\ g \in Frames /\ f.fn = "listen" /\ g.fn = "close"
    BY FrameFacts
  <2> HIDE DEF f, g
  <2>3. Keeps(Append(stack, f))
    BY <1>2, <2>2, KeepsPush
  <2>4. Keeps(Append(Append(stack, f), g))
    BY <2>2, <2>3, KeepsPush
  <2> QED
    BY <1>1, <1>3, <2>1, <2>4, CollectionKept
<1>8. CASE Broadcast
  <2> DEFINE f == Frame("broadcast", "loop", NoPeer)
             g == [f EXCEPT !.view = members]
  <2>1. stack' = Append(stack, g)
    BY <1>8 DEF Broadcast, Push
  <2>2. f \in Frames /\ f.fn = "broadcast"
    BY FrameFacts
  <2> HIDE DEF f
  <2>3. g \in Frames /\ g.fn = "broadcast"
    BY <1>2, <2>2 DEF Frames, Types
  <2> HIDE DEF g
  <2> QED
    BY <1>4, <2>1, <2>3
<1>9. ASSUME NEW p \in Peers, ClosePeer(p) PROVE PeerInv'
  <2>1. stack' = Append(stack, Frame("peer_close", "handler", p))
    BY <1>9 DEF ClosePeer, Push
  <2>2. /\ Frame("peer_close", "handler", p) \in Frames
        /\ Frame("peer_close", "handler", p).fn = "peer_close"
    BY FrameFacts
  <2> QED
    BY <1>4, <2>1, <2>2
<1>10. ASSUME NEW p \in Peers, WritePeer(p) PROVE PeerInv'
  <2>1. PICK f \in {Frame("write", "handler", p), Frame("write", "report", p)} : stack' = Append(stack, f)
    BY <1>10 DEF WritePeer, Push, Written
  <2>2. f \in Frames /\ f.fn = "write"
    BY FrameFacts
  <2> QED
    BY <1>4, <2>1, <2>2
<1> QED
  BY <1>5, <1>6, <1>7, <1>8, <1>9, <1>10

-----------------------------------------------------------------------------
(* The actions: steps of the library and of handlers.                      *)

\* close_owned_peers begins only when none is running.
LEMMA EnterStep ==
  ASSUME PeerInv, NEW caller, Keeps(caller), EnterClosePeers(caller),
         UNCHANGED <<owned, members, alive, open, sockfd, ops, opened, undefined, usedDead>>
  PROVE  PeerInv'
<1>0. Types
  BY InvFacts
<1>1. CASE closing
  <2>1. stack' = caller /\ UNCHANGED <<closing, fresh>>
    BY <1>1 DEF EnterClosePeers
  <2>2. Types'
    BY <1>0, <2>1 DEF Types
  <2> QED
    BY <2>1, <2>2, CollectionKept
<1>2. CASE ~closing
  <2> DEFINE f == Frame("close_all", "loop", NoPeer)
  <2>1. closing' = TRUE /\ fresh' = {} /\ stack' = Append(caller, f)
    BY <1>2 DEF EnterClosePeers
  <2>2. f \in Frames /\ f.fn = "close_all"
    BY FrameFacts
  <2> HIDE DEF f
  <2>3. Types' /\ closing'
    BY <1>0, <2>1 DEF Types
  <2>4. Good(caller) /\ RetiredOf(caller) = RetiredOf(stack) /\ ~IsLooping(caller)
    BY <1>2 DEF Keeps, PeerInv
  <2>5. /\ Good(Append(caller, f)) /\ RetiredOf(Append(caller, f)) = RetiredOf(stack)
        /\ IsLooping(Append(caller, f))
    <3>1. /\ Good(Append(caller, f))
          /\ RetiredOf(Append(caller, f)) =
                RetiredOf(caller) \union (IF f.fn = "remove" THEN {f.peer} ELSE {})
          /\ IsLooping(Append(caller, f)) <=> IsLooping(caller) \/ f.fn = "close_all"
      BY <2>2, <2>4, PushFacts
    <3> QED
      BY <2>2, <2>4, <3>1
  <2>6. /\ Injective(owned') /\ Injective(members') /\ Elements(owned') = Elements(owned)
        /\ Elements(members') \subseteq Elements(owned') /\ open' \subseteq Elements(owned')
    BY DEF PeerInv
  <2>7. /\ alive' = Elements(owned') \union RetiredOf(Append(caller, f))
        /\ RetiredOf(Append(caller, f)) \cap Elements(owned') = {}
    BY <2>5, <2>6 DEF PeerInv
  <2> QED
    BY <2>1, <2>3, <2>5, <2>6, <2>7, NextInv
<1> QED
  BY <1>1, <1>2

\* The close of a listener and listen() enter close_owned_peers, unless it runs already.
LEMMA EnteringSteps ==
  ASSUME PeerInv, ClosePeersOfListener \/ ListenClosesPeers PROVE PeerInv'
<1>1. UNCHANGED <<owned, members, alive, open, sockfd, ops, opened, undefined, usedDead>>
  BY DEF ClosePeersOfListener, ListenClosesPeers
<1>2. CASE ClosePeersOfListener
  <2>1. stack # <<>> /\ Top.fn = "close" /\ EnterClosePeers(Below)
    BY <1>2 DEF ClosePeersOfListener, In
  <2> QED
    BY <1>1, <2>1, KeepsBelow, EnterStep
<1>3. CASE ListenClosesPeers
  <2>1. stack # <<>> /\ Top.fn = "listen" /\ EnterClosePeers(Replace(At("finish")))
    BY <1>3 DEF ListenClosesPeers, In
  <2>2. At("finish") \in Frames /\ At("finish").fn = "listen"
    BY <2>1, InvFacts, AtFacts
  <2>3. Keeps(Replace(At("finish")))
    BY <2>1, <2>2, KeepsReplace
  <2> QED
    BY <1>1, <2>1, <2>3, EnterStep
<1> QED
  BY <1>2, <1>3

\* Steps of the innermost call that touch the listener, or nothing but the stack.
LEMMA ListenerSteps ==
  ASSUME PeerInv, CloseListener \/ ListenSocket \/ ListenFailed \/ ListenFinish PROVE PeerInv'
<1>1. UNCHANGED <<owned, members, alive, open, closing, fresh, ops, undefined, usedDead>>
  BY DEF CloseListener, ListenSocket, ListenFailed, ListenFinish, collVars
<1>2. Types /\ stack # <<>> /\ Top \in Frames /\ Top.fn \in {"close", "listen"}
  BY InvFacts DEF CloseListener, ListenSocket, ListenFailed, ListenFinish, In
<1>3. sockfd' \in Nat /\ opened' \subseteq Nat
  <2>1. sockfd \in Nat /\ opened \subseteq Nat
    BY <1>2 DEF Types
  <2>2. CASE CloseListener \/ ListenFailed \/ ListenFinish
    <3>1. \/ sockfd' = 0 /\ opened' = opened \ {sockfd}
          \/ UNCHANGED <<sockfd, opened>>
      BY <2>2 DEF CloseListener, ListenFailed, ListenFinish
    <3>2. opened' \subseteq opened
      BY <3>1
    <3>3. opened' \subseteq Nat
      BY <2>1, <3>2
    <3>4. sockfd' \in Nat
      BY <2>1, <3>1
    <3> QED
      BY <3>3, <3>4
  <2>3. CASE ListenSocket
    <3>1. \/ sockfd' = 0 /\ opened' = opened
          \/ \E n \in 1..(MaxOps + 2) : sockfd' = n /\ opened' = opened \union {n}
      BY <2>3 DEF ListenSocket
    <3>2. ASSUME NEW n \in 1..(MaxOps + 2), sockfd' = n, opened' = opened \union {n}
          PROVE  sockfd' \in Nat /\ opened' \subseteq Nat
      <4>1. n \in Nat
        BY BoundsAssumption
      <4>2. \A k \in opened' : k \in Nat
        BY <2>1, <3>2, <4>1, Zenon
      <4> QED
        BY <3>2, <4>1, <4>2
    <3>3. CASE sockfd' = 0 /\ opened' = opened
      BY <2>1, <3>3
    <3> QED
      BY <3>1, <3>2, <3>3
  <2> QED
    BY <2>2, <2>3
<1>4. Types'
  BY <1>1, <1>2, <1>3 DEF Types
<1>5. Keeps(Below)
  BY <1>2, KeepsBelow
<1>6. ASSUME NEW place \in {"handler", "peers", "failed"} PROVE Keeps(Replace(At(place)))
  <2>1. At(place) \in Frames /\ At(place).fn = Top.fn
    BY <1>2, AtFacts
  <2> QED
    BY <1>2, <2>1, KeepsReplace
<1>7. Keeps(Append(Replace(At("failed")), Frame("close", "start", NoPeer)))
  <2>1. Frame("close", "start", NoPeer) \in Frames /\ Frame("close", "start", NoPeer).fn = "close"
    BY FrameFacts
  <2> QED
    BY <1>6, <2>1, KeepsPush
<1>8. \/ stack' = Below
      \/ \E place \in {"handler", "peers", "failed"} : stack' = Replace(At(place))
      \/ stack' = Append(Replace(At("failed")), Frame("close", "start", NoPeer))
  BY DEF CloseListener, ListenSocket, ListenFailed, ListenFinish
<1> QED
  BY <1>1, <1>4, <1>5, <1>6, <1>7, <1>8, CollectionKept

\* The loops go on.
LEMMA LoopSteps ==
  ASSUME PeerInv, ClosePeersStep \/ ClosePeersNext \/ BroadcastStep \/ BroadcastEnd \/ WriteReport
  PROVE  PeerInv'
<1>1. /\ UNCHANGED <<owned, members, alive, closing, fresh, ops, sockfd, opened>>
      /\ open' \subseteq open
  BY DEF ClosePeersStep, ClosePeersNext, BroadcastStep, BroadcastEnd, WriteReport, collVars
<1>2. Types /\ stack # <<>> /\ Top \in Frames
  BY InvFacts DEF ClosePeersStep, ClosePeersNext, BroadcastStep, BroadcastEnd, WriteReport, In
<1>3. undefined' \in BOOLEAN /\ usedDead' \in BOOLEAN
  BY <1>2 DEF Types, ClosePeersStep, ClosePeersNext, BroadcastStep, BroadcastEnd, WriteReport
<1>4. Types'
  BY <1>1, <1>2, <1>3 DEF Types
<1>5. Top.index \in Nat /\ Top.peer \in Peers \union {NoPeer}
  BY <1>2 DEF Frames
<1>6. CASE ClosePeersStep
  <2> DEFINE p == owned[Top.index + 1]
             f == [Top EXCEPT !.peer = p, !.retired = 0, !.at = IF p \in open THEN "handler" ELSE "next"]
  <2>1. Top.index < Len(owned) /\ stack' = Replace(f) /\ Top.fn = "close_all"
    BY <1>6 DEF ClosePeersStep, In
  <2>2. p \in Peers
    <3>1. owned \in Seq(Peers) /\ Len(owned) \in Nat
      BY <1>2 DEF Types
    <3>2. Top.index + 1 \in 1..Len(owned)
      BY <1>5, <2>1, <3>1
    <3> QED
      BY <3>1, <3>2
  <2> HIDE DEF p
  <2>3. f \in Frames /\ f.fn = Top.fn
    BY <1>2, <2>2 DEF Frames
  <2> HIDE DEF f
  <2>4. Keeps(Replace(f))
    BY <1>2, <2>1, <2>3, KeepsReplace
  <2> QED
    BY <1>1, <1>4, <2>1, <2>4, CollectionKept
<1>7. CASE ClosePeersNext
  <2> DEFINE same == Top.index < Len(owned) /\ owned[Top.index + 1] = Top.peer
             n == IF same THEN Top.index + 1 ELSE Top.index
             f == [Top EXCEPT !.at = "loop", !.peer = NoPeer, !.index = n]
  <2>1. stack' = Replace(f) /\ Top.fn = "close_all"
    BY <1>7 DEF ClosePeersNext, In
  <2>2. n \in Nat
    BY <1>5
  <2> HIDE DEF n
  <2>3. f \in Frames /\ f.fn = Top.fn
    BY <1>2, <2>2 DEF Frames
  <2> HIDE DEF f
  <2>4. Keeps(Replace(f))
    BY <1>2, <2>1, <2>3, KeepsReplace
  <2> QED
    BY <1>1, <1>4, <2>1, <2>4, CollectionKept
<1>8. CASE BroadcastStep
  <2> DEFINE p == members[Top.index + 1]
             f == [Top EXCEPT !.index = @ + 1]
  <2>1. /\ Top.index < Len(members) /\ Top.fn = "broadcast"
        /\ stack' \in IF p \in open THEN {Append(Replace(f), g) : g \in Written(p)} ELSE {Replace(f)}
    BY <1>8 DEF BroadcastStep, In
  <2>2. p \in Peers
    <3>1. members \in Seq(Peers) /\ Len(members) \in Nat
      BY <1>2 DEF Types
    <3>2. Top.index + 1 \in 1..Len(members)
      BY <1>5, <2>1, <3>1
    <3> QED
      BY <3>1, <3>2
  <2> HIDE DEF p
  <2>3. f \in Frames /\ f.fn = Top.fn
    BY <1>2, <1>5 DEF Frames
  <2> HIDE DEF f
  <2>4. Keeps(Replace(f))
    BY <1>2, <2>1, <2>3, KeepsReplace
  <2>5. \A g \in Written(p) : g \in Frames /\ g.fn = "write"
    BY <2>2, FrameFacts DEF Written
  <2>6. \A g \in Written(p) : Keeps(Append(Replace(f), g))
    BY <2>4, <2>5, KeepsPush
  <2>7. stack' = Replace(f) \/ \E g \in Written(p) : stack' = Append(Replace(f), g)
    BY <2>1
  <2> QED
    BY <1>1, <1>4, <2>4, <2>6, <2>7, CollectionKept
<1>9. CASE BroadcastEnd
  <2>1. stack' = Below /\ Top.fn = "broadcast"
    BY <1>9 DEF BroadcastEnd, In
  <2>2. Keeps(Below)
    BY <1>2, <2>1, KeepsBelow
  <2> QED
    BY <1>1, <1>4, <2>1, <2>2, CollectionKept
<1>10. CASE WriteReport
  <2> DEFINE f == Frame("written", "handler", Top.peer)
  <2>1. stack' = Replace(f) /\ Top.fn = "write"
    BY <1>10 DEF WriteReport, In
  <2>2. f \in Frames /\ f.fn = "written"
    BY <1>5, FrameFacts
  <2> HIDE DEF f
  <2>3. Keeps(Replace(f))
    BY <1>2, <2>1, <2>2, KeepsReplace
  <2> QED
    BY <1>1, <1>4, <2>1, <2>3, CollectionKept
<1> QED
  BY <1>6, <1>7, <1>8, <1>9, <1>10

\* The loop ends: the flag and the frame go together.
LEMMA LoopEndStep ==
  ASSUME PeerInv, ClosePeersEnd PROVE PeerInv'
<1>1. /\ stack # <<>> /\ Top.fn = "close_all" /\ closing' = FALSE /\ stack' = Below
      /\ UNCHANGED <<owned, members, alive, open, sockfd, ops, opened, fresh, undefined, usedDead>>
  BY DEF ClosePeersEnd, In
<1>2. Types' /\ ~closing'
  BY <1>1, InvFacts DEF Types
<1>3. Good(Below) /\ RetiredOf(Below) = RetiredOf(stack) /\ ~IsLooping(Below)
  <2>1. Top.fn # "remove" /\ Good(stack)
    BY <1>1, InvFacts
  <2> QED
    BY <1>1, <2>1, PopFacts
<1>4. /\ Injective(owned') /\ Injective(members') /\ Elements(owned') = Elements(owned)
      /\ Elements(members') \subseteq Elements(owned') /\ open' \subseteq Elements(owned')
  BY <1>1 DEF PeerInv
<1>5. /\ alive' = Elements(owned') \union RetiredOf(Below)
      /\ RetiredOf(Below) \cap Elements(owned') = {}
  BY <1>1, <1>3, <1>4 DEF PeerInv
<1> QED
  BY <1>1, <1>2, <1>3, <1>4, <1>5, NextInv

\* What is common to the two ends of a handler: a removal gives up its peer.
LEMMA HandlerEnds ==
  ASSUME PeerInv, stack # <<>>, NEW st, stack' = st, Good(st), RetiredOf(st) = RetiredOf(Below),
         closing' \in BOOLEAN, closing' <=> IsLooping(st),
         IF Top.fn = "remove" THEN Destroy(Top.peer) ELSE UNCHANGED <<alive, fresh>>,
         UNCHANGED <<owned, members, open, sockfd, ops, opened, undefined, usedDead>>
  PROVE  PeerInv'
<1>1. /\ Types /\ RetiredOf(stack) = RetiredOf(Below) \union (IF Top.fn = "remove" THEN {Top.peer} ELSE {})
      /\ Top.fn = "remove" => Top.peer \notin RetiredOf(Below)
  BY InvFacts, PopFacts
<1>2. Types'
  BY <1>1 DEF Types, Destroy
<1>3. /\ Injective(owned') /\ Injective(members') /\ Elements(owned') = Elements(owned)
      /\ Elements(members') \subseteq Elements(owned') /\ open' \subseteq Elements(owned')
  BY DEF PeerInv
<1>4. RetiredOf(st) \cap Elements(owned') = {}
  BY <1>1, <1>3 DEF PeerInv
<1>5. alive' = Elements(owned') \union RetiredOf(st)
  <2>1. alive = Elements(owned) \union RetiredOf(stack) /\ RetiredOf(stack) \cap Elements(owned) = {}
    BY DEF PeerInv
  <2>2. CASE Top.fn = "remove"
    <3>1. alive' = alive \ {Top.peer} /\ Top.peer \in RetiredOf(stack)
      BY <1>1, <2>2 DEF Destroy
    <3> QED
      BY <1>1, <1>3, <2>1, <2>2, <3>1
  <2>3. CASE Top.fn # "remove"
    BY <1>1, <1>3, <2>1, <2>3
  <2> QED
    BY <2>2, <2>3
<1> QED
  BY <1>2, <1>3, <1>4, <1>5, NextInv

\* A handler that returns hands control back to the call that ran it.
LEMMA HandlerReturnsStep ==
  ASSUME PeerInv, HandlerReturns PROVE PeerInv'
<1>1. /\ stack # <<>> /\ Top.at = "handler"
      /\ IF Top.fn = "remove" THEN Destroy(Top.peer) ELSE UNCHANGED <<alive, fresh>>
      /\ UNCHANGED <<owned, members, closing, open, sockfd, ops, opened, undefined, usedDead>>
  BY DEF HandlerReturns
<1>2. Types /\ Top \in Frames /\ closing' \in BOOLEAN /\ Good(stack)
  BY <1>1, InvFacts DEF Types
<1>3. CASE Top.fn = "close" \/ Top.fn = "close_all" \/ Top.fn = "write"
  <2>1. PICK place \in {"peers", "next", "report"} : stack' = Replace(At(place))
    BY <1>3 DEF HandlerReturns
  <2>2. At(place) \in Frames /\ At(place).fn = Top.fn
    BY <1>2, AtFacts
  <2>3. Keeps(Replace(At(place)))
    BY <1>1, <1>3, <2>2, KeepsReplace
  <2>4. UNCHANGED <<alive, fresh>>
    BY <1>1, <1>3
  <2>5. Types'
    BY <1>1, <1>2, <2>4 DEF Types
  <2> QED
    BY <1>1, <2>1, <2>3, <2>4, <2>5, CollectionKept
<1>4. CASE ~(Top.fn = "close" \/ Top.fn = "close_all" \/ Top.fn = "write")
  <2>1. stack' = Below
    BY <1>4 DEF HandlerReturns
  <2>2. Good(Below) /\ (IsLooping(stack) <=> IsLooping(Below))
    BY <1>1, <1>2, <1>4, PopFacts
  <2>3. closing' <=> IsLooping(Below)
    BY <1>1, <2>2 DEF PeerInv
  <2> QED
    BY <1>1, <1>2, <2>1, <2>2, <2>3, HandlerEnds
<1> QED
  BY <1>3, <1>4

\* An exception leaves the calls around the handler; the flag is cleared if one of
\* them is the loop.
LEMMA HandlerThrowsStep ==
  ASSUME PeerInv, HandlerThrows PROVE PeerInv'
<1> DEFINE left == SubSeq(stack, Len(Unwound) + 1, Len(stack))
<1>1. /\ stack # <<>> /\ stack' = Unwound
      /\ closing' = (closing /\ \A f \in Elements(left) : f.fn # "close_all")
      /\ IF Top.fn = "remove" THEN Destroy(Top.peer) ELSE UNCHANGED <<alive, fresh>>
      /\ UNCHANGED <<owned, members, open, sockfd, ops, opened, undefined, usedDead>>
  BY DEF HandlerThrows
<1>2. Types /\ Good(stack)
  BY InvFacts
<1>3. /\ Good(Unwound) /\ RetiredOf(Unwound) = RetiredOf(Below)
      /\ IsLooping(Unwound) <=> IsLooping(stack) /\ \A f \in Elements(left) : f.fn # "close_all"
  BY <1>1, <1>2, UnwoundFacts
<1> HIDE DEF left
<1>4. closing' \in BOOLEAN
  BY <1>1
<1>5. closing' <=> IsLooping(Unwound)
  BY <1>1, <1>3 DEF PeerInv
<1> QED
  BY <1>1, <1>3, <1>4, <1>5, HandlerEnds

-----------------------------------------------------------------------------
(* The theorem.                                                            *)

\* A server without peers satisfies the invariant.
LEMMA InitPeerInv ==
  ASSUME Init PROVE PeerInv
<1>1. /\ owned = <<>> /\ members = <<>> /\ closing \in BOOLEAN /\ ~closing
      /\ alive = {} /\ open = {} /\ sockfd = 1 /\ opened = {1}
      /\ stack = <<>> /\ ops = 0 /\ fresh = {} /\ undefined \in BOOLEAN /\ usedDead \in BOOLEAN
  BY DEF Init
<1>2. TypeOK
  BY <1>1 DEF TypeOK
<1>3. RetiredOf(stack) = {} /\ Good(stack) /\ ~IsLooping(stack)
  BY <1>1 DEF RetiredOf, Good, IsLooping, Loops
<1>4. Elements(owned) = {} /\ Elements(members) = {} /\ Injective(owned) /\ Injective(members)
  BY <1>1 DEF Elements, Injective
<1> QED
  BY <1>1, <1>2, <1>3, <1>4 DEF PeerInv

\* Every step keeps the ownership of the peers.
LEMMA PeerInvStep ==
  ASSUME PeerInv, [Next]_vars PROVE PeerInv'
<1>1. CASE UserCall
  <2>1. CASE Accept
    BY <2>1, AcceptStep
  <2>2. ASSUME NEW p \in Peers, RemovePeer(p) PROVE PeerInv'
    BY <2>2, RemovePeerStep
  <2>3. ASSUME NEW i \in DOMAIN members, NEW count \in 1..Len(members), RemoveMembers(i, count)
        PROVE  PeerInv'
    BY <2>3, RemoveMembersStep
  <2>4. CASE AcceptFails \/ Close \/ Listen \/ Broadcast
             \/ \E p \in Peers : ClosePeer(p) \/ WritePeer(p)
    BY <2>4, PushingSteps
  <2> QED
    BY <1>1, <2>1, <2>2, <2>3, <2>4 DEF UserCall
<1>2. CASE ServerStep
  BY <1>2, EnteringSteps, ListenerSteps, LoopSteps, LoopEndStep DEF ServerStep
<1>3. CASE HandlerReturns
  BY <1>3, HandlerReturnsStep
<1>4. CASE HandlerThrows
  BY <1>4, HandlerThrowsStep
<1>5. CASE UNCHANGED vars
  <2>1. UNCHANGED <<owned, members, closing, alive, open, sockfd, stack, ops, opened, fresh, undefined,
                    usedDead>>
    BY <1>5 DEF vars, collVars
  <2>2. Types' /\ Keeps(stack)
    BY <2>1, InvFacts DEF Types
  <2> QED
    BY <2>1, <2>2, CollectionKept
<1> QED
  BY <1>1, <1>2, <1>3, <1>4, <1>5 DEF Next

\* Every peer object has one owner and closing_peers is set exactly while one
\* close_owned_peers runs, whatever handlers accept, retire, close, broadcast and
\* throw, and however deep they reenter the server.
THEOREM OwnershipTheorem == Spec => []OwnershipConsistent
<1>1. Init => PeerInv
  BY InitPeerInv
<1>2. PeerInv /\ [Next]_vars => PeerInv'
  BY PeerInvStep
<1>3. PeerInv => OwnershipConsistent
  <2> SUFFICES ASSUME PeerInv PROVE OwnershipConsistent
    OBVIOUS
  <2>1. RetiredOf(stack) = {stack[k].peer : k \in Retiring}
    BY DEF RetiredOf, Retiring
  <2>2. \A k \in Retiring : stack[k].peer \notin Elements(owned)
    BY <2>1 DEF PeerInv
  <2>3. \A j, k \in Retiring : stack[j].peer = stack[k].peer => j = k
    BY DEF PeerInv, Good, Retiring
  <2>4. Cardinality(ClosingAll) = IF closing THEN 1 ELSE 0
    <3>1. CASE ~closing
      <4>1. ClosingAll = {}
        BY <3>1 DEF PeerInv, IsLooping, Loops, ClosingAll
      <4> QED
        BY <3>1, <4>1, FS_EmptySet
    <3>2. CASE closing
      <4>1. PICK k \in ClosingAll : TRUE
        BY <3>2 DEF PeerInv, IsLooping, Loops, ClosingAll
      <4>2. ClosingAll = {k}
        BY DEF PeerInv, Good, Loops, ClosingAll
      <4> QED
        BY <3>2, <4>2, FS_Singleton
    <3> QED
      BY <3>1, <3>2
  <2> QED
    BY <2>1, <2>2, <2>3, <2>4 DEF PeerInv, OwnershipConsistent
<1> QED
  BY <1>1, <1>2, <1>3, PTL DEF Spec

-----------------------------------------------------------------------------
(* close_owned_peers leaves no peer open if user code retires at most one  *)
(* peer in a turn of its loop.                                             *)

\* A peer the loop need not care for: closed, or accepted since it began.
Done(p, op, fr) == p \notin op \/ p \in fr

\* The current slot of the loop still holds the peer that was closed.
Same(f, ow) == f.index < Len(ow) /\ ow[f.index + 1] = f.peer

\* What lies before the index is done, and so is the current slot if it still holds
\* the peer the turn closed.  In a turn without a retirement it does.
LoopFrameOK(f, ow, op, fr) ==
    /\ f.at \in {"loop", "handler", "next"}
    /\ \A i \in DOMAIN ow : i <= f.index => Done(ow[i], op, fr)
    /\ f.at # "loop" => /\ f.retired = 0 => Same(f, ow)
                        /\ Same(f, ow) => Done(f.peer, op, fr)

\* A run of the loop around another call stands at its handler.
LoopOK(st, ow, op, fr) ==
    /\ \A k \in Loops(st) : k # Len(st) => st[k].at = "handler"
    /\ \A k \in Loops(st) : LoopFrameOK(st[k], ow, op, fr)

LoopInv == LoopOK(stack, owned, open, fresh)

\* Another call may begin.
Ready(st) == Len(st) \in Loops(st) => st[Len(st)].at = "handler"

\* A call that begins inside a handler leaves the loop around it as it was.
LEMMA LoopPush ==
  ASSUME NEW st \in Seq(Frames), NEW f \in Frames, NEW ow, NEW op, NEW fr,
         LoopOK(st, ow, op, fr), Ready(st), f.fn = "close_all" => LoopFrameOK(f, ow, op, fr)
  PROVE  LoopOK(Append(st, f), ow, op, fr)
<1> DEFINE a == Append(st, f)
<1>1. /\ Len(st) \in Nat /\ DOMAIN st = 1..Len(st) /\ DOMAIN a = 1..(Len(st) + 1) /\ Len(a) = Len(st) + 1
      /\ a[Len(st) + 1] = f /\ \A i \in 1..Len(st) : a[i] = st[i]
  OBVIOUS
<1> HIDE DEF a
<1>2. \A k \in Loops(a) : \/ k \in Loops(st) /\ a[k] = st[k]
                          \/ k = Len(a) /\ a[k] = f /\ f.fn = "close_all"
  BY <1>1 DEF Loops
<1>3. \A k \in Loops(st) : st[k].at = "handler"
  BY DEF LoopOK, Ready
<1> QED
  BY <1>2, <1>3 DEF LoopOK, a

\* The calls around one of the calls in progress.
LEMMA LoopPrefix ==
  ASSUME NEW st \in Seq(Frames), NEW u \in Seq(Frames), NEW ow, NEW op, NEW fr,
         LoopOK(st, ow, op, fr), Len(u) < Len(st), \A k \in DOMAIN u : u[k] = st[k]
  PROVE  LoopOK(u, ow, op, fr) /\ Ready(u)
<1>0. /\ Len(u) \in Nat /\ DOMAIN u = 1..Len(u)
      /\ Len(st) \in Nat /\ DOMAIN st = 1..Len(st)
  OBVIOUS
<1>1. \A k \in DOMAIN u : k \in DOMAIN st /\ k # Len(st)
  BY <1>0
<1>2. \A k \in Loops(u) : k \in Loops(st) /\ k # Len(st) /\ u[k] = st[k]
  BY <1>1 DEF Loops
<1> QED
  BY <1>2 DEF LoopOK, Ready

\* So does a call that ends.
LEMMA LoopPop ==
  ASSUME stack \in Seq(Frames), stack # <<>>, NEW ow, NEW op, NEW fr, LoopOK(stack, ow, op, fr)
  PROVE  Below \in Seq(Frames) /\ LoopOK(Below, ow, op, fr) /\ Ready(Below)
<1>1. Len(stack) \in Nat /\ Len(stack) > 0
  OBVIOUS
<1>2. /\ Below \in Seq(Frames) /\ DOMAIN Below = 1..(Len(stack) - 1)
      /\ \A k \in 1..(Len(stack) - 1) : Below[k] = stack[k]
  BY <1>1 DEF Below
<1>3. Len(Below) \in Nat /\ DOMAIN Below = 1..Len(Below)
  BY <1>2
<1>4. Len(Below) < Len(stack)
  BY <1>1, <1>2, <1>3
<1> QED
  BY <1>2, <1>4, LoopPrefix

\* A call that moves on changes its own frame only.
LEMMA LoopReplace ==
  ASSUME stack \in Seq(Frames), stack # <<>>, NEW ow, NEW op, NEW fr, LoopOK(stack, ow, op, fr),
         NEW f \in Frames, f.fn = "close_all" => LoopFrameOK(f, ow, op, fr)
  PROVE  /\ Replace(f) \in Seq(Frames) /\ LoopOK(Replace(f), ow, op, fr)
         /\ f.fn # "close_all" => Ready(Replace(f))
<1>1. Below \in Seq(Frames) /\ LoopOK(Below, ow, op, fr) /\ Ready(Below)
  BY LoopPop
<1>2. LoopOK(Append(Below, f), ow, op, fr)
  BY <1>1, LoopPush
<1>3. Append(Below, f) \in Seq(Frames)
  BY <1>1
<1>4. Append(Below, f)[Len(Append(Below, f))] = f
  BY <1>1
<1> QED
  BY <1>2, <1>3, <1>4 DEF Replace, Ready, Loops

\* Steps that leave the vector alone and keep done what is done.
LEMMA DoneKept ==
  ASSUME NEW st \in Seq(Frames), NEW ow \in Seq(Peers), NEW op, NEW fr, NEW op2, NEW fr2,
         LoopOK(st, ow, op, fr),
         \A i \in DOMAIN ow : Done(ow[i], op, fr) => Done(ow[i], op2, fr2)
  PROVE  LoopOK(st, ow, op2, fr2)
<1>1. ASSUME NEW k \in Loops(st) PROVE LoopFrameOK(st[k], ow, op2, fr2)
  <2> DEFINE f == st[k]
  <2>1. f.index \in Nat
    <3>1. f \in Frames
      BY DEF Loops
    <3> QED
      BY <3>1 DEF Frames
  <2>2. LoopFrameOK(f, ow, op, fr)
    BY DEF LoopOK
  <2> HIDE DEF f
  <2>3. Same(f, ow) => f.index + 1 \in DOMAIN ow /\ ow[f.index + 1] = f.peer
    BY <2>1 DEF Same
  <2> QED
    BY <2>2, <2>3 DEF LoopFrameOK, f
<1> QED
  BY <1>1 DEF LoopOK

\* An accepted peer comes last in the vector and is not the loop's concern.
LEMMA LoopAccept ==
  ASSUME NEW st \in Seq(Frames), NEW ow \in Seq(Peers), NEW op, NEW fr, NEW p \in Peers,
         LoopOK(st, ow, op, fr)
  PROVE  LoopOK(st, Append(ow, p), op \union {p}, fr \union {p})
<1> DEFINE a == Append(ow, p)
<1>1. /\ Len(ow) \in Nat /\ DOMAIN ow = 1..Len(ow) /\ DOMAIN a = 1..(Len(ow) + 1) /\ Len(a) = Len(ow) + 1
      /\ a[Len(ow) + 1] = p /\ \A i \in 1..Len(ow) : a[i] = ow[i]
  OBVIOUS
<1> HIDE DEF a
<1>2. \A q : Done(q, op, fr) => Done(q, op \union {p}, fr \union {p})
  BY DEF Done
<1>3. Done(p, op \union {p}, fr \union {p})
  BY DEF Done
<1>4. ASSUME NEW k \in Loops(st) PROVE LoopFrameOK(st[k], a, op \union {p}, fr \union {p})
  <2> DEFINE f == st[k]
  <2>1. f.index \in Nat
    <3>1. f \in Frames
      BY DEF Loops
    <3> QED
      BY <3>1 DEF Frames
  <2>2. LoopFrameOK(f, ow, op, fr)
    BY DEF LoopOK
  <2> HIDE DEF f
  <2>3. Same(f, ow) => Same(f, a)
    BY <1>1, <2>1 DEF Same
  <2>4. Same(f, a) => Same(f, ow) \/ f.peer = p
    BY <1>1, <2>1 DEF Same
  <2>5. \A i \in DOMAIN a : (i \in DOMAIN ow /\ a[i] = ow[i]) \/ a[i] = p
    BY <1>1
  <2> QED
    BY <1>2, <1>3, <2>2, <2>3, <2>4, <2>5 DEF LoopFrameOK, f
<1> QED
  BY <1>4 DEF LoopOK, a

\* One retirement in a turn moves the entries of the vector by one place at most:
\* the slot of the closed peer may come to lie before the index, none after it.
LEMMA LoopErase ==
  ASSUME NEW ow \in Seq(Peers), NEW j \in DOMAIN ow, NEW op, NEW fr, NEW op2, NEW fr2,
         NEW f \in Frames, f.at = "handler", f.retired = 0, LoopFrameOK(f, ow, op, fr),
         \A i \in DOMAIN ow : i # j /\ Done(ow[i], op, fr) => Done(ow[i], op2, fr2)
  PROVE  LoopFrameOK([f EXCEPT !.retired = @ + 1], Erase(ow, j), op2, fr2)
<1> DEFINE e == Erase(ow, j)
           g == [f EXCEPT !.retired = @ + 1]
<1>0. Len(ow) \in Nat /\ DOMAIN ow = 1..Len(ow) /\ f.index \in Nat
  BY DEF Frames
<1>1. /\ DOMAIN e = 1..(Len(ow) - 1) /\ Len(e) = Len(ow) - 1
      /\ \A k \in 1..(Len(ow) - 1) : e[k] = IF k < j THEN ow[k] ELSE ow[k + 1]
  <2>1. Len(ow) - 1 \in Nat
    BY <1>0
  <2>2. e = [k \in 1..(Len(ow) - 1) |-> IF k < j THEN ow[k] ELSE ow[k + 1]]
    BY DEF Erase
  <2> HIDE DEF e
  <2> QED
    BY <2>1, <2>2
<1> HIDE DEF e
<1>2. /\ g.at = "handler" /\ g.index = f.index /\ g.peer = f.peer /\ g.retired = 1
  BY DEF Frames
<1> HIDE DEF g
<1>3. Same(f, ow) /\ Done(f.peer, op, fr) /\ \A i \in DOMAIN ow : i <= f.index => Done(ow[i], op, fr)
  BY DEF LoopFrameOK
<1>4. \A i \in DOMAIN ow : i <= f.index + 1 => Done(ow[i], op, fr)
  BY <1>0, <1>3 DEF Same
<1>5. ASSUME NEW i \in DOMAIN e, i <= f.index PROVE Done(e[i], op2, fr2)
  <2>1. CASE i < j
    <3>1. i \in DOMAIN ow /\ i # j /\ i <= f.index + 1 /\ e[i] = ow[i]
      BY <1>0, <1>1, <1>5, <2>1
    <3> QED
      BY <1>4, <3>1
  <2>2. CASE i >= j
    <3>1. i + 1 \in DOMAIN ow /\ i + 1 # j /\ i + 1 <= f.index + 1 /\ e[i] = ow[i + 1]
      BY <1>0, <1>1, <1>5, <2>2
    <3> QED
      BY <1>4, <3>1
  <2> QED
    BY <1>0, <1>1, <2>1, <2>2
<1>6. ASSUME Same(g, e) PROVE Done(g.peer, op2, fr2)
  <2> DEFINE i == f.index + 1
  <2>1. i \in DOMAIN e /\ e[i] = f.peer
    BY <1>0, <1>1, <1>2, <1>6 DEF Same
  <2>2. CASE i < j
    <3>1. i \in DOMAIN ow /\ i # j /\ ow[i] = f.peer
      BY <1>0, <1>1, <2>1, <2>2
    <3> QED
      BY <1>2, <1>3, <3>1
  <2>3. CASE i >= j
    <3>1. i + 1 \in DOMAIN ow /\ i + 1 # j /\ ow[i + 1] = f.peer
      BY <1>0, <1>1, <2>1, <2>3
    <3> QED
      BY <1>2, <1>3, <3>1
  <2> QED
    BY <1>0, <2>2, <2>3
<1> QED
  BY <1>2, <1>5, <1>6 DEF LoopFrameOK, e, g

\* What is known of a stack when user code or the innermost call goes on.
LEMMA LoopFacts ==
  ASSUME PeerInv
  PROVE  /\ stack \in Seq(Frames) /\ owned \in Seq(Peers) /\ Injective(owned)
         /\ UserRuns => Ready(stack)
BY DEF PeerInv, Good, TypeOK, UserRuns, Ready, Loops, Top

\* The invariant of the next state, in which no peer of the vector was opened.
LEMMA NextLoop ==
  ASSUME PeerInv, NEW st \in Seq(Frames), stack' = st, LoopOK(st, owned, open, fresh),
         owned' = owned, open' \subseteq open,
         \A i \in DOMAIN owned : owned[i] \in fresh => owned[i] \in fresh'
  PROVE  LoopInv'
<1>1. owned \in Seq(Peers)
  BY LoopFacts
<1>2. \A i \in DOMAIN owned : Done(owned[i], open, fresh) => Done(owned[i], open', fresh')
  BY DEF Done
<1>3. LoopOK(st, owned, open', fresh')
  BY <1>1, <1>2, DoneKept
<1>4. LoopOK(stack', owned', open', fresh')
  BY <1>3
<1> QED
  BY <1>4 DEF LoopInv, LoopOK, LoopFrameOK, Loops, Same, Done

\* A peer is retired, the first one in this turn of the loop.
LEMMA LoopRemoveStep ==
  ASSUME PeerInv, LoopInv, PerTurn <= 1, NEW p \in Peers, RemovePeer(p)
  PROVE  LoopInv'
<1> DEFINE frame == Frame("remove", "handler", p)
<1>1. /\ p \in Elements(owned) /\ owned' = Without(owned, p) /\ UserRuns
      /\ \A k \in ClosingAll : stack[k].retired < PerTurn
  BY DEF RemovePeer, Calls
<1>2. \/ /\ p \in open /\ open' = open \ {p} /\ stack' = Append(Counted, frame) /\ fresh' = fresh
      \/ /\ p \notin open /\ fresh' = fresh \ {p} /\ stack' = Counted /\ open' = open
  BY DEF RemovePeer
<1>3. stack \in Seq(Frames) /\ owned \in Seq(Peers) /\ Injective(owned) /\ Ready(stack)
  BY <1>1, LoopFacts
<1>4. PICK j \in DOMAIN owned : owned[j] = p /\ owned' = Erase(owned, j)
  BY <1>1, <1>3, WithoutFacts
<1>5. \A i \in DOMAIN owned : i # j /\ Done(owned[i], open, fresh) => Done(owned[i], open', fresh')
  BY <1>2, <1>3, <1>4 DEF Done, Injective
<1>6. /\ Counted \in Seq(Frames) /\ Len(Counted) = Len(stack) /\ DOMAIN Counted = DOMAIN stack
      /\ \A k \in DOMAIN stack : Counted[k].fn = stack[k].fn /\ Counted[k].at = stack[k].at
  <2>1. Counted \in Seq(Frames)
    BY KeepsCounted DEF Keeps, Good
  <2>2. DOMAIN Counted = DOMAIN stack
    BY DEF Counted
  <2>3. Len(stack) \in Nat /\ Len(Counted) \in Nat
    BY <1>3, <2>1
  <2>4. DOMAIN stack = 1..Len(stack) /\ DOMAIN Counted = 1..Len(Counted)
    BY <1>3, <2>1
  <2>5. Len(Counted) = Len(stack)
    BY <2>2, <2>3, <2>4
  <2>6. \A k \in DOMAIN stack : stack[k] \in Frames
    BY <1>3
  <2>7. \A k \in DOMAIN stack : Counted[k].fn = stack[k].fn /\ Counted[k].at = stack[k].at
    BY <2>6 DEF Counted, Frames
  <2> QED
    BY <2>1, <2>2, <2>5, <2>7
<1>7. Loops(Counted) = Loops(stack)
  BY <1>6 DEF Loops
<1>8. ASSUME NEW k \in Loops(stack)
      PROVE  Counted[k].at = "handler" /\ LoopFrameOK(Counted[k], owned', open', fresh')
  <2>1. stack[k].at = "handler" /\ LoopFrameOK(stack[k], owned, open, fresh)
    BY <1>3 DEF LoopInv, LoopOK, Ready
  <2>2. k \in DOMAIN stack /\ k \in ClosingAll
    BY DEF Loops, ClosingAll
  <2>3. stack[k] \in Frames
    BY <1>3, <2>2
  <2>4. stack[k].retired = 0
    <3>1. stack[k].retired \in Nat /\ stack[k].retired < PerTurn
      BY <1>1, <2>2, <2>3 DEF Frames
    <3> QED
      BY <3>1, BoundsAssumption
  <2>5. Counted[k] = [stack[k] EXCEPT !.retired = @ + 1]
    BY <2>2 DEF Counted
  <2> QED
    BY <1>3, <1>4, <1>5, <1>6, <2>1, <2>2, <2>3, <2>4, <2>5, LoopErase
<1>9. LoopOK(Counted, owned', open', fresh') /\ Ready(Counted)
  BY <1>7, <1>8 DEF LoopOK, Ready
<1>10. LoopOK(stack', owned', open', fresh')
  <2>1. CASE stack' = Counted
    BY <1>9, <2>1
  <2>2. CASE stack' = Append(Counted, frame)
    <3>1. frame \in Frames /\ frame.fn = "remove"
      BY FrameFacts
    <3> HIDE DEF frame
    <3> QED
      BY <1>6, <1>9, <2>2, <3>1, LoopPush
  <2> QED
    BY <1>2, <2>1, <2>2
<1> QED
  BY <1>10 DEF LoopInv, LoopOK, LoopFrameOK, Loops, Same, Done

\* A peer accepted while the loop runs joins at the end of the vector, as a new one.
LEMMA LoopAcceptStep ==
  ASSUME PeerInv, LoopInv, Accept PROVE LoopInv'
<1>1. PICK p \in Peers \ alive :
         owned' = Append(owned, p) /\ open' = open \union {p} /\ fresh' = fresh \union {p}
  BY DEF Accept
<1>2. stack' = stack /\ stack \in Seq(Frames) /\ owned \in Seq(Peers)
  BY LoopFacts DEF Accept
<1>3. LoopOK(stack, Append(owned, p), open \union {p}, fresh \union {p})
  BY <1>2, LoopAccept DEF LoopInv
<1>4. LoopOK(stack', owned', open', fresh')
  BY <1>1, <1>2, <1>3
<1> QED
  BY <1>4 DEF LoopInv, LoopOK, LoopFrameOK, Loops, Same, Done

\* The other calls of user code.
LEMMA LoopCallSteps ==
  ASSUME PeerInv, LoopInv,
         \/ AcceptFails \/ Close \/ Listen \/ Broadcast
         \/ \E p \in Peers : ClosePeer(p) \/ WritePeer(p)
         \/ \E i \in DOMAIN members, count \in 1..Len(members) : RemoveMembers(i, count)
  PROVE  LoopInv'
<1>1. UNCHANGED <<owned, fresh>> /\ open' \subseteq open /\ UserRuns
  BY DEF AcceptFails, Close, Listen, Broadcast, ClosePeer, WritePeer, RemoveMembers, Calls, collVars
<1>2. stack \in Seq(Frames) /\ Ready(stack) /\ LoopOK(stack, owned, open, fresh)
  BY <1>1, LoopFacts DEF LoopInv
<1>3. ASSUME NEW f \in Frames, f.fn # "close_all"
      PROVE  /\ Append(stack, f) \in Seq(Frames) /\ LoopOK(Append(stack, f), owned, open, fresh)
             /\ Ready(Append(stack, f))
  <2>1. Append(stack, f) \in Seq(Frames) /\ Append(stack, f)[Len(Append(stack, f))] = f
    BY <1>2
  <2> QED
    BY <1>2, <1>3, <2>1, LoopPush DEF Ready, Loops
<1>4. ASSUME NEW st \in Seq(Frames), stack' = st, LoopOK(st, owned, open, fresh) PROVE LoopInv'
  BY <1>1, <1>4, NextLoop
<1>5. CASE stack' = stack
  BY <1>2, <1>4, <1>5
<1>6. CASE Listen
  <2> DEFINE f == Frame("listen", "socket", NoPeer)
             g == Frame("close", "start", NoPeer)
  <2>1. stack' = Append(Append(stack, f), g)
    BY <1>6 DEF Listen, Push
  <2>2. f \in Frames /\ g \in Frames /\ f.fn = "listen" /\ g.fn = "close"
    BY FrameFacts
  <2> HIDE DEF f, g
  <2>3. LoopOK(Append(Append(stack, f), g), owned, open, fresh)
    BY <1>3, <2>2, LoopPush
  <2>4. Append(Append(stack, f), g) \in Seq(Frames)
    BY <1>2, <2>2
  <2> QED
    BY <1>4, <2>1, <2>3, <2>4
<1>7. ASSUME NEW f \in Frames, f.fn # "close_all", stack' = Append(stack, f) PROVE LoopInv'
  BY <1>3, <1>4, <1>7
<1>8. CASE Close
  <2>1. stack' = Append(stack, Frame("close", "start", NoPeer))
    BY <1>8 DEF Close, Push
  <2>2. Frame("close", "start", NoPeer) \in Frames /\ Frame("close", "start", NoPeer).fn = "close"
    BY FrameFacts
  <2> QED
    BY <1>7, <2>1, <2>2
<1>9. CASE Broadcast
  <2> DEFINE f == Frame("broadcast", "loop", NoPeer)
             g == [f EXCEPT !.view = members]
  <2>1. stack' = Append(stack, g)
    BY <1>9 DEF Broadcast, Push
  <2>2. f \in Frames /\ f.fn = "broadcast"
    BY FrameFacts
  <2> HIDE DEF f
  <2>3. g \in Frames /\ g.fn = "broadcast"
    BY <2>2 DEF Frames, PeerInv, TypeOK
  <2> HIDE DEF g
  <2> QED
    BY <1>7, <2>1, <2>3
<1>10. ASSUME NEW p \in Peers, ClosePeer(p) PROVE LoopInv'
  <2>1. stack' = Append(stack, Frame("peer_close", "handler", p))
    BY <1>10 DEF ClosePeer, Push
  <2>2. /\ Frame("peer_close", "handler", p) \in Frames
        /\ Frame("peer_close", "handler", p).fn = "peer_close"
    BY FrameFacts
  <2> QED
    BY <1>7, <2>1, <2>2
<1>11. ASSUME NEW p \in Peers, WritePeer(p) PROVE LoopInv'
  <2>1. PICK f \in {Frame("write", "handler", p), Frame("write", "report", p)} : stack' = Append(stack, f)
    BY <1>11 DEF WritePeer, Push, Written
  <2>2. f \in Frames /\ f.fn = "write"
    BY FrameFacts
  <2> QED
    BY <1>7, <2>1, <2>2
<1>12. CASE AcceptFails \/ \E i \in DOMAIN members, count \in 1..Len(members) : RemoveMembers(i, count)
  BY <1>5, <1>12 DEF AcceptFails, RemoveMembers
<1> QED
  BY <1>6, <1>8, <1>9, <1>10, <1>11, <1>12

\* The loop begins with nothing done, when no other run of it is in progress.
LEMMA LoopEnter ==
  ASSUME PeerInv, NEW caller \in Seq(Frames), Keeps(caller), LoopOK(caller, owned, open, fresh),
         EnterClosePeers(caller), UNCHANGED <<owned, open>>
  PROVE  LoopInv'
<1>1. CASE closing
  <2>1. stack' = caller /\ fresh' = fresh
    BY <1>1 DEF EnterClosePeers
  <2> QED
    BY <2>1, NextLoop
<1>2. CASE ~closing
  <2> DEFINE f == Frame("close_all", "loop", NoPeer)
  <2>1. fresh' = {} /\ stack' = Append(caller, f)
    BY <1>2 DEF EnterClosePeers
  <2>2. f \in Frames /\ f.index = 0 /\ f.at = "loop"
    BY FrameFacts DEF Frame
  <2> HIDE DEF f
  <2>3. Loops(caller) = {}
    BY <1>2 DEF Keeps, PeerInv, IsLooping
  <2>4. LoopOK(caller, owned, open, {}) /\ Ready(caller)
    BY <2>3 DEF LoopOK, Ready
  <2>5. \A i \in DOMAIN owned : ~(i <= 0)
    <3>1. owned \in Seq(Peers)
      BY LoopFacts
    <3> QED
      BY <3>1
  <2>6. LoopFrameOK(f, owned, open, {})
    BY <2>2, <2>5 DEF LoopFrameOK
  <2>7. LoopOK(Append(caller, f), owned, open, {})
    BY <2>2, <2>4, <2>6, LoopPush
  <2>8. LoopOK(stack', owned', open', fresh')
    BY <2>1, <2>7
  <2> QED
    BY <2>8 DEF LoopInv, LoopOK, LoopFrameOK, Loops, Same, Done
<1> QED
  BY <1>1, <1>2

\* A run of the loop that begins has nothing behind its index; one that runs goes on.
LEMMA LoopEnteringSteps ==
  ASSUME PeerInv, LoopInv, ClosePeersOfListener \/ ListenClosesPeers PROVE LoopInv'
<1>1. UNCHANGED <<owned, open>> /\ stack # <<>>
  BY DEF ClosePeersOfListener, ListenClosesPeers, In
<1>2. stack \in Seq(Frames) /\ LoopOK(stack, owned, open, fresh)
  BY LoopFacts DEF LoopInv
<1>3. CASE ClosePeersOfListener
  <2>1. Top.fn = "close" /\ EnterClosePeers(Below)
    BY <1>3 DEF ClosePeersOfListener, In
  <2>2. Keeps(Below)
    BY <1>1, <2>1, KeepsBelow
  <2>3. Below \in Seq(Frames) /\ LoopOK(Below, owned, open, fresh)
    BY <1>1, <1>2, LoopPop
  <2> QED
    BY <1>1, <2>1, <2>2, <2>3, LoopEnter
<1>4. CASE ListenClosesPeers
  <2>1. Top.fn = "listen" /\ EnterClosePeers(Replace(At("finish")))
    BY <1>4 DEF ListenClosesPeers, In
  <2>2. At("finish") \in Frames /\ At("finish").fn = "listen"
    BY <1>1, <2>1, InvFacts, AtFacts
  <2>3. Keeps(Replace(At("finish")))
    BY <1>1, <2>1, <2>2, KeepsReplace
  <2>4. Replace(At("finish")) \in Seq(Frames) /\ LoopOK(Replace(At("finish")), owned, open, fresh)
    BY <1>1, <1>2, <2>2, LoopReplace
  <2> QED
    BY <1>1, <2>1, <2>3, <2>4, LoopEnter
<1> QED
  BY <1>3, <1>4

\* The steps of close and listen around the loop keep its invariant.
LEMMA LoopListenerSteps ==
  ASSUME PeerInv, LoopInv, CloseListener \/ ListenSocket \/ ListenFailed \/ ListenFinish PROVE LoopInv'
<1>1. UNCHANGED <<owned, open, fresh>>
  BY DEF CloseListener, ListenSocket, ListenFailed, ListenFinish, collVars
<1>2. /\ stack \in Seq(Frames) /\ LoopOK(stack, owned, open, fresh)
      /\ stack # <<>> /\ Top \in Frames /\ Top.fn \in {"close", "listen"}
  BY LoopFacts, InvFacts DEF LoopInv, CloseListener, ListenSocket, ListenFailed, ListenFinish, In
<1>3. ASSUME NEW st \in Seq(Frames), stack' = st, LoopOK(st, owned, open, fresh) PROVE LoopInv'
  BY <1>1, <1>3, NextLoop
<1>4. CASE stack' = Below
  BY <1>2, <1>3, <1>4, LoopPop
<1>5. ASSUME NEW place \in {"handler", "peers", "failed"}
      PROVE  /\ Replace(At(place)) \in Seq(Frames) /\ LoopOK(Replace(At(place)), owned, open, fresh)
             /\ Ready(Replace(At(place)))
  <2>1. At(place) \in Frames /\ At(place).fn # "close_all"
    BY <1>2, AtFacts
  <2> QED
    BY <1>2, <2>1, LoopReplace
<1>6. ASSUME NEW place \in {"handler", "peers", "failed"}, stack' = Replace(At(place)) PROVE LoopInv'
  BY <1>3, <1>5, <1>6
<1>7. CASE stack' = Append(Replace(At("failed")), Frame("close", "start", NoPeer))
  <2> DEFINE g == Frame("close", "start", NoPeer)
             r == Replace(At("failed"))
  <2>1. g \in Frames /\ g.fn = "close"
    BY FrameFacts
  <2> HIDE DEF g
  <2>2. r \in Seq(Frames) /\ LoopOK(r, owned, open, fresh) /\ Ready(r)
    BY <1>5
  <2> HIDE DEF r
  <2>3. Append(r, g) \in Seq(Frames) /\ LoopOK(Append(r, g), owned, open, fresh)
    BY <2>1, <2>2, LoopPush
  <2>4. stack' = Append(r, g)
    BY <1>7 DEF r, g
  <2> QED
    BY <1>3, <2>3, <2>4
<1>8. \/ stack' = Below
      \/ \E place \in {"handler", "peers", "failed"} : stack' = Replace(At(place))
      \/ stack' = Append(Replace(At("failed")), Frame("close", "start", NoPeer))
  BY DEF CloseListener, ListenSocket, ListenFailed, ListenFinish
<1> QED
  BY <1>4, <1>6, <1>7, <1>8

\* A turn begins by closing the peer of the slot, and ends by looking at the slot.
LEMMA LoopTurnSteps ==
  ASSUME PeerInv, LoopInv, ClosePeersStep \/ ClosePeersNext PROVE LoopInv'
<1>1. /\ stack \in Seq(Frames) /\ LoopOK(stack, owned, open, fresh) /\ owned \in Seq(Peers)
      /\ stack # <<>> /\ Top \in Frames /\ Top.fn = "close_all" /\ Top.at \in {"loop", "next"}
  BY LoopFacts, InvFacts DEF LoopInv, ClosePeersStep, ClosePeersNext, In
<1>2. LoopFrameOK(Top, owned, open, fresh)
  <2>1. Len(stack) \in Loops(stack)
    <3>1. Len(stack) \in DOMAIN stack
      BY <1>1
    <3> QED
      BY <1>1, <3>1 DEF Loops, Top
  <2> QED
    BY <1>1, <2>1 DEF LoopOK, Top
<1>3. Top.index \in Nat /\ Len(owned) \in Nat /\ DOMAIN owned = 1..Len(owned)
  BY <1>1 DEF Frames
<1>4. CASE ClosePeersStep
  <2> DEFINE p == owned[Top.index + 1]
             place == IF p \in open THEN "handler" ELSE "next"
             f == [Top EXCEPT !.peer = p, !.retired = 0, !.at = place]
  <2>1. /\ Top.index < Len(owned) /\ stack' = Replace(f) /\ open' = open \ {p}
        /\ owned' = owned /\ fresh' = fresh
    BY <1>4 DEF ClosePeersStep
  <2>2. Top.index + 1 \in DOMAIN owned /\ p \in Peers
    BY <1>1, <1>3, <2>1
  <2>3. place \in {"handler", "next"}
    OBVIOUS
  <2> HIDE DEF p, place
  <2>4. /\ f \in Frames /\ f.peer = p /\ f.index = Top.index /\ f.at = place
        /\ f.retired = 0
    BY <1>1, <2>2, <2>3 DEF Frames
  <2> HIDE DEF f
  <2>5. \A i \in DOMAIN owned : Done(owned[i], open, fresh) => Done(owned[i], open', fresh')
    BY <2>1 DEF Done
  <2>6. LoopOK(stack, owned, open', fresh')
    BY <1>1, <2>5, DoneKept
  <2>7. \A i \in DOMAIN owned : i <= Top.index => Done(owned[i], open', fresh')
    BY <1>2, <2>5 DEF LoopFrameOK
  <2>8. Same(f, owned) /\ Done(p, open', fresh')
    BY <2>1, <2>4 DEF Same, Done, p
  <2>9. LoopFrameOK(f, owned, open', fresh')
    BY <2>3, <2>4, <2>7, <2>8 DEF LoopFrameOK
  <2>10. LoopOK(Replace(f), owned, open', fresh')
    BY <1>1, <2>4, <2>6, <2>9, LoopReplace
  <2>11. LoopOK(stack', owned', open', fresh')
    BY <2>1, <2>10
  <2> QED
    BY <2>11 DEF LoopInv, LoopOK, LoopFrameOK, Loops, Same, Done
<1>5. CASE ClosePeersNext
  <2> DEFINE n == IF Same(Top, owned) THEN Top.index + 1 ELSE Top.index
             f == [Top EXCEPT !.at = "loop", !.peer = NoPeer, !.index = n]
  <2>1. Top.at = "next" /\ stack' = Replace(f) /\ UNCHANGED <<owned, open, fresh>>
    BY <1>5 DEF ClosePeersNext, In, Same, collVars
  <2>2. n \in Nat
    BY <1>3
  <2>3. \A i \in DOMAIN owned : i <= n => Done(owned[i], open, fresh)
    <3>1. \A i \in DOMAIN owned : i <= Top.index => Done(owned[i], open, fresh)
      BY <1>2 DEF LoopFrameOK
    <3>2. Same(Top, owned) => Done(Top.peer, open, fresh) /\ owned[Top.index + 1] = Top.peer
      BY <1>2, <2>1 DEF LoopFrameOK, Same
    <3>3. \A i \in DOMAIN owned : i <= n => i <= Top.index \/ (Same(Top, owned) /\ i = Top.index + 1)
      BY <1>3
    <3> QED
      BY <3>1, <3>2, <3>3
  <2> HIDE DEF n
  <2>4. f \in Frames /\ f.at = "loop" /\ f.index = n
    BY <1>1, <2>2 DEF Frames
  <2> HIDE DEF f
  <2>5. LoopFrameOK(f, owned, open, fresh)
    BY <2>3, <2>4 DEF LoopFrameOK
  <2>6. Replace(f) \in Seq(Frames) /\ LoopOK(Replace(f), owned, open, fresh)
    BY <1>1, <2>4, <2>5, LoopReplace
  <2> QED
    BY <2>1, <2>6, NextLoop
<1> QED
  BY <1>4, <1>5

\* The steps of the other calls, and the end of the loop.
LEMMA LoopOtherSteps ==
  ASSUME PeerInv, LoopInv, ClosePeersEnd \/ BroadcastStep \/ BroadcastEnd \/ WriteReport PROVE LoopInv'
<1>1. UNCHANGED <<owned, open, fresh>>
  BY DEF ClosePeersEnd, BroadcastStep, BroadcastEnd, WriteReport, collVars
<1>2. /\ stack \in Seq(Frames) /\ LoopOK(stack, owned, open, fresh) /\ stack # <<>> /\ Top \in Frames
  BY LoopFacts, InvFacts DEF LoopInv, ClosePeersEnd, BroadcastStep, BroadcastEnd, WriteReport, In
<1>3. ASSUME NEW st \in Seq(Frames), stack' = st, LoopOK(st, owned, open, fresh) PROVE LoopInv'
  BY <1>1, <1>3, NextLoop
<1>4. CASE ClosePeersEnd \/ BroadcastEnd
  <2>1. stack' = Below
    BY <1>4 DEF ClosePeersEnd, BroadcastEnd
  <2> QED
    BY <1>2, <1>3, <2>1, LoopPop
<1>5. CASE BroadcastStep
  <2> DEFINE p == members[Top.index + 1]
             f == [Top EXCEPT !.index = @ + 1]
             r == Replace(f)
  <2>1. /\ Top.fn = "broadcast" /\ Top.index < Len(members)
        /\ stack' \in IF p \in open THEN {Append(r, g) : g \in Written(p)} ELSE {r}
    BY <1>5 DEF BroadcastStep, In
  <2>2. Top \in Frames /\ Top.index \in Nat
    BY <1>2 DEF Frames
  <2>3. p \in Peers
    <3>1. members \in Seq(Peers) /\ Len(members) \in Nat
      BY DEF PeerInv, TypeOK
    <3>2. Top.index + 1 \in 1..Len(members)
      BY <2>1, <2>2, <3>1
    <3> QED
      BY <3>1, <3>2
  <2> HIDE DEF p
  <2>4. f \in Frames /\ f.fn = Top.fn
    BY <2>2 DEF Frames
  <2> HIDE DEF f
  <2>5. r \in Seq(Frames) /\ LoopOK(r, owned, open, fresh) /\ Ready(r)
    BY <1>2, <2>1, <2>4, LoopReplace
  <2> HIDE DEF r
  <2>6. \A g \in Written(p) : g \in Frames /\ g.fn = "write"
    BY <2>3, FrameFacts DEF Written
  <2>7. \A g \in Written(p) : Append(r, g) \in Seq(Frames) /\ LoopOK(Append(r, g), owned, open, fresh)
    BY <2>5, <2>6, LoopPush
  <2>8. stack' = r \/ \E g \in Written(p) : stack' = Append(r, g)
    BY <2>1
  <2> QED
    BY <1>3, <2>5, <2>7, <2>8
<1>6. CASE WriteReport
  <2> DEFINE f == Frame("written", "handler", Top.peer)
  <2>1. stack' = Replace(f)
    BY <1>6 DEF WriteReport
  <2>2. Top.peer \in Peers \union {NoPeer}
    BY <1>2 DEF Frames
  <2>3. f \in Frames /\ f.fn = "written"
    BY <2>2, FrameFacts
  <2> HIDE DEF f
  <2> QED
    BY <1>2, <1>3, <2>1, <2>3, LoopReplace
<1> QED
  BY <1>4, <1>5, <1>6

\* A handler returns or throws: a destroyed peer was no longer in the vector.
LEMMA LoopHandlerSteps ==
  ASSUME PeerInv, LoopInv, HandlerReturns \/ HandlerThrows PROVE LoopInv'
<1>1. /\ stack # <<>> /\ Top.at = "handler" /\ UNCHANGED <<owned, open>>
      /\ IF Top.fn = "remove" THEN Destroy(Top.peer) ELSE UNCHANGED <<alive, fresh>>
  BY DEF HandlerReturns, HandlerThrows
<1>2. /\ stack \in Seq(Frames) /\ LoopOK(stack, owned, open, fresh) /\ Good(stack) /\ Top \in Frames
  BY <1>1, LoopFacts, InvFacts DEF LoopInv
<1>3. \A i \in DOMAIN owned : owned[i] \in fresh => owned[i] \in fresh'
  <2>1. CASE Top.fn = "remove"
    <3>1. Top.peer \in RetiredOf(stack)
      BY <1>1, <1>2, <2>1, PopFacts
    <3>2. \A i \in DOMAIN owned : owned[i] # Top.peer
      BY <3>1 DEF PeerInv, Elements
    <3>3. fresh' = fresh \ {Top.peer}
      BY <1>1, <2>1 DEF Destroy
    <3> QED
      BY <3>2, <3>3
  <2>2. CASE Top.fn # "remove"
    BY <1>1, <2>2
  <2> QED
    BY <2>1, <2>2
<1>4. ASSUME NEW st \in Seq(Frames), stack' = st, LoopOK(st, owned, open, fresh) PROVE LoopInv'
  BY <1>1, <1>3, <1>4, NextLoop
<1>5. CASE HandlerReturns
  <2>1. CASE stack' = Below
    BY <1>1, <1>2, <1>4, <2>1, LoopPop
  <2>2. ASSUME NEW place \in {"peers", "next", "report"}, stack' = Replace(At(place)),
               Top.fn = "close_all" => place = "next"
        PROVE  LoopInv'
    <3>1. /\ At(place) \in Frames /\ At(place).fn = Top.fn /\ At(place).at = place
          /\ At(place).peer = Top.peer /\ At(place).index = Top.index /\ At(place).retired = Top.retired
      BY ZenonT(60), <1>2, <2>2, AtFacts DEF At, Frames
    <3>2. Top.fn = "close_all" => LoopFrameOK(At(place), owned, open, fresh)
      <4> SUFFICES ASSUME Top.fn = "close_all" PROVE LoopFrameOK(At(place), owned, open, fresh)
        OBVIOUS
      <4>1. Len(stack) \in DOMAIN stack
        BY <1>1, <1>2
      <4>2. Len(stack) \in Loops(stack)
        BY <4>1 DEF Loops, Top
      <4>3. LoopFrameOK(Top, owned, open, fresh)
        BY <1>2, <4>2 DEF LoopOK, Top
      <4> QED
        BY <1>1, <2>2, <3>1, <4>3 DEF LoopFrameOK, Same
    <3>3. Replace(At(place)) \in Seq(Frames) /\ LoopOK(Replace(At(place)), owned, open, fresh)
      BY <1>1, <1>2, <3>1, <3>2, LoopReplace
    <3> QED
      BY <1>4, <2>2, <3>3
  <2>3. \/ stack' = Below
        \/ \E place \in {"peers", "next", "report"} :
              stack' = Replace(At(place)) /\ (Top.fn = "close_all" => place = "next")
    BY <1>5 DEF HandlerReturns
  <2> QED
    BY <2>1, <2>2, <2>3
<1>6. CASE HandlerThrows
  <2>1. stack' = Unwound
    BY <1>6 DEF HandlerThrows
  <2>2. /\ Unwound \in Seq(Frames) /\ Len(Unwound) \in 0..(Len(stack) - 1)
        /\ DOMAIN Unwound = 1..Len(Unwound) /\ \A k \in 1..Len(Unwound) : Unwound[k] = stack[k]
    BY <1>1, <1>2, UnwoundPrefix
  <2>3. Len(Unwound) < Len(stack)
    BY <1>2, <2>2
  <2>4. LoopOK(Unwound, owned, open, fresh)
    BY <1>2, <2>2, <2>3, LoopPrefix
  <2> QED
    BY <1>4, <2>1, <2>2, <2>4
<1> QED
  BY <1>5, <1>6

\* Every step keeps the invariant of the loop, if a turn sees at most one retirement.
LEMMA LoopInvStep ==
  ASSUME PeerInv, LoopInv, PerTurn <= 1, [Next]_vars PROVE LoopInv'
<1>1. CASE UserCall
  <2>1. CASE Accept
    BY <2>1, LoopAcceptStep
  <2>2. ASSUME NEW p \in Peers, RemovePeer(p) PROVE LoopInv'
    BY <2>2, LoopRemoveStep
  <2> QED
    BY <1>1, <2>1, <2>2, LoopCallSteps DEF UserCall
<1>2. CASE ServerStep
  BY <1>2, LoopEnteringSteps, LoopListenerSteps, LoopTurnSteps, LoopOtherSteps DEF ServerStep
<1>3. CASE HandlerReturns \/ HandlerThrows
  BY <1>3, LoopHandlerSteps
<1>4. CASE UNCHANGED vars
  BY <1>4 DEF vars, collVars, LoopInv, LoopOK, LoopFrameOK, Loops, Same, Done
<1> QED
  BY <1>1, <1>2, <1>3, <1>4 DEF Next

\* The loop ends only past the last slot, when every slot is done.
LEMMA LoopEndsDone ==
  ASSUME PeerInv, LoopInv, [Next]_vars, In("close_all", "loop"), ~closing', ~UNCHANGED vars
  PROVE  \A p \in Elements(owned) \ fresh : p \notin open
<1>1. /\ stack # <<>> /\ Top.fn = "close_all" /\ Top.at = "loop"
      /\ stack \in Seq(Frames) /\ owned \in Seq(Peers)
  BY LoopFacts DEF In
<1>2. closing
  BY <1>1, PopFacts DEF PeerInv
<1>3. ~UserRuns
  BY <1>1 DEF UserRuns
<1>4. ClosePeersEnd
  <2>1. ~UserCall
    BY <1>3 DEF UserCall, Accept, AcceptFails, RemovePeer, ClosePeer, WritePeer, RemoveMembers,
                Close, Listen, Broadcast, Calls
  <2>2. ~HandlerReturns /\ ~HandlerThrows
    BY <1>1 DEF HandlerReturns, HandlerThrows
  <2>3. ServerStep
    BY <2>1, <2>2 DEF Next
  <2> QED
    BY <1>1, <1>2, <2>3 DEF ServerStep, CloseListener, ClosePeersOfListener, ListenSocket, ListenFailed,
       ListenClosesPeers, ListenFinish, ClosePeersStep, ClosePeersNext, BroadcastStep, BroadcastEnd,
       WriteReport, In, collVars
<1>5. Top.index >= Len(owned)
  BY <1>4 DEF ClosePeersEnd
<1>6. \A i \in DOMAIN owned : i <= Top.index => Done(owned[i], open, fresh)
  <2>1. Len(stack) \in DOMAIN stack
    BY <1>1
  <2>2. Len(stack) \in Loops(stack)
    BY <1>1, <2>1 DEF Loops, Top
  <2> QED
    BY <2>2 DEF LoopInv, LoopOK, LoopFrameOK, Top
<1>7. \A i \in DOMAIN owned : i <= Top.index
  <2>1. Top.index \in Nat
    BY <1>1, InvFacts DEF Frames
  <2> QED
    BY <1>1, <1>5, <2>1
<1> QED
  BY <1>6, <1>7 DEF Elements, Done

\* When close_owned_peers returns it has closed every peer it found, whatever user
\* code accepted, closed, broadcast and threw meanwhile and however deep it reentered
\* the server, if it retired at most one peer in each turn of the loop.
THEOREM CloseAllTheorem ==
  ASSUME PerTurn <= 1 PROVE Spec => CloseAllComplete
<1>1. Init => PeerInv /\ LoopInv
  <2> SUFFICES ASSUME Init PROVE LoopInv
    BY InitPeerInv
  <2>1. Loops(stack) = {}
    BY DEF Init, Loops
  <2> QED
    BY <2>1 DEF LoopInv, LoopOK
<1>2. PeerInv /\ LoopInv /\ [Next]_vars => (PeerInv /\ LoopInv)'
  BY PeerInvStep, LoopInvStep
<1>3. PeerInv /\ LoopInv /\ [Next]_vars
      => [In("close_all", "loop") /\ ~closing' => \A p \in Elements(owned) \ fresh : p \notin open]_vars
  BY LoopEndsDone
<1> QED
  BY <1>1, <1>2, <1>3, PTL DEF Spec, CloseAllComplete
==============================================================================
