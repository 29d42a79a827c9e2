--------------------------- MODULE WriteQueueProofs ---------------------------
(***************************************************************************)
(* For every number of producers, every payload size, limit, budget and    *)
(* interleaving: the queue of WriteQueue keeps its types, its bound, its   *)
(* bookkeeping and its order, and implements the stream of OutputStream.   *)
(***************************************************************************)
EXTENDS WriteQueue, SequenceTheorems, WellFoundedInduction, TLAPS

\* A sequence literal of consecutive bytes is a sequence of the expected length.
LEMMA PayloadType ==
    ASSUME accepted \in Nat, NEW n \in Nat
    PROVE  /\ Payload(n) \in Seq(Nat)
           /\ Len(Payload(n)) = n
           /\ \A k \in 1..n : Payload(n)[k] = accepted + k
BY DEF Payload

\* Sequences of chunks; kept folded in most steps.
Chunks == Seq(Seq(Nat))

\* p holds the n bytes that follow byte a.
IsPayload(p, n, a) == Len(p) = n /\ \A k \in 1..n : p[k] = a + k

\* Facts about the first byte and the length of every chunk.
LEMMA ChunkFacts ==
    ASSUME NEW s \in Chunks, NEW off, NEW b, NEW a \in Nat, Holds(s, off, b, a)
    PROVE  \A i \in 1..Len(s) : /\ s[i] \in Seq(Nat) /\ Len(s[i]) \in Nat \ {0}
                                /\ s[i][1] \in Nat
                                /\ s[i][1] + Len(s[i]) <= a + 1
<1> SUFFICES ASSUME NEW i \in 1..Len(s)
             PROVE  /\ s[i] \in Seq(Nat) /\ Len(s[i]) \in Nat \ {0} /\ s[i][1] \in Nat
                    /\ s[i][1] + Len(s[i]) <= a + 1
  OBVIOUS
<1>1. \A k \in 1..Len(s) : s[k] \in Seq(Nat) /\ Len(s[k]) \in Nat \ {0} /\ s[k][1] \in Nat
  <2> SUFFICES ASSUME NEW k \in 1..Len(s)
               PROVE s[k] \in Seq(Nat) /\ Len(s[k]) \in Nat \ {0} /\ s[k][1] \in Nat
    OBVIOUS
  <2>1. s[k] \in Seq(Nat)
    BY DEF Chunks
  <2>2. Len(s[k]) \in Nat /\ Len(s[k]) >= 1
    BY <2>1 DEF Holds
  <2> QED BY <2>1, <2>2
<1>2. Len(s) \in Nat /\ Len(s) # 0 /\ Len(s) \in 1..Len(s)
  BY DEF Chunks
<1>3. s[Len(s)][1] + Len(s[Len(s)]) = a + 1
  BY <1>2 DEF Holds
<1>4. i < Len(s) => s[i][1] + Len(s[i]) <= s[Len(s)][1]
  BY <1>2 DEF Holds
<1>5. PICK x \in Nat, l \in Nat, y \in Nat, h \in Nat :
         x = s[i][1] /\ l = Len(s[i]) /\ y = s[Len(s)][1] /\ h = Len(s[Len(s)])
  BY <1>1, <1>2
<1>6. y + h = a + 1 /\ (i < Len(s) => x + l <= y)
  BY <1>3, <1>4, <1>5
<1>7. x + l <= a + 1
  <2>1. CASE i < Len(s)
    BY <2>1, <1>6
  <2>2. CASE i = Len(s)
    BY <2>2, <1>5, <1>6
  <2> QED BY <2>1, <2>2, <1>2
<1> QED BY <1>1, <1>5, <1>7

\* A new chunk at the back.
LEMMA AppendKeeps ==
    ASSUME NEW s \in Chunks, NEW off \in Nat, NEW b \in Nat, NEW a \in Nat,
           Holds(s, off, b, a), NEW n \in Nat, n # 0,
           NEW p \in Seq(Nat), IsPayload(p, n, a)
    PROVE  Holds(Append(s, p), off, b + n, a + n)
<1>1. PICK L : L \in Nat /\ L = Len(s)
  <2>1. Len(s) \in Nat
    BY DEF Chunks
  <2> QED BY <2>1
<1>2. PICK t : t \in Chunks /\ t = Append(s, p)
  <2>1. Append(s, p) \in Chunks
    BY AppendProperties DEF Chunks
  <2> QED BY <2>1
<1>3. Len(t) = L + 1 /\ t[L + 1] = p /\ \A i \in 1..L : t[i] = s[i]
  BY <1>1, <1>2, AppendProperties DEF Chunks
<1>4. p[1] = a + 1 /\ Len(p) = n
  BY DEF IsPayload
<1>5. \A i \in 1..L : /\ s[i] \in Seq(Nat) /\ Len(s[i]) \in Nat \ {0} /\ s[i][1] \in Nat
                      /\ s[i][1] + Len(s[i]) <= a + 1
  BY <1>1, ChunkFacts
<1>6. ASSUME NEW i \in 1..(L + 1)
      PROVE Len(t[i]) >= 1 /\ \A j \in 1..Len(t[i]) : t[i][j] = t[i][1] + j - 1
  <2>1. CASE i = L + 1
    <3>1. \A j \in 1..n : p[j] = p[1] + j - 1
      BY <1>4 DEF IsPayload
    <3> QED BY <3>1, <2>1, <1>3, <1>4
  <2>2. CASE i \in 1..L
    <3>1. t[i] = s[i]
      BY <2>2, <1>3
    <3>2. Len(s[i]) >= 1 /\ \A j \in 1..Len(s[i]) : s[i][j] = s[i][1] + j - 1
      BY <2>2, <1>1 DEF Holds
    <3> QED BY <3>1, <3>2
  <2> QED BY <2>1, <2>2, <1>1
<1>7. ASSUME NEW i \in 1..L PROVE t[i + 1][1] = t[i][1] + Len(t[i])
  <2>1. CASE i = L
    <3>1. s[L][1] + Len(s[L]) = a + 1
      BY <2>1, <1>1 DEF Holds
    <3> QED BY <2>1, <3>1, <1>3, <1>4
  <2>2. CASE i \in 1..(L - 1)
    <3>1. i + 1 \in 1..L
      BY <2>2, <1>1
    <3>2. s[i + 1][1] = s[i][1] + Len(s[i])
      BY <2>2, <1>1 DEF Holds
    <3> QED BY <3>1, <3>2, <1>3
  <2> QED BY <2>1, <2>2, <1>1
<1>8. ASSUME NEW i \in 1..(L + 1), NEW j \in 1..(L + 1), i < j
      PROVE t[i][1] + Len(t[i]) <= t[j][1]
  <2>0. i \in 1..L
    BY <1>1, <1>8
  <2>1. CASE j = L + 1
    BY <2>0, <2>1, <1>3, <1>4, <1>5
  <2>2. CASE j \in 1..L
    <3>1. s[i][1] + Len(s[i]) <= s[j][1]
      BY <2>0, <2>2, <1>1, <1>8 DEF Holds
    <3> QED BY <2>0, <2>2, <3>1, <1>3
  <2>3. j = L + 1 \/ j \in 1..L
    BY <1>1
  <2> QED BY <2>1, <2>2, <2>3
<1>9. off < Len(t[1]) /\ t[1][1] + off = (a + n) + 1 - (b + n)
  <2>1. CASE L = 0
    <3>1. b = 0 /\ off = 0
      BY <2>1, <1>1 DEF Holds
    <3>2. t[1] = p
      BY <2>1, <1>3
    <3> QED BY <3>1, <3>2, <1>4
  <2>2. CASE L # 0
    <3>1. off < Len(s[1]) /\ s[1][1] + off = a + 1 - b
      BY <2>2, <1>1 DEF Holds
    <3>2. 1 \in 1..L /\ t[1] = s[1]
      BY <2>2, <1>1, <1>3
    <3>3. s[1][1] \in Nat
      BY <3>2, <1>5
    <3> QED BY <3>1, <3>2, <3>3
  <2> QED BY <2>1, <2>2
<1>10. t[L + 1][1] + Len(t[L + 1]) = (a + n) + 1
  <2>1. t[L + 1][1] = a + 1 /\ Len(t[L + 1]) = n
    BY <1>3, <1>4
  <2> QED BY <2>1
<1>11. Holds(t, off, b + n, a + n)
  <2>1. Len(t) = L + 1 /\ Len(t) # 0 /\ Len(t) - 1 = L
    BY <1>1, <1>3
  <2> QED BY <2>1, <1>6, <1>7, <1>8, <1>9, <1>10 DEF Holds
<1> QED BY <1>2, <1>11

\* A payload that joins the last chunk.
LEMMA ExtendKeeps ==
    ASSUME NEW s \in Chunks, NEW off \in Nat, NEW b \in Nat, NEW a \in Nat,
           Holds(s, off, b, a), s # <<>>, NEW n \in Nat, n # 0,
           NEW p \in Seq(Nat), IsPayload(p, n, a)
    PROVE  /\ [s EXCEPT ![Len(s)] = @ \o p] \in Chunks
           /\ Holds([s EXCEPT ![Len(s)] = @ \o p], off, b + n, a + n)
<1>1. PICK L \in Nat : L = Len(s) /\ L # 0
  BY EmptySeq DEF Chunks
<1>5. \A i \in 1..L : /\ s[i] \in Seq(Nat) /\ Len(s[i]) \in Nat \ {0} /\ s[i][1] \in Nat
                      /\ s[i][1] + Len(s[i]) <= a + 1
  BY <1>1, ChunkFacts
<1>2. PICK q : /\ q \in Seq(Nat) /\ q = s[L] \o p
  <2>1. s[L] \o p \in Seq(Nat)
    BY <1>1, <1>5, ConcatProperties
  <2> QED BY <2>1
<1>3. PICK m \in Nat : m # 0 /\ m = Len(s[L])
  <2>1. L \in 1..L
    BY <1>1
  <2> QED BY <2>1, <1>5
<1>4. /\ Len(q) = m + n
      /\ \A j \in 1..(m + n) : q[j] = IF j <= m THEN s[L][j] ELSE p[j - m]
  <2>1. s[L] \in Seq(Nat)
    BY <1>1, <1>5
  <2>2. /\ Len(s[L] \o p) = Len(s[L]) + Len(p)
        /\ \A j \in 1..(Len(s[L]) + Len(p)) : (s[L] \o p)[j] =
              IF j <= Len(s[L]) THEN s[L][j] ELSE p[j - Len(s[L])]
    BY <2>1, ConcatProperties
  <2> QED BY <2>2, <1>2, <1>3 DEF IsPayload
<1>6. PICK t : t = [s EXCEPT ![L] = q]
  OBVIOUS
<1>7. /\ t \in Chunks /\ Len(t) = L /\ t[L] = q
      /\ \A i \in 1..(L - 1) : t[i] = s[i]
  <2>1. s \in Seq(Seq(Nat)) /\ L \in 1..Len(s) /\ q \in Seq(Nat)
    BY <1>1, <1>2 DEF Chunks
  <2>2. /\ t \in Seq(Seq(Nat)) /\ Len(t) = Len(s)
        /\ \A j \in 1..Len(s) : t[j] = IF j = L THEN q ELSE s[j]
    BY SMTT(30), <2>1, <1>6, ExceptSeq
  <2>3. t[L] = q
    BY <2>1, <2>2
  <2>4. \A i \in 1..(L - 1) : i \in 1..Len(s) /\ i # L
    BY <1>1
  <2> QED BY <2>2, <2>3, <2>4, <1>1 DEF Chunks
<1>8. s[L][1] + m = a + 1 /\ s[L][1] \in Nat
  BY <1>1, <1>3, <1>5 DEF Holds
<1>9. q[1] = s[L][1]
  <2>1. 1 \in 1..(m + n) /\ 1 <= m
    BY <1>3
  <2> QED BY <2>1, <1>4
<1>10. ASSUME NEW j \in 1..(m + n) PROVE q[j] = q[1] + j - 1
  <2>1. CASE j <= m
    <3>1. q[j] = s[L][j] /\ j \in 1..m
      BY <2>1, <1>3, <1>4
    <3>2. s[L][j] = s[L][1] + j - 1
      BY <3>1, <1>1, <1>3 DEF Holds
    <3> QED BY <3>1, <3>2, <1>9
  <2>2. CASE j > m
    <3>1. q[j] = p[j - m] /\ j - m \in 1..n
      BY <2>2, <1>3, <1>4
    <3>2. p[j - m] = a + (j - m)
      BY <3>1 DEF IsPayload
    <3>3. PICK x \in Nat : x = s[L][1] /\ a + 1 = x + m
      BY <1>8
    <3>4. a + 1 = x + m /\ j \in Int
      BY <3>3
    <3>5. a + (j - m) = x + j - 1
      BY <3>4
    <3> QED BY <3>1, <3>2, <3>3, <3>5, <1>9
  <2> QED BY <2>1, <2>2, <1>3
<1>11. \A i \in 1..L : t[i][1] = s[i][1]
  <2> SUFFICES ASSUME NEW i \in 1..L PROVE t[i][1] = s[i][1]
    OBVIOUS
  <2>1. CASE i = L
    BY <2>1, <1>7, <1>9
  <2>2. CASE i \in 1..(L - 1)
    BY <2>2, <1>7
  <2>3. i = L \/ i \in 1..(L - 1)
    BY <1>1
  <2> QED BY <2>1, <2>2, <2>3
<1>12. ASSUME NEW i \in 1..L
       PROVE Len(t[i]) >= 1 /\ \A j \in 1..Len(t[i]) : t[i][j] = t[i][1] + j - 1
  <2>1. CASE i = L
    <3>1. t[i] = q /\ Len(t[i]) = m + n /\ m + n >= 1
      BY <2>1, <1>3, <1>4, <1>7
    <3> QED BY <3>1, <1>10
  <2>2. CASE i # L
    <3>1. t[i] = s[i]
      BY <2>2, <1>1, <1>7
    <3>2. Len(s[i]) >= 1 /\ \A j \in 1..Len(s[i]) : s[i][j] = s[i][1] + j - 1
      BY <1>1 DEF Holds
    <3> QED BY <3>1, <3>2
  <2> QED BY <2>1, <2>2
<1>13. ASSUME NEW i \in 1..(L - 1) PROVE t[i + 1][1] = t[i][1] + Len(t[i])
  <2>1. s[i + 1][1] = s[i][1] + Len(s[i])
    BY <1>1 DEF Holds
  <2>2. i + 1 \in 1..L /\ t[i] = s[i]
    BY <1>1, <1>7
  <2> QED BY <2>1, <2>2, <1>11
<1>14. ASSUME NEW i \in 1..L, NEW j \in 1..L, i < j
       PROVE t[i][1] + Len(t[i]) <= t[j][1]
  <2>1. s[i][1] + Len(s[i]) <= s[j][1]
    BY <1>1, <1>14 DEF Holds
  <2>2. t[i] = s[i]
    BY <1>1, <1>7, <1>14
  <2> QED BY <2>1, <2>2, <1>11
<1>15. off < Len(t[1]) /\ t[1][1] + off = (a + n) + 1 - (b + n)
  <2>1. off < Len(s[1]) /\ s[1][1] + off = a + 1 - b
    BY <1>1 DEF Holds
  <2>2. Len(t[1]) \in Nat /\ Len(t[1]) >= Len(s[1]) /\ Len(s[1]) \in Nat
    <3>1. CASE L = 1
      BY <3>1, <1>3, <1>4, <1>7
    <3>2. CASE L # 1
      <4>1. 1 \in 1..(L - 1) /\ 1 \in 1..L
        BY <3>2, <1>1
      <4> QED BY <4>1, <1>5, <1>7
    <3> QED BY <3>1, <3>2
  <2>3. t[1][1] = s[1][1] /\ s[1][1] \in Nat
    BY <1>1, <1>5, <1>11
  <2> QED BY <2>1, <2>2, <2>3
<1>16. t[L][1] + Len(t[L]) = (a + n) + 1
  <2>1. t[L][1] = s[L][1] /\ Len(t[L]) = m + n
    BY <1>4, <1>7, <1>9
  <2>2. PICK x \in Nat : x = s[L][1] /\ x + m = a + 1
    BY <1>8
  <2>3. x + m = a + 1
    BY <2>2
  <2>4. x + (m + n) = (a + n) + 1
    BY <2>3
  <2> QED BY <2>1, <2>2, <2>4
<1>17. Holds(t, off, b + n, a + n)
  BY <1>1, <1>7, <1>12, <1>13, <1>14, <1>15, <1>16 DEF Holds
<1>18. t = [s EXCEPT ![Len(s)] = @ \o p]
  BY <1>1, <1>2, <1>6
<1> QED BY <1>7, <1>17, <1>18

\* A send that takes part of the front chunk.
LEMMA AdvanceKeeps ==
    ASSUME NEW s \in Chunks, NEW off \in Nat, NEW b \in Nat, NEW a \in Nat,
           Holds(s, off, b, a), s # <<>>, NEW n \in Nat, off + n < Len(s[1])
    PROVE  b - n \in Nat /\ Holds(s, off + n, b - n, a)
<1>1. Len(s) \in Nat /\ Len(s) # 0 /\ 1 \in 1..Len(s)
  BY EmptySeq DEF Chunks
<1>2. /\ Len(s[1]) \in Nat /\ s[1][1] \in Nat /\ s[1][1] + Len(s[1]) <= a + 1
  BY <1>1, ChunkFacts
<1>3. s[1][1] + off = a + 1 - b
  BY <1>1 DEF Holds
<1>4. PICK x \in Nat, l \in Nat : x = s[1][1] /\ l = Len(s[1])
  BY <1>2
<1>5. x + off = a + 1 - b /\ x + l <= a + 1 /\ off + n < l
  BY <1>2, <1>3, <1>4
<1>6. b - n \in Nat
  BY <1>5
<1>7. x + (off + n) = a + 1 - (b - n)
  BY <1>5
<1> QED BY <1>1, <1>4, <1>6, <1>7 DEF Holds

\* A send that takes the rest of the front chunk: the chunk is popped.
LEMMA PopKeeps ==
    ASSUME NEW s \in Chunks, NEW off \in Nat, NEW b \in Nat, NEW a \in Nat,
           Holds(s, off, b, a), s # <<>>, NEW n \in Nat, off + n = Len(s[1])
    PROVE  /\ Tail(s) \in Chunks /\ b - n \in Nat
           /\ Holds(Tail(s), 0, b - n, a)
<1>1. PICK L \in Nat : L = Len(s) /\ L # 0
  BY EmptySeq DEF Chunks
<1>2. PICK t : t = Tail(s)
  OBVIOUS
<1>3. t \in Chunks /\ Len(t) = L - 1 /\ \A i \in 1..(L - 1) : t[i] = s[i + 1]
  BY <1>1, <1>2, HeadTailProperties DEF Chunks
<1>4. \A i \in 1..L : /\ s[i] \in Seq(Nat) /\ Len(s[i]) \in Nat \ {0} /\ s[i][1] \in Nat
                      /\ s[i][1] + Len(s[i]) <= a + 1
  BY <1>1, ChunkFacts
<1>5. s[1][1] + off = a + 1 - b /\ s[L][1] + Len(s[L]) = a + 1
  BY <1>1 DEF Holds
<1>6. 1 \in 1..L /\ Len(s[1]) \in Nat /\ s[1][1] \in Nat /\ s[1][1] + Len(s[1]) <= a + 1
  BY <1>1, <1>4
<1>7. b - n \in Nat /\ s[1][1] + Len(s[1]) = a + 1 - (b - n)
  <2>1. PICK x \in Nat, l \in Nat : x = s[1][1] /\ l = Len(s[1])
    BY <1>6
  <2>2. x + off = a + 1 - b /\ x + l <= a + 1 /\ off + n = l
    BY <2>1, <1>5, <1>6
  <2>3. b - n \in Nat /\ x + l = a + 1 - (b - n)
    BY <2>2
  <2> QED BY <2>1, <2>3
<1>8. ASSUME NEW i \in 1..(L - 1)
      PROVE Len(t[i]) >= 1 /\ \A j \in 1..Len(t[i]) : t[i][j] = t[i][1] + j - 1
  <2>1. i + 1 \in 1..L /\ t[i] = s[i + 1]
    BY <1>1, <1>3
  <2>2. /\ Len(s[i + 1]) >= 1
        /\ \A j \in 1..Len(s[i + 1]) : s[i + 1][j] = s[i + 1][1] + j - 1
    BY <2>1, <1>1 DEF Holds
  <2> QED BY <2>1, <2>2
<1>9. ASSUME NEW i \in 1..(L - 2) PROVE t[i + 1][1] = t[i][1] + Len(t[i])
  <2>1. /\ i \in 1..(L - 1) /\ i + 1 \in 1..(L - 1)
    BY <1>1
  <2>2. t[i] = s[i + 1] /\ t[i + 1] = s[(i + 1) + 1]
    BY <2>1, <1>3
  <2>3. s[(i + 1) + 1][1] = s[i + 1][1] + Len(s[i + 1])
    BY <2>1, <1>1 DEF Holds
  <2> QED BY <2>2, <2>3
<1>10. ASSUME NEW i \in 1..(L - 1), NEW j \in 1..(L - 1), i < j
       PROVE t[i][1] + Len(t[i]) <= t[j][1]
  <2>1. i + 1 \in 1..L /\ j + 1 \in 1..L /\ i + 1 < j + 1
    BY <1>1, <1>10
  <2>2. s[i + 1][1] + Len(s[i + 1]) <= s[j + 1][1]
    BY <2>1, <1>1 DEF Holds
  <2> QED BY <2>2, <1>3
<1>11. L - 1 = 0 => b - n = 0
  <2> SUFFICES ASSUME L - 1 = 0 PROVE b - n = 0
    OBVIOUS
  <2>0. L = 1
    BY <1>1
  <2>1. s[1][1] + Len(s[1]) = a + 1
    BY <2>0, <1>5
  <2>2. a + 1 = a + 1 - (b - n)
    BY <2>1, <1>7
  <2> QED BY <2>2
<1>12. L - 1 # 0 => /\ 0 < Len(t[1])
                    /\ t[L - 1][1] + Len(t[L - 1]) = a + 1
                    /\ t[1][1] + 0 = a + 1 - (b - n)
  <2> SUFFICES ASSUME L - 1 # 0
               PROVE  /\ 0 < Len(t[1])
                      /\ t[L - 1][1] + Len(t[L - 1]) = a + 1
                      /\ t[1][1] + 0 = a + 1 - (b - n)
    OBVIOUS
  <2>1. 1 \in 1..(L - 1) /\ L - 1 \in 1..(L - 1) /\ (L - 1) + 1 = L /\ 2 \in 1..L /\ 1 + 1 = 2
    BY <1>1
  <2>2. t[1] = s[2] /\ t[L - 1] = s[L]
    BY <2>1, <1>3
  <2>3. s[2][1] = s[1][1] + Len(s[1])
    BY <2>1, <1>1 DEF Holds
  <2>4. Len(s[2]) \in Nat \ {0} /\ s[2][1] \in Nat
    BY <2>1, <1>4
  <2>5. PICK x \in Nat, l \in Nat : x = s[2][1] /\ l = Len(s[2]) /\ l # 0
    BY <2>4
  <2>6. x = a + 1 - (b - n) /\ x + 0 = x /\ 0 < l
    <3>1. x = a + 1 - (b - n)
      BY <2>3, <2>5, <1>7
    <3>2. x + 0 = x /\ 0 < l
      BY <2>5
    <3> QED BY <3>1, <3>2
  <2>7. t[1][1] + 0 = a + 1 - (b - n) /\ 0 < Len(t[1])
    BY <2>2, <2>5, <2>6
  <2> QED BY <2>2, <2>7, <1>5
<1>13. Holds(t, 0, b - n, a)
  <2>1. Len(t) = L - 1 /\ Len(t) - 1 = L - 2
    BY <1>1, <1>3
  <2> QED BY <2>1, <1>8, <1>9, <1>10, <1>11, <1>12 DEF Holds
<1> QED BY <1>2, <1>3, <1>7, <1>13

-------------------------------------------------------------------------------
(* Types, the bound and the bookkeeping of the queue.                      *)

\* Inductive: the bound needs the types, the types of bytes and flush.first
\* need the bookkeeping.
QInv == TypeOK /\ BytesWithinLimit /\ QueueConsistent

\* Steps that leave the queue alone keep its part of the invariant.
LEMMA QueueFrame ==
    ASSUME QInv, UNCHANGED <<chunks, front_offset, bytes, limit, accepted>>
    PROVE  BytesWithinLimit' /\ QueueConsistent'
BY DEF QInv, BytesWithinLimit, QueueConsistent

\* A cleared queue satisfies its part of the invariant.
LEMMA ClearKeeps ==
    ASSUME QInv, ClearQueue, UNCHANGED <<limit, accepted>>
    PROVE  /\ BytesWithinLimit' /\ QueueConsistent'
           /\ chunks' \in Seq(Seq(Nat)) /\ front_offset' \in Nat /\ bytes' \in Nat
<1>1. chunks' = <<>> /\ front_offset' = 0 /\ bytes' = 0 /\ limit' = limit
  BY DEF ClearQueue
<1>2. chunks' \in Seq(Seq(Nat)) /\ Len(chunks') = 0
  BY <1>1
<1>3. BytesWithinLimit'
  BY <1>1 DEF BytesWithinLimit, QInv, TypeOK
<1>4. QueueConsistent'
  BY <1>1, <1>2 DEF QueueConsistent, Holds
<1> QED BY <1>1, <1>2, <1>3, <1>4

\* queue_write under the mutex.
LEMMA EnqueueKeeps ==
    ASSUME QInv, NEW n \in Nat, n # 0, n <= SizeSub(limit, bytes),
           chunks' = Store(n), bytes' = bytes + n, accepted' = accepted + n,
           UNCHANGED <<front_offset, limit>>
    PROVE  /\ BytesWithinLimit' /\ QueueConsistent'
           /\ chunks' \in Seq(Seq(Nat)) /\ bytes' \in Nat
<1>1. /\ chunks \in Seq(Seq(Nat)) /\ accepted \in Nat /\ bytes \in Nat /\ limit \in Nat
      /\ front_offset \in Nat /\ bytes <= limit
      /\ Holds(chunks, front_offset, bytes, accepted)
  BY DEF QInv, TypeOK, BytesWithinLimit, QueueConsistent
<1>2. BytesWithinLimit' /\ bytes' \in Nat
  BY <1>1 DEF BytesWithinLimit, SizeSub
<1>3. Payload(n) \in Seq(Nat) /\ IsPayload(Payload(n), n, accepted)
  BY <1>1, PayloadType DEF IsPayload
<1>4. CASE Coalesces(n)
  <2>1. chunks # <<>> /\ chunks' = [chunks EXCEPT ![Len(chunks)] = @ \o Payload(n)]
    BY <1>4 DEF Store, Coalesces
  <2>2. chunks' \in Chunks /\ Holds(chunks', front_offset, bytes + n, accepted + n)
    <3>1. chunks \in Chunks
      BY <1>1 DEF Chunks
    <3>2. PICK p \in Seq(Nat) : p = Payload(n) /\ IsPayload(p, n, accepted)
      BY <1>3
    <3>3. /\ [chunks EXCEPT ![Len(chunks)] = @ \o p] \in Chunks
          /\ Holds([chunks EXCEPT ![Len(chunks)] = @ \o p], front_offset, bytes + n, accepted + n)
      <4>1. chunks # <<>> /\ accepted \in Nat /\ bytes \in Nat /\ front_offset \in Nat
        BY <1>1, <2>1
      <4>2. Holds(chunks, front_offset, bytes, accepted) /\ IsPayload(p, n, accepted)
        BY <1>1, <3>2
      <4> QED BY <4>1, <4>2, <3>1, <3>2, ExtendKeeps
    <3> QED BY <2>1, <3>2, <3>3
  <2> QED BY <2>2, <1>2 DEF QueueConsistent, Chunks
<1>5. CASE ~Coalesces(n)
  <2>1. chunks' = Append(chunks, Payload(n))
    BY <1>5 DEF Store
  <2>2. Holds(chunks', front_offset, bytes + n, accepted + n)
    BY <2>1, <1>1, <1>3, AppendKeeps DEF Chunks
  <2>3. chunks' \in Seq(Seq(Nat))
    BY <2>1, <1>1, <1>3, AppendProperties
  <2> QED BY <2>2, <2>3, <1>2 DEF QueueConsistent
<1> QED BY <1>4, <1>5

\* The request of a flush stays inside the front chunk.
LEMMA RequestFits ==
    ASSUME QInv, Looping
    PROVE  /\ chunks # <<>> /\ Len(chunks[1]) \in Nat /\ front_offset < Len(chunks[1])
           /\ chunks[1] \in Seq(Nat) /\ Requested \in Nat
           /\ Requested <= Len(chunks[1]) - front_offset
           /\ Requested <= Budget - flush.sent
<1>1. /\ chunks \in Chunks /\ bytes # 0 /\ bytes \in Nat /\ accepted \in Nat
      /\ front_offset \in Nat /\ flush.sent \in Nat /\ flush.sent < Budget
      /\ Holds(chunks, front_offset, bytes, accepted)
  BY DEF QInv, TypeOK, QueueConsistent, Looping, Chunks
<1>2. Len(chunks) # 0 /\ Len(chunks) \in Nat /\ 1 \in 1..Len(chunks)
  BY <1>1 DEF Holds, Chunks
<1>3. chunks # <<>>
  BY <1>2
<1>4. front_offset < Len(chunks[1])
  BY <1>1, <1>2 DEF Holds
<1>5. chunks[1] \in Seq(Nat) /\ Len(chunks[1]) \in Nat
  BY <1>1, <1>2, ChunkFacts
<1>6. Budget \in Nat /\ IntMax \in Nat
  BY SizesAssumption
<1>7. /\ Requested \in Nat /\ Requested <= Len(chunks[1]) - front_offset
      /\ Requested <= Budget - flush.sent
  <2>1. Len(chunks[1]) - front_offset \in Nat
    BY <1>1, <1>4, <1>5
  <2>2. Budget - flush.sent \in Nat
    BY <1>1, <1>6
  <2>3. \A x, y, z \in Nat : /\ Least(Least(x, y), z) \in Nat
                            /\ Least(Least(x, y), z) <= x /\ Least(Least(x, y), z) <= y
    BY DEF Least
  <2> QED BY <2>1, <2>2, <2>3, <1>6 DEF Requested
<1> QED BY <1>3, <1>4, <1>5, <1>7

\* A successful send.
LEMMA SentKeeps ==
    ASSUME QInv, NEW n \in Nat, FlushSent(n)
    PROVE  /\ BytesWithinLimit' /\ QueueConsistent'
           /\ chunks' \in Seq(Seq(Nat)) /\ front_offset' \in Nat /\ bytes' \in Nat
<1>1. /\ chunks \in Chunks /\ bytes \in Nat /\ accepted \in Nat /\ limit \in Nat
      /\ front_offset \in Nat /\ bytes <= limit
      /\ Holds(chunks, front_offset, bytes, accepted)
  BY DEF QInv, TypeOK, BytesWithinLimit, QueueConsistent, Chunks
<1>2. /\ chunks # <<>> /\ Len(chunks[1]) \in Nat /\ front_offset < Len(chunks[1])
      /\ Requested \in Nat /\ Requested <= Len(chunks[1]) - front_offset
  BY RequestFits DEF FlushSent
<1>3. /\ n <= Requested /\ bytes' = bytes - n /\ accepted' = accepted /\ limit' = limit
  BY <1>2 DEF FlushSent
<1>4. CASE front_offset + n = Len(chunks[1])
  <2>1. chunks' = Tail(chunks) /\ front_offset' = 0
    BY <1>4 DEF FlushSent
  <2>2. chunks' \in Chunks /\ bytes - n \in Nat /\ Holds(chunks', 0, bytes - n, accepted)
    BY <2>1, <1>1, <1>2, <1>4, PopKeeps
  <2>3. bytes - n <= limit
    BY <2>2, <1>1
  <2> QED BY <2>1, <2>2, <2>3, <1>3 DEF BytesWithinLimit, QueueConsistent, Chunks
<1>5. CASE front_offset + n # Len(chunks[1])
  <2>1. chunks' = chunks /\ front_offset' = front_offset + n
    BY <1>5 DEF FlushSent
  <2>2. front_offset + n < Len(chunks[1])
    BY <1>1, <1>2, <1>3, <1>5
  <2>3. bytes - n \in Nat /\ Holds(chunks, front_offset + n, bytes - n, accepted)
    BY <2>2, <1>1, <1>2, AdvanceKeeps
  <2>4. bytes - n <= limit /\ front_offset + n \in Nat
    BY <2>3, <1>1
  <2> QED BY <2>1, <2>3, <2>4, <1>1, <1>3 DEF BytesWithinLimit, QueueConsistent, Chunks
<1> QED BY <1>4, <1>5

\* The places a call of the polling thread returns to.
Returns == {"on_close", "connect", "failed"}

\* A connect() waits on stack s for its close() to return.
HasConnect(s) == \E i \in DOMAIN s : s[i] = "connect"

\* A call puts its return place on top of the stack.
LEMMA PushFacts ==
    ASSUME NEW s \in Seq(Returns), NEW r \in Returns
    PROVE  /\ <<r>> \o s \in Seq(Returns)
           /\ HasConnect(<<r>> \o s) => r = "connect" \/ HasConnect(s)
<1>1. <<r>> \in Seq(Returns) /\ Len(<<r>>) = 1
  OBVIOUS
<1>2. PICK t : t = <<r>> \o s
  OBVIOUS
<1>3. /\ t \in Seq(Returns) /\ Len(t) = 1 + Len(s)
      /\ \A i \in 1..(1 + Len(s)) : t[i] = IF i <= 1 THEN <<r>>[i] ELSE s[i - 1]
  BY <1>1, <1>2, ConcatProperties
<1>4. DOMAIN t = 1..(1 + Len(s)) /\ DOMAIN s = 1..Len(s) /\ Len(s) \in Nat
  BY <1>3, LenProperties
<1>5. ASSUME NEW i \in DOMAIN t, t[i] = "connect" PROVE r = "connect" \/ HasConnect(s)
  <2>1. CASE i = 1
    BY <2>1, <1>3, <1>4, <1>5
  <2>2. CASE i # 1
    <3>1. i - 1 \in DOMAIN s /\ s[i - 1] = "connect"
      BY <2>2, <1>3, <1>4, <1>5
    <3> QED BY <3>1 DEF HasConnect
  <2> QED BY <2>1, <2>2
<1> QED BY <1>2, <1>3, <1>5 DEF HasConnect

\* A call made by the application: its return place.
LEMMA CallerFacts ==
    ASSUME QInv
    PROVE  /\ Caller \in Seq(Returns) /\ (HasConnect(Caller) => HasConnect(stack))
           /\ <<"connect">> \o Caller \in Seq(Returns)
<1>1. stack \in Seq(Returns)
  BY DEF QInv, TypeOK, Returns
<1>2. "on_close" \in Returns /\ "connect" \in Returns /\ "on_close" # "connect"
  BY DEF Returns
<1>3. CASE pc = "idle"
  <2>1. Caller = <<>> /\ Caller \in Seq(Returns) /\ DOMAIN Caller = {}
    BY <1>3 DEF Caller
  <2> QED BY <2>1, <1>2, PushFacts DEF HasConnect
<1>4. CASE pc # "idle"
  <2>1. Caller = <<"on_close">> \o stack
    BY <1>4 DEF Caller
  <2>2. Caller \in Seq(Returns) /\ (HasConnect(Caller) => HasConnect(stack))
    BY <2>1, <1>1, <1>2, PushFacts
  <2> QED BY <2>2, <1>2, PushFacts
<1> QED BY <1>3, <1>4

\* A call returns to the top of the stack.
LEMMA ReturnFacts ==
    ASSUME QInv, Return
    PROVE  /\ stack' \in Seq(Returns)
           /\ pc' \in {"idle", "on_close", "connect", "failed"}
           /\ pc' = "connect" \/ HasConnect(stack') => HasConnect(stack)
<1>1. stack \in Seq(Returns)
  BY DEF QInv, TypeOK, Returns
<1>2. CASE stack = <<>>
  <2>1. pc' = "idle" /\ stack' = <<>> /\ stack' \in Seq(Returns) /\ DOMAIN stack' = {}
    BY <1>2 DEF Return
  <2> QED BY <2>1 DEF HasConnect
<1>3. CASE stack # <<>>
  <2>1. pc' = Head(stack) /\ stack' = Tail(stack)
    BY <1>3 DEF Return
  <2>2. /\ Head(stack) \in Returns /\ Tail(stack) \in Seq(Returns)
        /\ Len(Tail(stack)) = Len(stack) - 1
        /\ \A i \in 1..Len(Tail(stack)) : Tail(stack)[i] = stack[i + 1]
    BY <1>1, <1>3, HeadTailProperties
  <2>3. /\ DOMAIN stack = 1..Len(stack) /\ DOMAIN Tail(stack) = 1..Len(Tail(stack))
        /\ Len(stack) \in Nat /\ Len(stack) # 0 /\ Head(stack) = stack[1]
    BY <1>1, <1>3, <2>2, LenProperties, EmptySeq
  <2>4. Head(stack) = "connect" => HasConnect(stack)
    <3>1. 1 \in DOMAIN stack
      BY <2>3
    <3> QED BY <2>3, <3>1 DEF HasConnect
  <2>5. HasConnect(Tail(stack)) => HasConnect(stack)
    <3>1. \A i \in 1..Len(Tail(stack)) : i + 1 \in DOMAIN stack
      BY <2>2, <2>3
    <3> QED BY <2>2, <2>3, <3>1 DEF HasConnect
  <2> QED BY <2>1, <2>2, <2>4, <2>5 DEF Returns
<1> QED BY <1>2, <1>3

\* A fresh event_socket, with an empty queue, satisfies the queue's invariant.
LEMMA QInvInit == Init => QInv
<1> SUFFICES ASSUME Init PROVE QInv
  OBVIOUS
<1>1. chunks = <<>> /\ chunks \in Seq(Seq(Nat)) /\ Len(chunks) = 0
  BY DEF Init
<1>2. TypeOK
  <2>1. origin \in Seq(Nat) /\ wire \in Seq([conn : Nat, byte : Nat])
    BY DEF Init
  <2>2. flush \in [was_nonempty : BOOLEAN, sent : Nat, interrupts : Nat, error : BOOLEAN,
                   drained : BOOLEAN, first : Nat, last : Nat]
    BY DEF Init, NoFlush
  <2>3. call \in [Producers -> Nat]
    BY DEF Init
  <2>4. front_offset \in Nat /\ bytes \in Nat /\ limit \in Nat /\ conn \in Nat /\ accepted \in Nat
    BY SizesAssumption DEF Init
  <2>5. /\ pc \in PCs /\ stack \in Seq({"on_close", "connect", "failed"})
        /\ nested \subseteq Nat /\ errored \subseteq Nat
    BY DEF Init, PCs
  <2> QED BY <1>1, <2>1, <2>2, <2>3, <2>4, <2>5 DEF Init, TypeOK
<1>3. BytesWithinLimit
  BY SizesAssumption DEF Init, BytesWithinLimit
<1>4. QueueConsistent
  BY <1>1 DEF Init, QueueConsistent, Holds
<1> QED BY <1>2, <1>3, <1>4 DEF QInv

\* flush_queued and the report of its result keep the queue's invariant.
LEMMA QInvFlush ==
    ASSUME QInv, FlushStep
    PROVE  QInv'
<1> USE DEF PCs
<1>1. CASE FlushEnter
  <2>1. accepted - bytes + 1 \in Nat
    <3>1. /\ chunks \in Chunks /\ bytes \in Nat /\ accepted \in Nat
          /\ Holds(chunks, front_offset, bytes, accepted) /\ front_offset \in Nat
      BY DEF QInv, TypeOK, QueueConsistent, Chunks
    <3>2. CASE Len(chunks) = 0
      <4>1. bytes = 0
        BY <3>1, <3>2 DEF Holds
      <4> QED BY <4>1, <3>1
    <3>3. CASE Len(chunks) # 0
      <4>1. chunks[1][1] + front_offset = accepted + 1 - bytes
        BY <3>1, <3>3 DEF Holds
      <4>2. Len(chunks) \in Nat
        BY <3>1 DEF Chunks
      <4>3. 1 \in 1..Len(chunks)
        BY <3>3, <4>2
      <4>4. chunks[1][1] \in Nat
        BY <4>3, <3>1, ChunkFacts
      <4> QED BY <4>1, <4>4, <3>1
    <3> QED BY <3>2, <3>3
  <2>2. flush' \in [was_nonempty : BOOLEAN, sent : Nat, interrupts : Nat, error : BOOLEAN,
                    drained : BOOLEAN, first : Nat, last : Nat]
    BY <2>1, <1>1 DEF FlushEnter, NoFlush, QInv, TypeOK
  <2>3. TypeOK'
    <3>1. stack' \in Seq({"on_close", "connect", "failed"})
      BY <1>1, CallerFacts DEF FlushEnter, Returns
    <3> QED BY <2>2, <3>1, <1>1 DEF FlushEnter, QInv, TypeOK, queueVars, sockVars, histVars
  <2> QED BY <2>3, <1>1, QueueFrame DEF FlushEnter, queueVars, histVars, QInv
<1>2. ASSUME NEW n \in 1..Budget, FlushSent(n) PROVE QInv'
  <2>0. n \in Nat
    BY SizesAssumption
  <2>1. /\ BytesWithinLimit' /\ QueueConsistent'
        /\ chunks' \in Seq(Seq(Nat)) /\ front_offset' \in Nat /\ bytes' \in Nat
    BY <2>0, <1>2, SentKeeps
  <2>2. wire' \in Seq([conn : Nat, byte : Nat])
    <3> DEFINE new == [k \in 1..n |-> [conn |-> conn, byte |-> chunks[1][front_offset + k]]]
    <3>1. /\ chunks[1] \in Seq(Nat) /\ Len(chunks[1]) \in Nat
          /\ Requested \in Nat /\ Requested <= Len(chunks[1]) - front_offset
      BY <1>2, RequestFits DEF FlushSent
    <3>2. n <= Requested /\ front_offset \in Nat /\ conn \in Nat
      BY <1>2, <3>1 DEF FlushSent, QInv, TypeOK
    <3>3. ASSUME NEW k \in 1..n PROVE chunks[1][front_offset + k] \in Nat
      <4>1. front_offset + k \in 1..Len(chunks[1])
        BY <2>0, <3>1, <3>2
      <4> QED BY <4>1, <3>1
    <3>4. new \in Seq([conn : Nat, byte : Nat])
      BY <2>0, <3>2, <3>3
    <3>5. wire \in Seq([conn : Nat, byte : Nat]) /\ wire' = wire \o new
      BY <1>2 DEF FlushSent, QInv, TypeOK
    <3> HIDE DEF new
    <3> QED BY <3>4, <3>5, ConcatProperties
  <2>3. flush' \in [was_nonempty : BOOLEAN, sent : Nat, interrupts : Nat, error : BOOLEAN,
                    drained : BOOLEAN, first : Nat, last : Nat]
    <3>1. flush.sent + n \in Nat
      BY <2>0 DEF QInv, TypeOK
    <3> QED BY <3>1, <1>2 DEF FlushSent, QInv, TypeOK
  <2>4. TypeOK'
    BY <2>1, <2>2, <2>3, <1>2 DEF FlushSent, QInv, TypeOK, sockVars
  <2> QED BY <2>1, <2>4 DEF QInv
<1>3. CASE FlushInterrupted
  <2>1. TypeOK'
    <3>1. flush.interrupts + 1 \in Nat
      BY DEF QInv, TypeOK
    <3>2. flush' \in [was_nonempty : BOOLEAN, sent : Nat, interrupts : Nat, error : BOOLEAN,
                      drained : BOOLEAN, first : Nat, last : Nat]
      BY <3>1, <1>3 DEF FlushInterrupted, QInv, TypeOK
    <3> QED BY <3>2, <1>3 DEF FlushInterrupted, QInv, TypeOK, queueVars, sockVars, histVars
  <2> QED BY <2>1, <1>3, QueueFrame DEF FlushInterrupted, queueVars, histVars, QInv
<1>4. CASE FlushStop
  <2>1. TypeOK'
    BY <1>4 DEF FlushStop, QInv, TypeOK, queueVars, sockVars, histVars
  <2> QED BY <2>1, <1>4, QueueFrame DEF FlushStop, queueVars, histVars, QInv
<1>5. CASE FlushFail
  <2>1. /\ BytesWithinLimit' /\ QueueConsistent'
        /\ chunks' \in Seq(Seq(Nat)) /\ front_offset' \in Nat /\ bytes' \in Nat
    BY <1>5, ClearKeeps DEF FlushFail, histVars
  <2>2. TypeOK'
    BY <2>1, <1>5 DEF FlushFail, QInv, TypeOK, sockVars, histVars
  <2> QED BY <2>1, <2>2 DEF QInv
<1>6. CASE FlushReport
  <2>1. TypeOK'
    <3>1. stack' \in Seq({"on_close", "connect", "failed"}) /\ pc' \in PCs
      BY <1>6, ReturnFacts DEF FlushReport, Returns
    <3> QED BY <3>1, <1>6 DEF FlushReport, QInv, TypeOK, queueVars, sockVars, NoFlush
  <2> QED BY <2>1, <1>6, QueueFrame DEF FlushReport, queueVars, QInv
<1> QED BY <1>1, <1>2, <1>3, <1>4, <1>5, <1>6 DEF FlushStep

\* close(), connect() and set_blocking keep the queue's invariant.
LEMMA QInvConnection ==
    ASSUME QInv, ConnectionStep
    PROVE  QInv'
<1> USE DEF PCs
<1>0. stack \in Seq(Returns) /\ "connect" \in Returns /\ "failed" \in Returns
  BY DEF QInv, TypeOK, Returns
<1>1. ASSUME NEW returns \in Seq(Returns), BeginClose(returns) PROVE QInv'
  <2>1. /\ BytesWithinLimit' /\ QueueConsistent'
        /\ chunks' \in Seq(Seq(Nat)) /\ front_offset' \in Nat /\ bytes' \in Nat
    BY <1>1, ClearKeeps DEF BeginClose, histVars
  <2>2. TypeOK'
    BY <2>1, <1>1 DEF BeginClose, QInv, TypeOK, Returns, sockVars, histVars
  <2> QED BY <2>1, <2>2 DEF QInv
<1>2. CASE Close \/ Connect \/ ConnectFail
  <2>1. Caller \in Seq(Returns) /\ <<"connect">> \o Caller \in Seq(Returns)
    BY CallerFacts
  <2>2. <<"failed">> \o stack \in Seq(Returns)
    BY <1>0, PushFacts
  <2> QED BY <2>1, <2>2, <1>1, <1>2 DEF Close, Connect, ConnectFail
<1>3. CASE CloseFd
  <2>1. TypeOK'
    <3>1. /\ stack' \in Seq({"on_close", "connect", "failed"})
          /\ pc' \in {"idle", "on_close", "connect", "failed"}
      <4>1. CASE UNCHANGED stack /\ pc' = "on_close"
        BY <4>1 DEF QInv, TypeOK
      <4>2. CASE Return
        BY <4>2, ReturnFacts DEF Returns
      <4> QED BY <4>1, <4>2, <1>3 DEF CloseFd
    <3> QED BY <3>1, <1>3 DEF CloseFd, QInv, TypeOK, queueVars, histVars
  <2> QED BY <2>1, <1>3, QueueFrame DEF CloseFd, queueVars, histVars, QInv
<1>4. CASE CloseReturn
  <2>1. TypeOK'
    <3>1. stack' \in Seq({"on_close", "connect", "failed"}) /\ pc' \in PCs
      BY <1>4, ReturnFacts DEF CloseReturn, Returns
    <3> QED BY <3>1, <1>4 DEF CloseReturn, QInv, TypeOK, queueVars, sockVars, histVars
  <2> QED BY <2>1, <1>4, QueueFrame DEF CloseReturn, queueVars, histVars, QInv
<1>5. CASE ConnectSocket
  <2>1. TypeOK'
    <3>1. conn' \in Nat /\ nested' \subseteq Nat
      <4>1. conn \in Nat /\ conn + 1 \in Nat /\ nested \subseteq Nat
        BY DEF QInv, TypeOK
      <4> QED BY <4>1, <1>5 DEF ConnectSocket
    <3> QED BY <3>1, <1>5 DEF ConnectSocket, QInv, TypeOK, queueVars, histVars
  <2> QED BY <2>1, <1>5, QueueFrame DEF ConnectSocket, queueVars, histVars, QInv
<1>6. CASE ConnectOk
  <2>1. TypeOK'
    BY <1>6 DEF ConnectOk, QInv, TypeOK, queueVars, histVars
  <2> QED BY <2>1, <1>6, QueueFrame DEF ConnectOk, queueVars, histVars, QInv
<1>7. CASE ConnectNext
  <2>1. CASE BeginClose(<<"connect">> \o stack)
    BY <2>1, <1>0, <1>1, PushFacts
  <2>2. CASE /\ connected' \in {connected, FALSE} /\ Return
             /\ UNCHANGED <<queueVars, limit, valid, blocking, conn, nested, flush, call, histVars>>
    <3>1. stack' \in Seq({"on_close", "connect", "failed"}) /\ pc' \in PCs
      BY <2>2, ReturnFacts DEF Returns
    <3>2. TypeOK'
      BY <2>2, <3>1 DEF QInv, TypeOK, queueVars, histVars
    <3> QED BY <2>2, <3>2, QueueFrame DEF queueVars, histVars, QInv
  <2> QED BY <2>1, <2>2, <1>7 DEF ConnectNext
<1>8. CASE FinishConnect
  <2>1. TypeOK'
    <3>1. stack' \in Seq({"on_close", "connect", "failed"}) /\ pc' \in PCs
      <4>1. CASE UNCHANGED stack /\ pc' = "on_connect"
        BY <4>1 DEF QInv, TypeOK
      <4>2. CASE Return
        BY <4>2, ReturnFacts DEF Returns
      <4> QED BY <4>1, <4>2, <1>8 DEF FinishConnect
    <3> QED BY <3>1, <1>8 DEF FinishConnect, QInv, TypeOK, queueVars, histVars
  <2> QED BY <2>1, <1>8, QueueFrame DEF FinishConnect, queueVars, histVars, QInv
<1>9. CASE OnConnectReturn
  <2>1. TypeOK'
    <3>1. stack' \in Seq({"on_close", "connect", "failed"}) /\ pc' \in PCs
      BY <1>9, ReturnFacts DEF OnConnectReturn, Returns
    <3> QED BY <3>1, <1>9 DEF OnConnectReturn, QInv, TypeOK, queueVars, sockVars, histVars
  <2> QED BY <2>1, <1>9, QueueFrame DEF OnConnectReturn, queueVars, histVars, QInv
<1>10. ASSUME NEW flag \in BOOLEAN, SetBlocking(flag) PROVE QInv'
  <2>1. TypeOK'
    BY <1>10 DEF SetBlocking, QInv, TypeOK, queueVars, histVars
  <2> QED BY <2>1, <1>10, QueueFrame DEF SetBlocking, queueVars, histVars, QInv
<1> QED BY <1>2, <1>3, <1>4, <1>5, <1>6, <1>7, <1>8, <1>9, <1>10 DEF ConnectionStep

\* queue_write and set_max_queued_bytes keep the queue's invariant.
LEMMA QInvProducer ==
    ASSUME QInv, ProducerStep
    PROVE  QInv'
<1>1. ASSUME NEW p \in Producers, NEW n \in Sizes, QueueWriteTest(p, n) PROVE QInv'
  <2>1. n \in Nat
    BY SizesAssumption
  <2>2. TypeOK'
    BY <2>1, <1>1 DEF QueueWriteTest, QInv, TypeOK, queueVars, sockVars, histVars
  <2> QED BY <2>2, <1>1, QueueFrame DEF QueueWriteTest, queueVars, histVars, QInv
<1>2. ASSUME NEW p \in Producers, QueueWriteLocked(p) PROVE QInv'
  <2>1. /\ call[p] \in Nat /\ Established \in Nat /\ call[p] # 0
        /\ call' \in [Producers -> Nat]
    BY <1>2 DEF QueueWriteLocked, QInv, TypeOK, Established
  <2>2. CASE UNCHANGED <<queueVars, accepted, origin>>
    <3>1. TypeOK'
      BY <2>1, <2>2, <1>2 DEF QueueWriteLocked, QInv, TypeOK, queueVars, sockVars
    <3>2. UNCHANGED <<chunks, front_offset, bytes, limit, accepted>>
      BY <2>2, <1>2 DEF QueueWriteLocked, queueVars
    <3> QED BY <3>1, <3>2, QueueFrame DEF QInv
  <2>3. CASE /\ call[p] <= SizeSub(limit, bytes)
             /\ chunks' = Store(call[p]) /\ bytes' = bytes + call[p]
             /\ accepted' = accepted + call[p] /\ UNCHANGED <<front_offset, limit>>
             /\ origin' = origin \o [k \in 1..call[p] |-> Established]
    <3>1. /\ BytesWithinLimit' /\ QueueConsistent'
          /\ chunks' \in Seq(Seq(Nat)) /\ bytes' \in Nat
      BY <2>1, <2>3, EnqueueKeeps
    <3>2. origin' \in Seq(Nat)
      <4> DEFINE new == [k \in 1..call[p] |-> Established]
      <4>1. new \in Seq(Nat)
        BY <2>1
      <4>2. origin \in Seq(Nat) /\ origin' = origin \o new
        BY <2>3 DEF QInv, TypeOK
      <4> HIDE DEF new
      <4> QED BY <4>1, <4>2, ConcatProperties
    <3>3. accepted' \in Nat
      <4>1. accepted \in Nat
        BY DEF QInv, TypeOK
      <4> QED BY <4>1, <2>1, <2>3
    <3>4. TypeOK'
      BY <3>1, <3>2, <3>3, <2>1, <2>3, <1>2 DEF QueueWriteLocked, QInv, TypeOK, sockVars
    <3> QED BY <3>1, <3>4 DEF QInv
  <2> QED BY <2>2, <2>3, <1>2 DEF QueueWriteLocked
<1>3. ASSUME NEW l \in Limits, SetMaxQueuedBytes(l) PROVE QInv'
  <2>1. l \in Nat
    BY SizesAssumption
  <2>2. TypeOK'
    BY <2>1, <1>3 DEF SetMaxQueuedBytes, QInv, TypeOK, queueVars, sockVars, histVars
  <2>3. BytesWithinLimit'
    BY <2>1, <1>3 DEF SetMaxQueuedBytes, BytesWithinLimit, QInv, TypeOK, queueVars
  <2>4. QueueConsistent'
    BY <1>3 DEF SetMaxQueuedBytes, QueueConsistent, QInv, queueVars, histVars
  <2> QED BY <2>2, <2>3, <2>4 DEF QInv
<1> QED BY <1>1, <1>2, <1>3 DEF ProducerStep

\* The queue's invariant is inductive.
LEMMA QInvStep == QInv /\ [Next]_vars => QInv'
<1> SUFFICES ASSUME QInv, [Next]_vars PROVE QInv'
  OBVIOUS
<1>1. CASE UNCHANGED vars
  <2>1. TypeOK'
    BY <1>1 DEF vars, queueVars, sockVars, histVars, QInv, TypeOK
  <2> QED BY <2>1, <1>1, QueueFrame DEF vars, queueVars, histVars, QInv
<1> QED BY <1>1, QInvFlush, QInvConnection, QInvProducer DEF Next

\* Type correctness of the queue, its socket and its threads.
THEOREM TypeCorrect == Spec => []TypeOK
<1>1. QInv => TypeOK
  BY DEF QInv
<1> QED BY <1>1, QInvInit, QInvStep, PTL DEF Spec

\* The queue never exceeds its limit, with any number of concurrent producers
\* and any sequence of set_max_queued_bytes calls (queue_write's unsigned
\* subtraction never wraps).
THEOREM Bounded == Spec => []BytesWithinLimit
<1>1. QInv => BytesWithinLimit
  BY DEF QInv
<1> QED BY <1>1, QInvInit, QInvStep, PTL DEF Spec

\* Counter, offset and chunks always describe the same, consecutive bytes, for
\* every coalescing limit, budget and pattern of partial sends.
THEOREM Consistent == Spec => []QueueConsistent
<1>1. QInv => QueueConsistent
  BY DEF QInv
<1> QED BY <1>1, QInvInit, QInvStep, PTL DEF Spec

-------------------------------------------------------------------------------
(* What reaches the wire.                                                  *)

\* Everything on the wire is older than everything queued and belongs to this
\* or an earlier connection; the newest byte sent on a connection that is still
\* in use is the predecessor of the oldest queued one, unless an error of this
\* connection was, or is about to be, reported.
WireMatchesQueue ==
    /\ \A i \in 1..Len(wire) : wire[i].byte <= accepted - bytes /\ wire[i].conn <= conn
    /\ (/\ Len(wire) # 0 /\ wire[Len(wire)].conn = conn /\ valid /\ pc # "close_fd"
        /\ ~flush.error /\ conn \notin errored)
          => wire[Len(wire)].byte = accepted - bytes
    /\ pc = "send" => valid /\ ~flush.error
    /\ pc # "flushed" => ~flush.error

WInv == QInv /\ WireMatchesQueue /\ WireIsStream

\* Nothing is on the wire before the first connection.
LEMMA WInvInit == Init => WInv
<1> SUFFICES ASSUME Init PROVE WInv
  OBVIOUS
<1>1. Len(wire) = 0 /\ flush.error = FALSE /\ pc = "idle"
  BY DEF Init, NoFlush
<1>2. WireMatchesQueue
  BY <1>1 DEF WireMatchesQueue
<1>3. WireIsStream
  BY <1>1 DEF WireIsStream
<1> QED BY <1>2, <1>3, QInvInit DEF WInv

\* Steps that do not send keep the order of the wire.
LEMMA StreamFrame ==
    ASSUME WInv, wire' = wire, errored \subseteq errored'
    PROVE  WireIsStream'
BY DEF WInv, WireIsStream

\* Bytes in use: the types the arguments below need.
LEMMA WireTypes ==
    ASSUME QInv
    PROVE  /\ accepted \in Nat /\ bytes \in Nat /\ conn \in Nat /\ Len(wire) \in Nat
           /\ \A i \in 1..Len(wire) : wire[i].byte \in Nat /\ wire[i].conn \in Nat
<1>1. accepted \in Nat /\ bytes \in Nat /\ conn \in Nat /\ wire \in Seq([conn : Nat, byte : Nat])
  BY DEF QInv, TypeOK
<1>2. Len(wire) \in Nat /\ \A i \in 1..Len(wire) : wire[i] \in [conn : Nat, byte : Nat]
  BY <1>1, ElementOfSeq, LenProperties
<1> QED BY <1>1, <1>2

\* A successful send appends to the wire the oldest queued bytes: what flush_queued
\* reads after front_offset in the front chunk are the successors of the bytes that
\* are not queued any more.
LEMMA SentBytes ==
    ASSUME QInv, NEW n \in Nat, FlushSent(n)
    PROVE  /\ n # 0 /\ Len(wire') = Len(wire) + n
           /\ \A i \in 1..Len(wire) : wire'[i] = wire[i]
           /\ \A k \in 1..n : wire'[Len(wire) + k] = [conn |-> conn, byte |-> (accepted - bytes) + k]
<1>1. /\ accepted \in Nat /\ bytes \in Nat /\ conn \in Nat /\ Len(wire) \in Nat
      /\ \A i \in 1..Len(wire) : wire[i].byte \in Nat /\ wire[i].conn \in Nat
  BY WireTypes
<1>2. PICK W : W \in Nat /\ W = Len(wire)
  BY <1>1
<1>3. PICK B : B \in Int /\ B = accepted - bytes
  BY <1>1
<1>4. /\ n \in Nat /\ n # 0 /\ bytes' = bytes - n /\ pc = "send" /\ pc' = pc
      /\ accepted' = accepted /\ conn' = conn /\ errored' = errored /\ valid' = valid
      /\ flush'.error = flush.error
  <2>1. Requested \in Nat
    BY RequestFits DEF FlushSent
  <2>2. n \in 1..Requested
    BY DEF FlushSent
  <2>3. flush' = [flush EXCEPT !.sent = @ + n, !.interrupts = 0]
    BY DEF FlushSent
  <2>4. flush'.error = flush.error
    BY <2>3 DEF QInv, TypeOK
  <2> QED BY <2>1, <2>2, <2>4 DEF FlushSent, Looping, sockVars
<1>6. /\ chunks \in Chunks /\ front_offset \in Nat /\ Holds(chunks, front_offset, bytes, accepted)
      /\ chunks # <<>> /\ chunks[1] \in Seq(Nat) /\ Len(chunks[1]) \in Nat
      /\ Requested \in Nat /\ Requested <= Len(chunks[1]) - front_offset
  BY RequestFits DEF FlushSent, QInv, TypeOK, QueueConsistent, Chunks
<1>7. ASSUME NEW k \in 1..n PROVE chunks[1][front_offset + k] = B + k
  <2>1. Len(chunks) # 0 /\ 1 \in 1..Len(chunks)
    BY <1>6, EmptySeq DEF Chunks
  <2>2. chunks[1][1] + front_offset = accepted + 1 - bytes /\ chunks[1][1] \in Nat
    <3>1. chunks[1][1] \in Nat
      BY <2>1, <1>1, <1>6, ChunkFacts
    <3>2. chunks[1][1] + front_offset = accepted + 1 - bytes
      BY <2>1, <1>6 DEF Holds
    <3> QED BY <3>1, <3>2
  <2>3. n <= Requested
    BY <1>4, <1>6 DEF FlushSent
  <2>4. front_offset + k \in 1..Len(chunks[1])
    BY <2>3, <1>4, <1>6
  <2>5. chunks[1][front_offset + k] = chunks[1][1] + (front_offset + k) - 1
    BY <2>1, <2>4, <1>6 DEF Holds
  <2>6. chunks[1][1] + front_offset = B + 1
    BY <2>2, <1>1, <1>3
  <2>7. chunks[1][1] + (front_offset + k) - 1 = B + k
    <3>1. chunks[1][1] \in Nat /\ front_offset \in Nat /\ B \in Int
      BY <2>2, <1>3, <1>6
    <3> QED BY <3>1, <2>6
  <2> QED BY <2>5, <2>7
<1>8. PICK new : new = [k \in 1..n |-> [conn |-> conn, byte |-> chunks[1][front_offset + k]]]
  OBVIOUS
<1>9. \A k \in 1..n : new[k] = [conn |-> conn, byte |-> B + k]
  BY <1>7, <1>8
<1>10. new \in Seq([conn : Nat, byte : Int]) /\ Len(new) = n
  <2>1. \A k \in 1..n : chunks[1][front_offset + k] \in Int
    BY <1>3, <1>7
  <2>2. [k \in 1..n |-> [conn |-> conn, byte |-> chunks[1][front_offset + k]]]
           \in Seq([conn : Nat, byte : Int])
    BY <2>1, <1>1, <1>4
  <2>3. DOMAIN new = 1..n
    BY <1>8
  <2>4. Len(new) \in Nat /\ DOMAIN new = 1..Len(new)
    BY <2>2, <1>8, LenProperties
  <2> QED BY <2>2, <2>3, <2>4, <1>4, <1>8
<1>11. PICK w : w = wire'
  OBVIOUS
<1>12. /\ Len(w) = W + n
       /\ \A i \in 1..W : w[i] = wire[i]
       /\ \A k \in 1..n : w[W + k] = new[k]
  <2>1. wire \in Seq([conn : Nat, byte : Int]) /\ w = wire \o new
    <3>1. wire \in Seq([conn : Nat, byte : Nat]) /\ w = wire \o new
      BY <1>8, <1>11 DEF QInv, TypeOK, FlushSent
    <3>2. [conn : Nat, byte : Nat] \subseteq [conn : Nat, byte : Int]
      OBVIOUS
    <3> QED BY <3>1, <3>2, SeqMonotonic
  <2>2. /\ Len(w) = Len(wire) + Len(new)
        /\ \A i \in 1..(Len(wire) + Len(new)) :
              w[i] = IF i <= Len(wire) THEN wire[i] ELSE new[i - Len(wire)]
    BY <2>1, <1>10, ConcatProperties
  <2>3. \A i \in 1..W : i \in 1..(W + n) /\ i <= W
    BY <1>2, <1>4
  <2>4. \A k \in 1..n : W + k \in 1..(W + n) /\ ~(W + k <= W) /\ (W + k) - W = k
    BY <1>2, <1>4
  <2>5. /\ Len(w) = W + n
        /\ \A i \in 1..(W + n) : w[i] = IF i <= W THEN wire[i] ELSE new[i - W]
    BY <2>2, <1>2, <1>10
  <2>6. \A i \in 1..W : w[i] = wire[i]
    BY <2>3, <2>5
  <2>7. \A k \in 1..n : w[W + k] = new[k]
    <3> SUFFICES ASSUME NEW k \in 1..n PROVE w[W + k] = new[k]
      OBVIOUS
    <3>1. w[W + k] = new[(W + k) - W]
      BY <2>4, <2>5
    <3> QED BY <3>1, <2>4
  <2> QED BY <2>5, <2>6, <2>7
<1> QED BY <1>2, <1>3, <1>4, <1>9, <1>11, <1>12

\* A successful send: the new bytes continue everything sent before on this
\* connection.
LEMMA SentWire ==
    ASSUME WInv, QInv', NEW n \in Nat, FlushSent(n)
    PROVE  WireMatchesQueue' /\ WireIsStream'
<1>0. QInv
  BY DEF WInv
<1>1. /\ accepted \in Nat /\ bytes \in Nat /\ conn \in Nat /\ Len(wire) \in Nat
      /\ \A i \in 1..Len(wire) : wire[i].byte \in Nat /\ wire[i].conn \in Nat
  BY <1>0, WireTypes
<1>2. PICK W : W \in Nat /\ W = Len(wire)
  BY <1>1
<1>3. PICK B : B \in Int /\ B = accepted - bytes
  BY <1>1
<1>4. /\ n \in Nat /\ n # 0 /\ bytes' = bytes - n /\ pc = "send" /\ pc' = pc
      /\ accepted' = accepted /\ conn' = conn /\ errored' = errored /\ valid' = valid
      /\ flush'.error = flush.error
  <2>1. n # 0
    BY <1>0, SentBytes
  <2>2. flush' = [flush EXCEPT !.sent = @ + n, !.interrupts = 0]
    BY DEF FlushSent
  <2>3. flush'.error = flush.error
    BY <2>2, <1>0 DEF QInv, TypeOK
  <2> QED BY <2>1, <2>3 DEF FlushSent, Looping, sockVars
<1>5. valid /\ ~flush.error
  BY <1>4 DEF WInv, WireMatchesQueue
<1>6. PICK w : w = wire'
  OBVIOUS
<1>7. /\ Len(w) = W + n
      /\ \A i \in 1..W : w[i] = wire[i]
      /\ \A k \in 1..n : w[W + k].conn = conn /\ w[W + k].byte = B + k
  <2>1. \A k \in 1..n : w[W + k] = [conn |-> conn, byte |-> B + k]
    BY <1>0, <1>2, <1>3, <1>6, SentBytes
  <2>2. Len(w) = W + n /\ \A i \in 1..W : w[i] = wire[i]
    BY <1>0, <1>2, <1>6, SentBytes
  <2>3. ASSUME NEW k \in 1..n PROVE w[W + k].conn = conn /\ w[W + k].byte = B + k
    <3>1. w[W + k] = [conn |-> conn, byte |-> B + k]
      BY <2>1
    <3> QED BY <3>1
  <2> QED BY <2>2, <2>3
<1>8. \A i \in 1..W : wire[i].byte <= B /\ wire[i].conn <= conn /\ wire[i].byte \in Int /\ wire[i].conn \in Nat
  <2>1. \A i \in 1..Len(wire) : wire[i].byte <= accepted - bytes /\ wire[i].conn <= conn
    BY DEF WInv, WireMatchesQueue
  <2>2. \A i \in 1..W : wire[i].byte <= B /\ wire[i].conn <= conn
    BY <2>1, <1>2, <1>3
  <2>3. \A i \in 1..W : wire[i].byte \in Nat /\ wire[i].conn \in Nat
    BY <1>1, <1>2
  <2> QED BY <2>2, <2>3
<1>9. accepted' - bytes' = B + n
  BY <1>1, <1>3, <1>4
<1>10. ASSUME NEW i \in 1..(W + n) PROVE w[i].byte <= B + n /\ w[i].conn <= conn
  <2>1. CASE i \in 1..W
    <3>1. w[i].byte <= B /\ w[i].conn <= conn /\ w[i].byte \in Int
      BY <2>1, <1>7, <1>8
    <3> QED BY <3>1, <1>3, <1>4
  <2>2. CASE ~(i \in 1..W)
    <3>1. PICK k \in 1..n : i = W + k
      <4>1. i - W \in 1..n /\ i = W + (i - W)
        BY <2>2, <1>2, <1>4
      <4> QED BY <4>1
    <3>2. w[i].byte = B + k /\ w[i].conn = conn
      BY <3>1, <1>7
    <3> QED BY <3>2, <1>1, <1>3, <1>4
  <2> QED BY <2>1, <2>2
<1>11. w[W + n].byte = B + n /\ W + n # 0
  BY <1>2, <1>4, <1>7
<1>12. WireMatchesQueue'
  <2>1. \A i \in 1..Len(w) : w[i].byte <= accepted' - bytes' /\ w[i].conn <= conn'
    BY <1>4, <1>7, <1>9, <1>10
  <2>2. w[Len(w)].byte = accepted' - bytes'
    BY <1>7, <1>9, <1>11
  <2>3. valid' /\ ~flush'.error
    BY <1>4, <1>5
  <2> QED BY <2>1, <2>2, <2>3, <1>6 DEF WireMatchesQueue
<1>13. WireIsStream'
  <2> SUFFICES ASSUME NEW i \in 1..(W + n - 1)
               PROVE  /\ w[i].byte < w[i + 1].byte
                      /\ w[i].conn <= w[i + 1].conn
                      /\ w[i].conn = w[i + 1].conn =>
                            w[i + 1].byte = w[i].byte + 1 \/ w[i].conn \in errored
    <3>1. Len(w) - 1 = W + n - 1
      BY <1>2, <1>4, <1>7
    <3> QED BY <3>1, <1>4, <1>6 DEF WireIsStream
  <2>1. CASE i \in 1..(W - 1)
    <3>1. i \in 1..W /\ i + 1 \in 1..W /\ w[i] = wire[i] /\ w[i + 1] = wire[i + 1]
      BY <2>1, <1>2, <1>7
    <3>2. /\ wire[i].byte < wire[i + 1].byte
          /\ wire[i].conn <= wire[i + 1].conn
          /\ wire[i].conn = wire[i + 1].conn =>
                wire[i + 1].byte = wire[i].byte + 1 \/ wire[i].conn \in errored
      BY <2>1, <1>2 DEF WInv, WireIsStream
    <3> QED BY <3>1, <3>2
  <2>2. CASE i = W
    <3>1. W \in 1..W /\ W # 0 /\ 1 \in 1..n
      BY <2>2, <1>2, <1>4
    <3>2. /\ w[i] = wire[W] /\ wire[W].byte <= B /\ wire[W].conn <= conn
          /\ wire[W].byte \in Int /\ wire[W].conn \in Nat
      BY <2>2, <3>1, <1>7, <1>8
    <3>3. w[i + 1].byte = B + 1 /\ w[i + 1].conn = conn
      BY <2>2, <3>1, <1>7
    <3>4. wire[W].conn = conn => wire[W].byte = B \/ conn \in errored
      BY <3>1, <1>2, <1>3, <1>4, <1>5 DEF WInv, WireMatchesQueue
    <3>5. wire[W].byte < B + 1
      BY <3>2, <1>3
    <3> QED BY <3>2, <3>3, <3>4, <3>5
  <2>3. CASE i \notin 1..W
    <3>1. PICK k \in 1..n : i = W + k /\ k + 1 \in 1..n /\ i + 1 = W + (k + 1)
      <4>1. i - W \in 1..n /\ i = W + (i - W) /\ (i - W) + 1 \in 1..n /\ i + 1 = W + ((i - W) + 1)
        BY <2>3, <1>2, <1>4
      <4> QED BY <4>1
    <3>2. w[i].byte = B + k /\ w[i].conn = conn
      BY <3>1, <1>7
    <3>3. w[i + 1].byte = B + (k + 1) /\ w[i + 1].conn = conn
      BY <3>1, <1>7
    <3>4. B + k < B + (k + 1) /\ B + (k + 1) = B + k + 1
      BY <1>3
    <3> QED BY <3>2, <3>3, <3>4, <1>1
  <2>4. i \in 1..(W - 1) \/ i = W \/ i \notin 1..W
    BY <1>2
  <2> QED BY <2>1, <2>2, <2>3, <2>4
<1> QED BY <1>12, <1>13

\* The invariant that ties the wire to the queue is inductive.
LEMMA WInvStep == WInv /\ [Next]_vars => WInv'
<1> SUFFICES ASSUME WInv, [Next]_vars PROVE WInv'
  OBVIOUS
<1>0. QInv /\ QInv'
  BY QInvStep DEF WInv
<1>1. /\ accepted \in Nat /\ bytes \in Nat /\ conn \in Nat /\ Len(wire) \in Nat
      /\ \A i \in 1..Len(wire) : wire[i].byte \in Nat /\ wire[i].conn \in Nat
  BY <1>0, WireTypes
<1>2. ASSUME UNCHANGED <<wire, conn, accepted, bytes, errored, valid, flush>>,
             pc' # "send" \/ pc = "send", pc' # "close_fd" => pc # "close_fd",
             pc # "flushed"
      PROVE  WInv'
  <2>1. WireIsStream'
    BY <1>2, StreamFrame
  <2>2. WireMatchesQueue'
    BY <1>2 DEF WInv, WireMatchesQueue
  <2> QED BY <2>1, <2>2, <1>0 DEF WInv
<1>3. ASSUME ClearQueue, UNCHANGED <<wire, conn, accepted, errored, valid>>,
             \/ pc' = "close_fd" /\ flush' = flush /\ pc # "flushed"
             \/ pc' = "flushed" /\ flush'.error = TRUE
      PROVE  WInv'
  <2>1. WireIsStream'
    BY <1>3, StreamFrame
  <2>2. bytes' = 0 /\ accepted' - bytes' >= accepted - bytes /\ accepted' - bytes' \in Int
    BY <1>1, <1>3 DEF ClearQueue
  <2>3. \A i \in 1..Len(wire) : wire[i].byte <= accepted' - bytes' /\ wire[i].conn <= conn
    <3> SUFFICES ASSUME NEW i \in 1..Len(wire)
                 PROVE wire[i].byte <= accepted' - bytes' /\ wire[i].conn <= conn
      OBVIOUS
    <3>1. wire[i].byte <= accepted - bytes /\ wire[i].conn <= conn
      BY DEF WInv, WireMatchesQueue
    <3> QED BY <3>1, <2>2, <1>1
  <2>4. WireMatchesQueue'
    BY <2>3, <1>3 DEF WInv, WireMatchesQueue
  <2> QED BY <2>1, <2>4, <1>0 DEF WInv
<1>4. CASE FlushEnter
  <2>1. WireIsStream'
    BY <1>4, StreamFrame DEF FlushEnter, histVars
  <2>2. flush'.error = FALSE
    BY <1>4 DEF FlushEnter, NoFlush
  <2>3. WireMatchesQueue'
    BY <2>2, <1>4 DEF WInv, WireMatchesQueue, FlushEnter, UserRuns, histVars, queueVars, sockVars
  <2> QED BY <2>1, <2>3, <1>0 DEF WInv
<1>5. ASSUME NEW n \in 1..Budget, FlushSent(n) PROVE WInv'
  <2>1. n \in Nat
    BY SizesAssumption
  <2> QED BY <2>1, <1>0, <1>5, SentWire DEF WInv
<1>6. CASE FlushInterrupted \/ FlushStop
  <2>1. WireIsStream'
    BY <1>6, StreamFrame DEF FlushInterrupted, FlushStop, histVars
  <2>2. flush'.error = flush.error
    BY <1>6, <1>0 DEF FlushInterrupted, FlushStop, QInv, TypeOK
  <2>3. UNCHANGED <<wire, conn, accepted, bytes, errored, valid>> /\ pc = "send" /\ pc' \in {"send", "flushed"}
    BY <1>6 DEF FlushInterrupted, FlushStop, Looping, histVars, queueVars, sockVars
  <2>4. WireMatchesQueue'
    BY <2>2, <2>3 DEF WInv, WireMatchesQueue
  <2> QED BY <2>1, <2>4, <1>0 DEF WInv
<1>7. CASE FlushFail
  <2>1. flush'.error = TRUE
    BY <1>7, <1>0 DEF FlushFail, QInv, TypeOK
  <2> QED BY <2>1, <1>3, <1>7 DEF FlushFail, histVars, sockVars
<1>8. CASE FlushReport
  <2>1. WireIsStream'
    BY <1>8, StreamFrame DEF FlushReport
  <2>2. /\ flush'.error = FALSE /\ pc = "flushed"
        /\ pc' \in {"idle", "on_close", "connect", "failed"}
    BY <1>0, <1>8, ReturnFacts DEF FlushReport, NoFlush
  <2>3. UNCHANGED <<wire, conn, accepted, bytes, valid>> /\ errored \subseteq errored'
    BY <1>8 DEF FlushReport, queueVars, sockVars
  <2>4. flush.error => conn \in errored'
    BY <1>8 DEF FlushReport
  <2>5. WireMatchesQueue'
    BY <2>2, <2>3, <2>4 DEF WInv, WireMatchesQueue
  <2> QED BY <2>1, <2>5, <1>0 DEF WInv
<1>9. ASSUME NEW returns, BeginClose(returns), pc # "flushed" PROVE WInv'
  <2>1. ClearQueue /\ pc' = "close_fd" /\ flush' = flush
    BY <1>9 DEF BeginClose
  <2>2. UNCHANGED <<wire, conn, accepted, errored, valid>>
    BY <1>9 DEF BeginClose, sockVars, histVars
  <2> QED BY <2>1, <2>2, <1>9, <1>3
<1>10. ASSUME valid' = FALSE \/ conn' = conn + 1, conn' = conn \/ conn' = conn + 1,
              UNCHANGED <<wire, accepted, bytes, errored, flush>>,
              pc # "flushed", pc' # "send"
       PROVE  WInv'
  <2>1. WireIsStream'
    BY <1>10, StreamFrame
  <2>2. \A i \in 1..Len(wire) : wire[i].byte <= accepted - bytes /\ wire[i].conn <= conn
    BY DEF WInv, WireMatchesQueue
  <2>3. \A i \in 1..Len(wire) : wire[i].conn <= conn'
    BY <2>2, <1>1, <1>10
  <2>4. valid' => \A i \in 1..Len(wire) : wire[i].conn # conn'
    BY <2>2, <1>1, <1>10
  <2>5. Len(wire) # 0 => Len(wire) \in 1..Len(wire)
    BY <1>1
  <2>6. WireMatchesQueue'
    BY <2>2, <2>3, <2>4, <2>5, <1>10 DEF WInv, WireMatchesQueue
  <2> QED BY <2>1, <2>6, <1>0 DEF WInv
<1>9a. CASE Close \/ Connect \/ ConnectFail
  BY <1>9, <1>9a DEF Close, Connect, ConnectFail, UserRuns
<1>11. CASE CloseFd \/ ConnectSocket
  <2>1. pc # "flushed" /\ pc' # "send"
    BY <1>11, <1>0, ReturnFacts DEF CloseFd, ConnectSocket
  <2>2. /\ valid' = FALSE \/ conn' = conn + 1
        /\ conn' = conn \/ conn' = conn + 1
        /\ UNCHANGED <<wire, accepted, bytes, errored, flush>>
    BY <1>11 DEF CloseFd, ConnectSocket, queueVars, histVars
  <2> QED BY <2>1, <2>2, <1>10
<1>12. CASE CloseReturn \/ ConnectOk \/ OnConnectReturn
  <2>1. UNCHANGED <<wire, conn, accepted, bytes, errored, valid, flush>>
    BY <1>12 DEF CloseReturn, ConnectOk, OnConnectReturn, queueVars, sockVars, histVars
  <2>2. pc' # "send" /\ pc # "close_fd" /\ pc # "flushed"
    BY <1>12, <1>0, ReturnFacts DEF CloseReturn, ConnectOk, OnConnectReturn
  <2> QED BY <2>1, <2>2, <1>2
<1>12a. CASE ConnectNext
  <2>1. CASE BeginClose(<<"connect">> \o stack)
    BY <2>1, <1>9, <1>12a DEF ConnectNext
  <2>2. CASE /\ Return
             /\ UNCHANGED <<queueVars, limit, valid, blocking, conn, nested, flush, call, histVars>>
    <3>1. pc = "failed" /\ pc' # "send"
      BY <2>2, <1>0, <1>12a, ReturnFacts DEF ConnectNext
    <3> QED BY <2>2, <3>1, <1>2 DEF queueVars, histVars
  <2> QED BY <2>1, <2>2, <1>12a DEF ConnectNext
<1>13. CASE FinishConnect
  <2>0. pc = "finish" /\ pc' # "send"
    BY <1>0, <1>13, ReturnFacts DEF FinishConnect
  <2>1. CASE valid' = FALSE
    BY <2>0, <2>1, <1>10, <1>13 DEF FinishConnect, queueVars, histVars
  <2>2. CASE UNCHANGED valid
    BY <2>0, <2>2, <1>2, <1>13 DEF FinishConnect, queueVars, histVars
  <2> QED BY <2>1, <2>2, <1>13 DEF FinishConnect
<1>14. ASSUME NEW flag \in BOOLEAN, SetBlocking(flag) PROVE WInv'
  BY <1>14, <1>2 DEF SetBlocking, UserRuns, queueVars, histVars
<1>15. ASSUME UNCHANGED <<wire, conn, errored, valid, flush, pc>>,
              accepted' - bytes' = accepted - bytes
       PROVE  WInv'
  <2>1. WireIsStream'
    BY <1>15, StreamFrame
  <2>2. WireMatchesQueue'
    BY <1>15 DEF WInv, WireMatchesQueue
  <2> QED BY <2>1, <2>2, <1>0 DEF WInv
<1>16. CASE ProducerStep
  <2>1. ASSUME NEW p \in Producers, NEW n \in Sizes, QueueWriteTest(p, n) PROVE WInv'
    BY <2>1, <1>15 DEF QueueWriteTest, queueVars, sockVars, histVars
  <2>2. ASSUME NEW p \in Producers, QueueWriteLocked(p) PROVE WInv'
    <3>1. call[p] \in Nat
      BY <1>0 DEF QInv, TypeOK
    <3>2. \/ accepted' = accepted /\ bytes' = bytes
          \/ accepted' = accepted + call[p] /\ bytes' = bytes + call[p]
      BY <2>2 DEF QueueWriteLocked, queueVars
    <3>3. accepted' - bytes' = accepted - bytes
      BY <3>1, <3>2, <1>1
    <3> QED BY <2>2, <3>3, <1>15 DEF QueueWriteLocked, sockVars
  <2>3. ASSUME NEW l \in Limits, SetMaxQueuedBytes(l) PROVE WInv'
    BY <2>3, <1>15 DEF SetMaxQueuedBytes, queueVars, sockVars, histVars
  <2> QED BY <2>1, <2>2, <2>3, <1>16 DEF ProducerStep
<1>17. CASE UNCHANGED vars
  BY <1>17, <1>15 DEF vars, queueVars, sockVars, histVars
<1> QED BY <1>4, <1>5, <1>6, <1>7, <1>8, <1>9a, <1>11, <1>12, <1>12a, <1>13, <1>14, <1>16, <1>17
        DEF Next, FlushStep, ConnectionStep

\* On every connection the peer receives the accepted bytes in order, none
\* twice, and none missing unless a flush error of that connection was
\* reported: for any producers, budget, partial sends, closes and reconnects.
THEOREM StreamIntact == Spec => []WireIsStream
<1>1. WInv => WireIsStream
  BY DEF WInv
<1> QED BY <1>1, WInvInit, WInvStep, PTL DEF Spec

-------------------------------------------------------------------------------
(* Which connection a byte reaches.                                        *)

\* The bytes in the queue are those accepted last.
QueuedBytes == (accepted - bytes + 1)..accepted

\* Every queued byte was stored for no connection.
Unclaimed == \A b \in QueuedBytes : origin[b] = 0

\* A connect() is about to replace the descriptor: its close() runs or has returned.
Replacing == pc = "connect" \/ InConnect

\* A queued byte was stored for no connection or for one whose output the connection
\* in use carries.  Right after close() has cleared the queue it was stored for none,
\* and so it stays until the connect() that waits for that close() opens a descriptor,
\* unless a handler has opened one before, because no connection is established then.
OriginInv ==
    /\ Len(origin) = accepted /\ bytes <= accepted
    /\ \A b \in QueuedBytes : origin[b] = 0 \/ Carried(origin[b], conn)
    /\ pc = "close_fd" => Unclaimed
    /\ Replacing /\ conn \notin nested => Unclaimed /\ Established = 0
    /\ pc = "connecting" /\ InConnect => conn \in nested
    /\ \A i \in 1..Len(wire) : wire[i].byte \in 1..accepted

OInv == WInv /\ OriginInv /\ ConnectionIsolation

\* The domain of the wire's history.
LEMMA WireDomain ==
    ASSUME QInv PROVE DOMAIN wire = 1..Len(wire) /\ Len(wire) \in Nat
<1>1. wire \in Seq([conn : Nat, byte : Nat])
  BY DEF QInv, TypeOK
<1> QED BY <1>1, LenProperties

\* What is on the wire stays isolated while origins and wire do not change.
LEMMA IsolationFrame ==
    ASSUME OInv, UNCHANGED <<origin, wire>>, nested \subseteq nested'
    PROVE  ConnectionIsolation'
<1> SUFFICES ASSUME NEW i \in DOMAIN wire
             PROVE  origin[wire[i].byte] = 0 \/ Carried(origin[wire[i].byte], wire[i].conn)'
  BY DEF ConnectionIsolation
<1>1. origin[wire[i].byte] = 0 \/ Carried(origin[wire[i].byte], wire[i].conn)
  BY DEF OInv, ConnectionIsolation
<1> QED BY <1>1 DEF Carried

\* Steps that leave the queue, its history, the wire and the connection alone.
LEMMA OriginFrame ==
    ASSUME OInv, UNCHANGED <<accepted, bytes, origin, wire, conn, nested>>,
           pc' = "close_fd" => Unclaimed,
           Replacing' => (Unclaimed /\ Established' = 0) \/ conn \in nested,
           pc' = "connecting" /\ InConnect' => conn \in nested
    PROVE  OriginInv' /\ ConnectionIsolation'
<1>1. QueuedBytes' = QueuedBytes /\ (Unclaimed' <=> Unclaimed)
  BY DEF QueuedBytes, Unclaimed
<1>2. \A b \in QueuedBytes : origin[b] = 0 \/ Carried(origin[b], conn)'
  BY DEF OInv, OriginInv, Carried
<1>3. OriginInv'
  BY <1>1, <1>2 DEF OInv, OriginInv
<1> QED BY <1>3, IsolationFrame

\* Steps of calls and returns that establish no connection.
LEMMA OriginReturn ==
    ASSUME OInv, UNCHANGED <<accepted, bytes, origin, wire, conn, nested>>,
           pc # "close_fd", pc' \notin {"close_fd", "connecting"}, Replacing' => Replacing,
           valid' => valid, connected' => connected
    PROVE  OriginInv' /\ ConnectionIsolation'
<1>1. Established = 0 => Established' = 0
  BY DEF Established, OInv, WInv, QInv, TypeOK
<1> QED BY <1>1, OriginFrame DEF OInv, OriginInv

\* An emptied queue holds bytes of no connection.
LEMMA OriginClear ==
    ASSUME OInv, ClearQueue, UNCHANGED <<accepted, origin, wire, conn, nested>>,
           \/ pc' = "close_fd"
           \/ pc' \notin {"connect", "connecting"} /\ pc # "close_fd"
              /\ UNCHANGED <<valid, connected, stack>>
    PROVE  OriginInv' /\ ConnectionIsolation'
<1>1. accepted \in Nat
  BY DEF OInv, WInv, QInv, TypeOK
<1>2. bytes' = 0 /\ QueuedBytes' = {} /\ Unclaimed'
  BY <1>1 DEF ClearQueue, QueuedBytes, Unclaimed
<1>3. Replacing' /\ conn \notin nested => Established' = 0
  <2>1. CASE pc' = "close_fd"
    BY <2>1 DEF Established
  <2>2. CASE pc' # "close_fd"
    BY <2>2 DEF Established, Replacing, InConnect, OInv, OriginInv
  <2> QED BY <2>1, <2>2
<1>4. OriginInv'
  BY <1>1, <1>2, <1>3 DEF OInv, OriginInv
<1> QED BY <1>4, IsolationFrame

\* A send hands queued bytes to the connection that carries them.
LEMMA OriginSent ==
    ASSUME OInv, QInv', NEW n \in Nat, FlushSent(n)
    PROVE  OriginInv' /\ ConnectionIsolation'
<1>0. QInv
  BY DEF OInv, WInv
<1>1. /\ accepted \in Nat /\ bytes \in Nat /\ bytes <= accepted /\ bytes' \in Nat
      /\ bytes' = bytes - n /\ UNCHANGED <<accepted, origin, conn, nested, valid, connected, stack>>
      /\ pc = "send" /\ pc' = pc
  BY <1>0 DEF QInv, TypeOK, OInv, OriginInv, FlushSent, Looping, sockVars
<1>2. PICK W : W \in Nat /\ W = Len(wire)
  BY <1>0, WireDomain
<1>3. PICK w : w = wire'
  OBVIOUS
<1>4. /\ Len(w) = W + n /\ DOMAIN w = 1..(W + n)
      /\ \A i \in 1..W : w[i] = wire[i]
      /\ \A k \in 1..n : w[W + k] = [conn |-> conn, byte |-> (accepted - bytes) + k]
  <2>1. wire' \in Seq([conn : Nat, byte : Nat])
    BY DEF QInv, TypeOK
  <2>2. DOMAIN w = 1..Len(w)
    BY <2>1, <1>3, LenProperties
  <2>3. /\ Len(w) = W + n
        /\ \A i \in 1..W : w[i] = wire[i]
        /\ \A k \in 1..n : w[W + k] = [conn |-> conn, byte |-> (accepted - bytes) + k]
    BY <1>0, <1>2, <1>3, SentBytes
  <2> QED BY <2>2, <2>3
<1>5. ASSUME NEW i \in 1..(W + n)
      PROVE  /\ w[i].byte \in 1..accepted
             /\ origin[w[i].byte] = 0 \/ Carried(origin[w[i].byte], w[i].conn)
  <2>1. CASE i \in 1..W
    <3>1. w[i] = wire[i] /\ i \in DOMAIN wire
      BY <2>1, <1>0, <1>2, <1>4, WireDomain
    <3> QED BY <2>1, <3>1, <1>2 DEF OInv, OriginInv, ConnectionIsolation
  <2>2. CASE i \notin 1..W
    <3>1. PICK k \in 1..n : i = W + k
      <4>1. i - W \in 1..n /\ i = W + (i - W)
        BY <2>2, <1>2
      <4> QED BY <4>1
    <3>2. w[i] = [conn |-> conn, byte |-> (accepted - bytes) + k]
      BY <3>1, <1>4
    <3>3. (accepted - bytes) + k \in QueuedBytes /\ (accepted - bytes) + k \in 1..accepted
      BY <1>1 DEF QueuedBytes
    <3>4. \/ origin[(accepted - bytes) + k] = 0
          \/ Carried(origin[(accepted - bytes) + k], conn)
      BY <3>3 DEF OInv, OriginInv
    <3> QED BY <3>2, <3>3, <3>4
  <2> QED BY <2>1, <2>2
<1>6. QueuedBytes' \subseteq QueuedBytes
  BY <1>1 DEF QueuedBytes
<1>7. OriginInv'
  <2>1. \A i \in 1..Len(w) : w[i].byte \in 1..accepted
    BY <1>4, <1>5
  <2>2. bytes' <= accepted' /\ (Unclaimed => Unclaimed')
    BY <1>1, <1>6 DEF Unclaimed
  <2>3. Established' = Established /\ (Replacing' => Replacing) /\ (InConnect' => InConnect)
    BY <1>1 DEF Established, Replacing, InConnect
  <2>4. \A b \in QueuedBytes' : origin[b] = 0 \/ Carried(origin[b], conn)'
    BY <1>1, <1>6 DEF OInv, OriginInv, Carried
  <2> QED BY <2>1, <2>2, <2>3, <2>4, <1>1, <1>3 DEF OInv, OriginInv
<1>8. ConnectionIsolation'
  <2>1. \A i \in DOMAIN w : origin[w[i].byte] = 0 \/ Carried(origin[w[i].byte], w[i].conn)'
    BY <1>1, <1>4, <1>5 DEF Carried
  <2> QED BY <2>1, <1>1, <1>3 DEF ConnectionIsolation
<1> QED BY <1>7, <1>8

\* queue_write stores a payload for the connection established at that moment.
LEMMA OriginStored ==
    ASSUME OInv, NEW n \in Nat, accepted' = accepted + n, bytes' = bytes + n,
           origin' = origin \o [k \in 1..n |-> Established],
           UNCHANGED <<wire, conn, nested, valid, connected, pc, stack>>
    PROVE  OriginInv' /\ ConnectionIsolation'
<1>0. QInv
  BY DEF OInv, WInv
<1>1. /\ accepted \in Nat /\ bytes \in Nat /\ bytes <= accepted /\ conn \in Nat
      /\ origin \in Seq(Nat) /\ Len(origin) = accepted
  BY <1>0 DEF QInv, TypeOK, OInv, OriginInv
<1>2. /\ Established = 0 \/ Carried(Established, conn)
      /\ Established \in Nat /\ (pc = "close_fd" => Established = 0)
  <2>1. conn <= conn /\ conn..(conn - 1) = {}
    BY <1>1
  <2> QED BY <2>1, <1>1 DEF Established, Carried
<1>3. PICK new : new = [k \in 1..n |-> Established]
  OBVIOUS
<1>4. new \in Seq(Nat) /\ Len(new) = n /\ \A k \in 1..n : new[k] = Established
  BY <1>1, <1>2, <1>3
<1>5. PICK o : o = origin'
  OBVIOUS
<1>6. /\ Len(o) = accepted + n
      /\ \A b \in 1..accepted : o[b] = origin[b]
      /\ \A b \in (accepted + 1)..(accepted + n) : o[b] = Established
  <2>1. o = origin \o new
    BY <1>3, <1>5
  <2>2. /\ Len(o) = accepted + n
        /\ \A i \in 1..(accepted + n) :
              o[i] = IF i <= accepted THEN origin[i] ELSE new[i - accepted]
    BY <2>1, <1>1, <1>4, ConcatProperties
  <2>3. \A b \in 1..accepted : o[b] = origin[b]
    BY <2>2, <1>1
  <2>4. ASSUME NEW b \in (accepted + 1)..(accepted + n) PROVE o[b] = Established
    <3>1. b \in 1..(accepted + n) /\ ~(b <= accepted) /\ b - accepted \in 1..n
      BY <1>1
    <3> QED BY <3>1, <2>2, <1>4
  <2> QED BY <2>2, <2>3, <2>4
<1>7. \A b \in QueuedBytes' : \/ b \in QueuedBytes /\ b \in 1..accepted
                             \/ b \in (accepted + 1)..(accepted + n)
  BY <1>1 DEF QueuedBytes
<1>8. \A b \in QueuedBytes' : o[b] = 0 \/ Carried(o[b], conn)'
  <2>1. \A b \in QueuedBytes' : o[b] = 0 \/ Carried(o[b], conn)
    BY <1>2, <1>6, <1>7 DEF OInv, OriginInv
  <2> QED BY <2>1 DEF Carried
<1>8a. Unclaimed /\ Established = 0 => Unclaimed'
  BY <1>5, <1>6, <1>7 DEF Unclaimed
<1>8b. Established' = Established /\ (Replacing' => Replacing) /\ (InConnect' => InConnect)
  BY DEF Established, Replacing, InConnect
<1>9. \A i \in 1..Len(wire) : wire[i].byte \in 1..accepted
  BY DEF OInv, OriginInv
<1>10. OriginInv'
  <2>1. \A i \in 1..Len(wire) : wire[i].byte \in 1..(accepted + n)
    BY <1>1, <1>9
  <2>2. bytes' <= accepted'
    BY <1>1
  <2> QED BY <2>1, <2>2, <1>2, <1>5, <1>6, <1>8, <1>8a, <1>8b DEF OInv, OriginInv
<1>11. ConnectionIsolation'
  <2>1. ASSUME NEW i \in DOMAIN wire
        PROVE  o[wire[i].byte] = 0 \/ Carried(o[wire[i].byte], wire[i].conn)'
    <3>1. wire[i].byte \in 1..accepted
      BY <1>0, <1>9, WireDomain
    <3>2. o[wire[i].byte] = 0 \/ Carried(o[wire[i].byte], wire[i].conn)
      BY <3>1, <1>6 DEF OInv, ConnectionIsolation
    <3> QED BY <3>2 DEF Carried
  <2> QED BY <2>1, <1>5 DEF ConnectionIsolation
<1> QED BY <1>10, <1>11

\* The invariant that ties every byte to its connection is inductive.
LEMMA OInvStep == OInv /\ [Next]_vars => OInv'
<1> SUFFICES ASSUME OInv, [Next]_vars PROVE OriginInv' /\ ConnectionIsolation'
  BY WInvStep DEF OInv
<1>0. QInv /\ QInv'
  BY QInvStep DEF OInv, WInv
<1>stack. (InConnect <=> HasConnect(stack)) /\ (InConnect' <=> HasConnect(stack'))
  BY DEF InConnect, HasConnect
<1>1. CASE FlushEnter \/ FlushInterrupted \/ FlushStop
  <2>1. UNCHANGED <<accepted, bytes, origin, wire, conn, nested, valid, connected>>
    BY <1>1 DEF FlushEnter, FlushInterrupted, FlushStop, histVars, queueVars, sockVars
  <2>2. pc # "close_fd" /\ pc' \in {"send", "flushed"}
    BY <1>1 DEF FlushEnter, FlushInterrupted, FlushStop, Looping, UserRuns
  <2>3. HasConnect(stack') => HasConnect(stack)
    BY <1>0, <1>1, CallerFacts DEF FlushEnter, FlushInterrupted, FlushStop
  <2> QED BY <2>1, <2>2, <2>3, <1>stack, OriginReturn DEF Replacing
<1>1a. ASSUME Return, UNCHANGED <<accepted, bytes, origin, wire, conn, nested>>,
              pc # "close_fd", valid' => valid, connected' => connected
       PROVE  OriginInv' /\ ConnectionIsolation'
  <2>1. /\ pc' \notin {"close_fd", "connecting"}
        /\ pc' = "connect" \/ HasConnect(stack') => HasConnect(stack)
    BY <1>0, <1>1a, ReturnFacts
  <2> QED BY <2>1, <1>1a, <1>stack, OriginReturn DEF Replacing
<1>1b. CASE FlushReport \/ CloseReturn \/ OnConnectReturn
  BY <1>1a, <1>1b DEF FlushReport, CloseReturn, OnConnectReturn, histVars, queueVars, sockVars
<1>2. ASSUME NEW n \in 1..Budget, FlushSent(n) PROVE OriginInv' /\ ConnectionIsolation'
  <2>1. n \in Nat
    BY SizesAssumption
  <2> QED BY <2>1, <1>0, <1>2, OriginSent
<1>3. CASE FlushFail
  <2>1. /\ ClearQueue /\ UNCHANGED <<accepted, origin, wire, conn, nested, valid, connected, stack>>
        /\ pc' = "flushed" /\ pc # "close_fd"
    BY <1>3 DEF FlushFail, Looping, histVars, sockVars
  <2> QED BY <2>1, OriginClear
<1>4. ASSUME NEW returns, BeginClose(returns) PROVE OriginInv' /\ ConnectionIsolation'
  <2>1. /\ ClearQueue /\ UNCHANGED <<accepted, origin, wire, conn, nested>>
        /\ pc' = "close_fd"
    BY <1>4 DEF BeginClose, histVars, sockVars
  <2> QED BY <2>1, OriginClear
<1>4a. CASE Close \/ Connect \/ ConnectFail \/ ConnectNext
  <2>1. CASE ConnectNext
    <3>1. CASE BeginClose(<<"connect">> \o stack)
      BY <3>1, <1>4
    <3>2. CASE /\ connected' \in {connected, FALSE} /\ Return
               /\ UNCHANGED <<queueVars, limit, valid, blocking, conn, nested, flush, call, histVars>>
      <4>1. pc # "close_fd"
        BY <2>1 DEF ConnectNext
      <4>2. connected' => connected
        BY Zenon, <3>2
      <4> QED BY <3>2, <4>1, <4>2, <1>1a DEF queueVars, histVars
    <3> QED BY <2>1, <3>1, <3>2 DEF ConnectNext
  <2> QED BY <2>1, <1>4, <1>4a DEF Close, Connect, ConnectFail
<1>5. CASE CloseFd
  <2>1. UNCHANGED <<accepted, bytes, origin, wire, conn, nested>> /\ ~valid' /\ Unclaimed
    BY <1>5 DEF CloseFd, histVars, queueVars, OInv, OriginInv
  <2>2. Established' = 0 /\ pc' \notin {"close_fd", "connecting"}
    BY <2>1, <1>0, <1>5, ReturnFacts DEF Established, CloseFd
  <2> QED BY <2>1, <2>2, OriginFrame
<1>6. CASE ConnectSocket
  <2>1. /\ UNCHANGED <<accepted, bytes, origin, wire, stack>> /\ pc = "connect" /\ conn \in Nat
        /\ pc' \in {"connecting", "failed"} /\ Replacing /\ nested \subseteq nested'
    BY <1>0, <1>6 DEF ConnectSocket, histVars, queueVars, Replacing, QInv, TypeOK
  <2>2. conn \notin nested => Unclaimed
    BY <2>1 DEF OInv, OriginInv
  <2>3. CASE conn' = conn + 1
    <3>1. pc' = "connecting" /\ (InConnect => conn' \in nested')
      BY <2>1, <2>3, <1>6 DEF ConnectSocket
    <3>2. QueuedBytes' = QueuedBytes /\ (InConnect' <=> InConnect)
      BY <2>1 DEF QueuedBytes, InConnect
    <3>3. ASSUME NEW b \in QueuedBytes PROVE origin[b] = 0 \/ Carried(origin[b], conn)'
      <4>1. CASE conn \notin nested
        BY <4>1, <2>2 DEF Unclaimed
      <4>2. CASE conn \in nested /\ origin[b] # 0
        <5>1. PICK o : o = origin[b]
          OBVIOUS
        <5>2. o \in Nat
          <6>1. /\ accepted \in Nat /\ bytes \in Nat /\ bytes <= accepted
                /\ Len(origin) = accepted /\ origin \in Seq(Nat)
            BY <1>0 DEF QInv, TypeOK, OInv, OriginInv
          <6>2. b \in 1..Len(origin)
            BY <6>1 DEF QueuedBytes
          <6> QED BY <5>1, <6>1, <6>2, ElementOfSeq
        <5>3. o <= conn /\ \A k \in o..(conn - 1) : k \in nested
          BY <4>2, <5>1 DEF OInv, OriginInv, Carried
        <5>4. o <= conn + 1 /\ \A k \in o..((conn + 1) - 1) : k = conn \/ k \in o..(conn - 1)
          BY <2>1, <5>2, <5>3
        <5>5. \A k \in o..((conn + 1) - 1) : k \in nested'
          BY <2>1, <4>2, <5>3, <5>4
        <5> QED BY <2>1, <2>3, <5>1, <5>4, <5>5 DEF Carried
      <4> QED BY <4>1, <4>2
    <3>4. OriginInv'
      BY <2>1, <2>3, <3>1, <3>2, <3>3 DEF OInv, OriginInv, Replacing
    <3> QED BY <2>1, <3>4, IsolationFrame
  <2>4. CASE UNCHANGED <<conn, nested>> /\ ~valid' /\ pc' = "failed"
    <3>1. Established' = 0
      BY <2>4 DEF Established
    <3> QED BY <2>1, <2>2, <2>4, <3>1, OriginFrame
  <2> QED BY <2>3, <2>4, <1>6 DEF ConnectSocket
<1>7. CASE ConnectOk
  <2>1. /\ UNCHANGED <<accepted, bytes, origin, wire, conn, nested, stack>>
        /\ pc = "connecting" /\ pc' = "finish"
    BY <1>7 DEF ConnectOk, histVars, queueVars
  <2>2. Replacing' => conn \in nested
    BY <2>1 DEF Replacing, InConnect, OInv, OriginInv
  <2> QED BY <2>1, <2>2, OriginFrame
<1>7a. CASE FinishConnect
  <2>1. CASE Return /\ valid' = FALSE /\ connected' = FALSE
    BY <2>1, <1>1a, <1>7a DEF FinishConnect, histVars, queueVars
  <2>2. CASE pc' = "on_connect" /\ UNCHANGED <<valid, connected, stack>>
    <3>1. UNCHANGED <<accepted, bytes, origin, wire, conn, nested>> /\ pc = "finish"
      BY <1>7a DEF FinishConnect, histVars, queueVars
    <3>2. Replacing' => Replacing
      BY <2>2 DEF Replacing, InConnect
    <3> QED BY <2>2, <3>1, <3>2, OriginReturn
  <2> QED BY <2>1, <2>2, <1>7a DEF FinishConnect
<1>8. ASSUME NEW flag \in BOOLEAN, SetBlocking(flag) PROVE OriginInv' /\ ConnectionIsolation'
  <2>1. UNCHANGED <<accepted, bytes, origin, wire, conn, nested, valid, connected, pc, stack>>
        /\ pc \notin {"close_fd", "connecting"}
    BY <1>8 DEF SetBlocking, UserRuns, histVars, queueVars
  <2>2. Replacing' => Replacing
    BY <2>1 DEF Replacing, InConnect
  <2> QED BY <2>1, <2>2, OriginReturn
<1>9. ASSUME UNCHANGED <<accepted, bytes, origin, wire, conn, nested, valid, connected, pc, stack>>
      PROVE  OriginInv' /\ ConnectionIsolation'
  <2>1. Established' = Established /\ (Replacing' => Replacing) /\ (InConnect' => InConnect)
    BY <1>9 DEF Established, Replacing, InConnect
  <2> QED BY <2>1, <1>9, OriginFrame DEF OInv, OriginInv
<1>10. ASSUME NEW p \in Producers, QueueWriteLocked(p) PROVE OriginInv' /\ ConnectionIsolation'
  <2>1. UNCHANGED <<wire, conn, nested, valid, connected, pc, stack>>
    BY <1>10 DEF QueueWriteLocked, sockVars
  <2>2. CASE UNCHANGED <<queueVars, accepted, origin>>
    BY <2>1, <2>2, <1>9 DEF queueVars
  <2>3. CASE /\ accepted' = accepted + call[p] /\ bytes' = bytes + call[p]
             /\ origin' = origin \o [k \in 1..call[p] |-> Established]
    <3>1. call[p] \in Nat
      BY <1>0 DEF QInv, TypeOK
    <3> QED BY <2>1, <2>3, <3>1, OriginStored
  <2> QED BY <2>2, <2>3, <1>10 DEF QueueWriteLocked
<1>11. CASE \/ \E p \in Producers, n \in Sizes : QueueWriteTest(p, n)
            \/ \E l \in Limits : SetMaxQueuedBytes(l)
            \/ UNCHANGED vars
  <2>1. UNCHANGED <<accepted, bytes, origin, wire, conn, nested, valid, connected, pc, stack>>
    BY <1>11 DEF QueueWriteTest, SetMaxQueuedBytes, vars, histVars, queueVars, sockVars
  <2> QED BY <2>1, <1>9
<1> QED BY <1>1, <1>1b, <1>2, <1>3, <1>4a, <1>5, <1>6, <1>7, <1>7a, <1>8, <1>10, <1>11
        DEF Next, FlushStep, ConnectionStep, ProducerStep

\* Bytes accepted while a connection is established are sent on that connection
\* or never, whatever producers, flushes, closes and reconnects interleave, except
\* that a connect() whose own on_close handler connected takes over what was queued.
THEOREM Isolated == Spec => []ConnectionIsolation
<1>1. Init => OInv
  <2> SUFFICES ASSUME Init PROVE OriginInv /\ ConnectionIsolation
    BY WInvInit DEF OInv
  <2>1. /\ accepted = 0 /\ bytes = 0 /\ pc = "idle" /\ Len(origin) = 0 /\ Len(wire) = 0
        /\ DOMAIN wire = {}
    BY DEF Init
  <2>2. QueuedBytes = {} /\ 1..Len(wire) = {} /\ Unclaimed
    BY <2>1 DEF QueuedBytes, Unclaimed
  <2>3. ~Replacing /\ ~InConnect
    BY <2>1 DEF Init, Replacing, InConnect
  <2> QED BY <2>1, <2>2, <2>3 DEF OriginInv, ConnectionIsolation
<1>2. OInv => ConnectionIsolation
  BY DEF OInv
<1> QED BY <1>1, <1>2, OInvStep, PTL DEF Spec

-------------------------------------------------------------------------------
(* What a drain means.                                                     *)

\* Byte b was handed to the transport of the connection in use.
OnWire(b) == \E i \in DOMAIN wire : wire[i] = [conn |-> conn, byte |-> b]

\* While a flush holds the mutex: what it found queued is first..last, and of that
\* exactly what is not queued any more is on the wire of this connection.
FlushInv ==
    pc = "send" => /\ flush.last = accepted /\ flush.first <= accepted - bytes + 1
                   /\ (flush.was_nonempty <=> flush.first <= flush.last)
                   /\ \A b \in flush.first..(accepted - bytes) : OnWire(b)

DInv == WInv /\ FlushInv /\ DrainExact

\* Numbers of a flush in progress.
LEMMA FlushTypes ==
    ASSUME QInv
    PROVE  /\ accepted \in Nat /\ bytes \in Nat /\ flush.first \in Nat /\ flush.last \in Nat
           /\ flush.was_nonempty \in BOOLEAN /\ flush.drained \in BOOLEAN
BY DEF QInv, TypeOK

\* While bytes are queued the newest accepted byte is on no wire.
LEMMA QueuedNotOnWire ==
    ASSUME WInv, bytes # 0 PROVE ~OnWire(accepted)
<1>0. QInv
  BY DEF WInv
<1>1. accepted \in Nat /\ bytes \in Nat /\ DOMAIN wire = 1..Len(wire)
  BY <1>0, FlushTypes, WireDomain
<1>2. ASSUME NEW i \in DOMAIN wire, wire[i] = [conn |-> conn, byte |-> accepted] PROVE FALSE
  <2>1. wire[i].byte <= accepted - bytes
    BY <1>1 DEF WInv, WireMatchesQueue
  <2>2. wire[i].byte = accepted
    BY <1>2
  <2> QED BY <2>1, <2>2, <1>1
<1> QED BY <1>2 DEF OnWire

\* A send puts the oldest queued bytes on the wire and nothing off it.
LEMMA SentOnWire ==
    ASSUME DInv, QInv', NEW n \in Nat, FlushSent(n) PROVE FlushInv'
<1>0. QInv
  BY DEF DInv, WInv
<1>1. /\ accepted \in Nat /\ bytes \in Nat /\ flush.first \in Nat
      /\ accepted' = accepted /\ bytes' = bytes - n /\ conn' = conn /\ pc = "send"
  BY <1>0, FlushTypes DEF FlushSent, Looping, sockVars
<1>2. /\ flush'.first = flush.first /\ flush'.last = flush.last
      /\ flush'.was_nonempty = flush.was_nonempty
  BY <1>0 DEF FlushSent, QInv, TypeOK
<1>3. /\ flush.last = accepted /\ flush.first <= accepted - bytes + 1
      /\ (flush.was_nonempty <=> flush.first <= flush.last)
      /\ \A b \in flush.first..(accepted - bytes) : OnWire(b)
  BY <1>1 DEF DInv, FlushInv
<1>4. PICK W : W \in Nat /\ W = Len(wire) /\ DOMAIN wire = 1..W
  BY <1>0, WireDomain
<1>5. PICK w : w = wire'
  OBVIOUS
<1>6. /\ DOMAIN w = 1..(W + n)
      /\ \A i \in 1..W : w[i] = wire[i]
      /\ \A k \in 1..n : w[W + k] = [conn |-> conn, byte |-> (accepted - bytes) + k]
  <2>1. wire' \in Seq([conn : Nat, byte : Nat])
    BY DEF QInv, TypeOK
  <2>2. DOMAIN w = 1..Len(w)
    BY <2>1, <1>5, LenProperties
  <2>3. /\ Len(w) = W + n
        /\ \A i \in 1..W : w[i] = wire[i]
        /\ \A k \in 1..n : w[W + k] = [conn |-> conn, byte |-> (accepted - bytes) + k]
    BY <1>0, <1>4, <1>5, SentBytes
  <2> QED BY <2>2, <2>3
<1>7. ASSUME NEW b \in flush.first..(accepted - bytes + n)
      PROVE  \E i \in DOMAIN w : w[i] = [conn |-> conn, byte |-> b]
  <2>1. CASE b \in flush.first..(accepted - bytes)
    <3>1. PICK i \in 1..W : wire[i] = [conn |-> conn, byte |-> b]
      BY <2>1, <1>3, <1>4 DEF OnWire
    <3>2. i \in DOMAIN w /\ w[i] = wire[i]
      BY <1>4, <1>6
    <3> QED BY <3>1, <3>2
  <2>2. CASE b \notin flush.first..(accepted - bytes)
    <3>1. PICK k \in 1..n : b = (accepted - bytes) + k
      <4>1. b - (accepted - bytes) \in 1..n /\ b = (accepted - bytes) + (b - (accepted - bytes))
        BY <2>2, <1>1
      <4> QED BY <4>1
    <3>2. W + k \in DOMAIN w
      BY <1>4, <1>6
    <3>3. w[W + k] = [conn |-> conn, byte |-> b]
      BY <3>1, <1>6
    <3> QED BY <3>2, <3>3
  <2> QED BY <2>1, <2>2
<1>8. accepted' - bytes' = accepted - bytes + n /\ flush.first <= accepted' - bytes' + 1
  BY <1>1, <1>3
<1>9. \A b \in flush'.first..(accepted' - bytes') : \E i \in DOMAIN w : w[i] = [conn |-> conn', byte |-> b]
  BY <1>1, <1>2, <1>7, <1>8
<1> QED BY <1>1, <1>2, <1>3, <1>5, <1>8, <1>9 DEF FlushInv, OnWire

\* The invariant of a flush and of its result is inductive.
LEMMA DInvStep == DInv /\ [Next]_vars => DInv'
<1> SUFFICES ASSUME DInv, [Next]_vars PROVE FlushInv' /\ DrainExact'
  BY WInvStep DEF DInv
<1>0. WInv /\ QInv /\ QInv'
  BY QInvStep DEF DInv, WInv
<1>1. /\ accepted \in Nat /\ bytes \in Nat /\ flush.first \in Nat /\ flush.last \in Nat
      /\ flush.was_nonempty \in BOOLEAN
  BY <1>0, FlushTypes
<1>2. ASSUME pc' \notin {"send", "flushed"} PROVE FlushInv' /\ DrainExact'
  BY <1>2 DEF FlushInv, DrainExact
<1>3. CASE FlushEnter
  <2>1. /\ flush'.first = accepted - bytes + 1 /\ flush'.last = accepted
        /\ flush'.was_nonempty = (bytes # 0)
        /\ UNCHANGED <<accepted, bytes, wire, conn>> /\ pc' = "send"
    BY <1>3 DEF FlushEnter, NoFlush, queueVars, sockVars, histVars
  <2>2. flush'.first..(accepted - bytes) = {}
    BY <2>1, <1>1
  <2>3. (bytes # 0) <=> (accepted - bytes + 1 <= accepted)
    BY <1>1
  <2>4. accepted - bytes + 1 <= accepted' - bytes' + 1
    BY <2>1, <1>1
  <2> QED BY <2>1, <2>2, <2>3, <2>4 DEF FlushInv, DrainExact
<1>4. ASSUME NEW n \in 1..Budget, FlushSent(n) PROVE FlushInv' /\ DrainExact'
  <2>1. n \in Nat /\ pc' = "send"
    BY <1>4, SizesAssumption DEF FlushSent, Looping
  <2> QED BY <2>1, <1>0, <1>4, SentOnWire DEF DrainExact
<1>5. CASE FlushInterrupted
  <2>1. /\ flush'.first = flush.first /\ flush'.last = flush.last
        /\ flush'.was_nonempty = flush.was_nonempty
    BY <1>5, <1>0 DEF FlushInterrupted, QInv, TypeOK
  <2>2. UNCHANGED <<accepted, bytes, wire, conn>> /\ pc = "send" /\ pc' = "send"
    BY <1>5 DEF FlushInterrupted, Looping, queueVars, sockVars, histVars
  <2> QED BY <2>1, <2>2 DEF DInv, FlushInv, OnWire, DrainExact
<1>6. ASSUME pc = "send", pc' = "flushed", UNCHANGED <<wire, conn, accepted>>,
             flush'.first = flush.first, flush'.last = flush.last,
             flush'.drained <=> flush.was_nonempty /\ bytes = 0
      PROVE  FlushInv' /\ DrainExact'
  <2>1. /\ flush.last = accepted /\ (flush.was_nonempty <=> flush.first <= flush.last)
        /\ \A b \in flush.first..(accepted - bytes) : OnWire(b)
    BY <1>6 DEF DInv, FlushInv
  <2>2. flush'.drained <=> /\ flush.first <= flush.last
                           /\ \A b \in flush.first..flush.last : OnWire(b)
    <3>1. CASE bytes = 0
      <4>1. accepted - bytes = flush.last
        BY <2>1, <3>1, <1>1
      <4> QED BY <2>1, <3>1, <4>1, <1>6
    <3>2. CASE bytes # 0
      <4>1. ~OnWire(flush.last)
        BY <2>1, <3>2, <1>0, QueuedNotOnWire
      <4>2. flush.first <= flush.last => flush.last \in flush.first..flush.last
        BY <1>1
      <4> QED BY <3>2, <4>1, <4>2, <1>6
    <3> QED BY <3>1, <3>2
  <2> QED BY <2>2, <1>6 DEF FlushInv, DrainExact, OnWire
<1>7. CASE FlushStop
  <2>1. /\ flush'.first = flush.first /\ flush'.last = flush.last
        /\ flush'.drained <=> flush.was_nonempty /\ bytes = 0
    BY <1>7, <1>0 DEF FlushStop, QInv, TypeOK
  <2> QED BY <2>1, <1>6, <1>7 DEF FlushStop, sockVars, histVars
<1>8. CASE FlushFail
  <2>1. /\ flush'.first = flush.first /\ flush'.last = flush.last
        /\ ~flush'.drained /\ flush'.drained \in BOOLEAN
    BY <1>8, <1>0 DEF FlushFail, QInv, TypeOK
  <2>2. bytes # 0 /\ pc = "send" /\ pc' = "flushed" /\ UNCHANGED <<wire, conn, accepted>>
    BY <1>8 DEF FlushFail, Looping, sockVars, histVars
  <2> QED BY <2>1, <2>2, <1>6
<1>9. CASE FlushReport
  BY <1>0, <1>2, <1>9, ReturnFacts DEF FlushReport
<1>10. CASE ConnectionStep
  <2>1. pc' \notin {"send", "flushed"}
    BY <1>10, <1>0, ReturnFacts DEF ConnectionStep, Close, Connect, ConnectFail, ConnectNext, BeginClose,
       CloseFd, CloseReturn, ConnectSocket, ConnectOk, FinishConnect, OnConnectReturn, SetBlocking, UserRuns
  <2> QED BY <2>1, <1>2
<1>11. ASSUME UNCHANGED <<flush, wire, conn, pc>>, pc = "send" => UNCHANGED <<accepted, bytes>>
       PROVE  FlushInv' /\ DrainExact'
  <2>1. FlushInv'
    BY <1>11 DEF DInv, FlushInv, OnWire
  <2>2. DrainExact'
    BY <1>11 DEF DInv, DrainExact
  <2> QED BY <2>1, <2>2
<1>12. CASE ProducerStep \/ UNCHANGED vars
  <2>1. UNCHANGED <<flush, wire, conn, pc>> /\ (pc = "send" => UNCHANGED <<accepted, bytes>>)
    BY <1>12 DEF ProducerStep, QueueWriteTest, QueueWriteLocked, SetMaxQueuedBytes, vars,
                 queueVars, sockVars, histVars
  <2> QED BY <2>1, <1>11
<1> QED BY <1>3, <1>4, <1>5, <1>7, <1>8, <1>9, <1>10, <1>12 DEF Next, FlushStep

\* A drain is reported exactly when the flush began with bytes queued and put every
\* one of them on this connection: for every budget, every pattern of partial,
\* interrupted and failed sends, and producers that refill the queue right after.
THEOREM DrainReported == Spec => []DrainExact
<1>1. Init => DInv
  <2> SUFFICES ASSUME Init PROVE FlushInv /\ DrainExact
    BY WInvInit DEF DInv
  <2> QED BY DEF Init, FlushInv, DrainExact
<1>2. DInv => DrainExact
  BY DEF DInv
<1> QED BY <1>1, <1>2, DInvStep, PTL DEF Spec

-------------------------------------------------------------------------------
(* The queue implements the bounded byte stream of OutputStream.           *)

\* The b bytes that end with byte a.
Newest(a, b) == [k \in 1..b |-> (a - b) + k]

\* A non-empty set of naturals has a least element.
LEMMA LeastNumber ==
    ASSUME NEW S \in SUBSET Nat, S # {}
    PROVE  \E d \in S : \A e \in S : d <= e
<1> DEFINE R == {ss \in Nat \X Nat : ss[1] < ss[2]}
<1>1. IsWellFoundedOn(R, Nat)
  BY NatLessThanWellFounded DEF OpToRel
<1> HIDE DEF R
<1>2. PICK d \in S : \A e \in S : ~(<<e, d>> \in R)
  BY <1>1, WFMin
<1>3. \A e \in S : ~(e < d)
  BY <1>2 DEF R
<1> QED BY <1>2, <1>3

\* The equation that the concatenation of the first i chunks of s satisfies.
Concatenates(f, s) ==
    f = [i \in 1..Len(s) |-> IF i = 1 THEN s[i] ELSE f[i - 1] \o s[i]]

\* That equation has at most one solution: at the first place where two solutions
\* differ they agree on the place before.
LEMMA ConcatenatesOnce ==
    ASSUME NEW s, Len(s) \in Nat, NEW f, NEW g, Concatenates(f, s), Concatenates(g, s)
    PROVE  \A i \in 1..Len(s) : f[i] = g[i]
<1> DEFINE S == {i \in 1..Len(s) : f[i] # g[i]}
<1>1. ASSUME S # {} PROVE FALSE
  <2>1. S \in SUBSET Nat
    OBVIOUS
  <2>2. PICK d \in S : \A e \in S : d <= e
    BY <1>1, <2>1, LeastNumber
  <2>3. d \in 1..Len(s) /\ f[d] # g[d]
    OBVIOUS
  <2>4. f[d] = IF d = 1 THEN s[d] ELSE f[d - 1] \o s[d]
    BY <2>3 DEF Concatenates
  <2>5. g[d] = IF d = 1 THEN s[d] ELSE g[d - 1] \o s[d]
    BY <2>3 DEF Concatenates
  <2>6. d # 1 /\ f[d - 1] # g[d - 1]
    BY <2>3, <2>4, <2>5
  <2>7. d - 1 \in 1..Len(s)
    BY <2>3, <2>6
  <2>8. d - 1 \in S
    BY <2>6, <2>7
  <2> QED BY <2>2, <2>3, <2>8
<1> QED BY <1>1

\* Whatever solves the equation ends with what FlattenSeq returns.
LEMMA FlattenIs ==
    ASSUME NEW s, Len(s) \in Nat, Len(s) # 0, NEW w, Concatenates(w, s)
    PROVE  FlattenSeq(s) = w[Len(s)]
<1> DEFINE g == CHOOSE f : Concatenates(f, s)
<1>1. Concatenates(g, s)
  BY Zenon
<1>2. FlattenSeq(s) = g[Len(s)]
  BY DEF FlattenSeq, Concatenates
<1> HIDE DEF g
<1>3. \A i \in 1..Len(s) : g[i] = w[i]
  BY <1>1, ConcatenatesOnce
<1>4. Len(s) \in 1..Len(s)
  OBVIOUS
<1> QED BY <1>2, <1>3, <1>4

\* m consecutive bytes from f on.
Run(f, m) == [k \in 1..m |-> f + k - 1]

\* Run is a sequence.
LEMMA RunFacts ==
    ASSUME NEW f \in Nat, NEW m \in Nat
    PROVE  /\ Run(f, m) \in Seq(Nat) /\ Len(Run(f, m)) = m
           /\ \A k \in 1..m : Run(f, m)[k] = f + k - 1
BY DEF Run

\* A chunk that goes on where a run ends makes it longer.
LEMMA RunJoins ==
    ASSUME NEW f \in Nat, NEW m \in Nat, NEW c \in Seq(Nat),
           \A j \in 1..Len(c) : c[j] = (f + m) + j - 1
    PROVE  Run(f, m) \o c = Run(f, m + Len(c))
<1>1. PICK r : r = Run(f, m)
  OBVIOUS
<1>2. PICK n \in Nat : n = Len(c)
  OBVIOUS
<1>3. r \in Seq(Nat) /\ Len(r) = m /\ \A k \in 1..m : r[k] = f + k - 1
  BY <1>1, RunFacts
<1>4. PICK t : t = Run(f, m + n)
  OBVIOUS
<1>5. t \in Seq(Nat) /\ Len(t) = m + n /\ \A k \in 1..(m + n) : t[k] = f + k - 1
  <2>1. m + n \in Nat
    OBVIOUS
  <2> QED BY <2>1, <1>4, RunFacts
<1>6. PICK u : u = r \o c
  OBVIOUS
<1>7. /\ u \in Seq(Nat) /\ Len(u) = m + n
      /\ \A i \in 1..(m + n) : u[i] = IF i <= m THEN r[i] ELSE c[i - m]
  <2>1. /\ u \in Seq(Nat) /\ Len(u) = Len(r) + Len(c)
        /\ \A i \in 1..(Len(r) + Len(c)) : u[i] = IF i <= Len(r) THEN r[i] ELSE c[i - Len(r)]
    BY <1>3, <1>6, ConcatProperties
  <2>2. Len(r) = m /\ Len(c) = n
    BY <1>2, <1>3
  <2> QED BY <2>1, <2>2
<1>8. ASSUME NEW i \in 1..(m + n) PROVE u[i] = t[i]
  <2>1. CASE i <= m
    BY <2>1, <1>3, <1>5, <1>7
  <2>2. CASE ~(i <= m)
    <3>1. i - m \in 1..n
      BY <2>2
    <3>2. c[i - m] = (f + m) + (i - m) - 1
      BY <3>1, <1>2
    <3>3. u[i] = f + i - 1
      BY <2>2, <3>2, <1>7
    <3> QED BY <3>3, <1>5
  <2> QED BY <2>1, <2>2
<1>9. u = t
  BY <1>5, <1>7, <1>8, SeqEqual
<1> QED BY <1>1, <1>2, <1>4, <1>6, <1>9

\* The numbers of the queue, and the model's bound on them.
RInv == QInv /\ bytes <= accepted /\ accepted <= MaxBytes

\* Newest is a sequence.
LEMMA NewestFacts ==
    ASSUME NEW a \in Nat, NEW b \in Nat
    PROVE  /\ Newest(a, b) \in Seq(Int) /\ Len(Newest(a, b)) = b
           /\ \A k \in 1..b : Newest(a, b)[k] = (a - b) + k
BY DEF Newest

\* Chunks that hold consecutive bytes, one after the other, flatten to one run.
LEMMA ChunksFlatten ==
    ASSUME NEW s \in Chunks, NEW off, NEW b, NEW a \in Nat, Holds(s, off, b, a), Len(s) # 0
    PROVE  /\ s[1][1] \in Nat /\ a + 1 - s[1][1] \in Nat
           /\ FlattenSeq(s) = Run(s[1][1], a + 1 - s[1][1])
<1>1. PICK N \in Nat : N = Len(s) /\ N # 0
  BY DEF Chunks
<1>2. \A i \in 1..N : /\ s[i] \in Seq(Nat) /\ Len(s[i]) \in Nat \ {0} /\ s[i][1] \in Nat
                      /\ s[i][1] + Len(s[i]) <= a + 1
  BY <1>1, ChunkFacts
<1>3. PICK f : f = s[1][1]
  OBVIOUS
<1>4. f \in Nat /\ a + 1 - f \in Nat
  <2>1. 1 \in 1..N
    BY <1>1
  <2>2. f \in Nat /\ Len(s[1]) \in Nat /\ f + Len(s[1]) <= a + 1
    BY <2>1, <1>2, <1>3
  <2> QED BY <2>2
<1> DEFINE end(i) == s[i][1] + Len(s[i]) - f
<1>5. ASSUME NEW i \in 1..N PROVE end(i) \in Nat
  <2>0. PICK x \in Nat, l \in Nat : x = s[i][1] /\ l = Len(s[i])
    BY <1>2
  <2>1. CASE i = 1
    <3>1. x = f
      BY <2>0, <2>1, <1>3
    <3>2. x + l - f \in Nat
      BY <3>1
    <3> QED BY <2>0, <3>2
  <2>2. CASE i # 1
    <3>1. 1 \in 1..N /\ 1 < i
      BY <2>2, <1>1
    <3>2. s[1][1] + Len(s[1]) <= s[i][1]
      BY <3>1, <1>1 DEF Holds
    <3>3. PICK h \in Nat : h = Len(s[1])
      BY <3>1, <1>2
    <3>4. f + h <= x
      BY <2>0, <3>2, <3>3, <1>3
    <3>5. x + l - f \in Nat
      BY <3>4, <1>4
    <3> QED BY <2>0, <3>5
  <2> QED BY <2>1, <2>2
<1>6. ASSUME NEW i \in 1..N, i # 1 PROVE Run(f, end(i - 1)) \o s[i] = Run(f, end(i))
  <2>1. i - 1 \in 1..N /\ i - 1 \in 1..(N - 1) /\ (i - 1) + 1 = i
    BY <1>6
  <2>2. s[i][1] = s[i - 1][1] + Len(s[i - 1])
    BY <2>1, <1>1 DEF Holds
  <2>3. end(i - 1) \in Nat
    BY <2>1, <1>5
  <2>4. /\ s[i] \in Seq(Nat) /\ Len(s[i]) \in Nat /\ s[i][1] \in Nat
        /\ Len(s[i - 1]) \in Nat /\ s[i - 1][1] \in Nat
    BY <2>1, <1>2
  <2>5. f + end(i - 1) = s[i][1] /\ end(i - 1) + Len(s[i]) = end(i)
    <3>1. PICK x \in Nat, l \in Nat, y \in Nat, h \in Nat :
             /\ x = s[i][1] /\ l = Len(s[i])
             /\ y = s[i - 1][1] /\ h = Len(s[i - 1])
      BY <2>4
    <3>2. f + (y + h - f) = x /\ (y + h - f) + l = x + l - f
      <4>1. x = y + h
        BY <2>2, <3>1
      <4> QED BY <4>1, <1>4
    <3> QED BY <3>1, <3>2
  <2>6. \A j \in 1..Len(s[i]) : s[i][j] = s[i][1] + j - 1
    BY <1>1 DEF Holds
  <2>7. PICK m \in Nat : m = end(i - 1)
    BY <2>3
  <2>8. PICK c \in Seq(Nat) : c = s[i]
    BY <2>4
  <2>9. \A j \in 1..Len(c) : c[j] = (f + m) + j - 1
    BY <2>5, <2>6, <2>7, <2>8
  <2>10. Run(f, m) \o c = Run(f, m + Len(c))
    BY <2>9, <1>4, RunJoins
  <2> QED BY <2>5, <2>7, <2>8, <2>10
<1>7. s[1] = Run(f, end(1))
  <2>1. 1 \in 1..N
    BY <1>1
  <2>2. s[1] \in Seq(Nat) /\ Len(s[1]) \in Nat /\ end(1) = Len(s[1])
    BY <2>1, <1>2, <1>3, <1>4
  <2>3. \A j \in 1..Len(s[1]) : s[1][j] = f + j - 1
    BY <2>1, <1>1, <1>3 DEF Holds
  <2>4. PICK c \in Seq(Nat) : c = s[1]
    BY <2>2
  <2>5. PICK r : r = Run(f, Len(c))
    OBVIOUS
  <2>6. Len(c) \in Nat /\ \A j \in 1..Len(c) : c[j] = f + j - 1
    BY <2>2, <2>3, <2>4
  <2>7. r \in Seq(Nat) /\ Len(r) = Len(c) /\ \A j \in 1..Len(c) : r[j] = f + j - 1
    BY <2>5, <2>6, <1>4, RunFacts
  <2>8. c = r
    BY <2>6, <2>7, SeqEqual
  <2> QED BY <2>2, <2>4, <2>5, <2>8
<1> DEFINE w == [i \in 1..N |-> Run(f, end(i))]
<1>8. ASSUME NEW i \in 1..N PROVE w[i] = IF i = 1 THEN s[i] ELSE w[i - 1] \o s[i]
  <2>1. w[i] = Run(f, end(i))
    OBVIOUS
  <2>2. CASE i = 1
    BY <2>1, <2>2, <1>7
  <2>3. CASE i # 1
    <3>1. i - 1 \in 1..N
      BY <2>3
    <3>2. w[i - 1] = Run(f, end(i - 1))
      BY <3>1
    <3> QED BY <2>1, <2>3, <3>2, <1>6
  <2> QED BY <2>2, <2>3
<1>9. Len(s) \in 1..N /\ w[Len(s)] = Run(f, end(Len(s)))
  BY <1>1
<1>10. DOMAIN w = 1..N /\ w = [i \in DOMAIN w |-> w[i]]
  OBVIOUS
<1> HIDE DEF w
<1>11. Concatenates(w, s)
  BY <1>1, <1>8, <1>10 DEF Concatenates
<1>12. FlattenSeq(s) = w[Len(s)]
  BY <1>1, <1>11, FlattenIs
<1>13. end(Len(s)) = a + 1 - f
  <2>1. s[Len(s)][1] + Len(s[Len(s)]) = a + 1
    BY <1>1 DEF Holds
  <2>2. PICK x \in Nat, l \in Nat : x = s[Len(s)][1] /\ l = Len(s[Len(s)])
    BY <1>2, <1>9
  <2>3. x + l = a + 1
    BY <2>1, <2>2
  <2>4. x + l - f = a + 1 - f
    BY <2>3, <1>4
  <2> QED BY <2>2, <2>4
<1> QED BY <1>3, <1>4, <1>9, <1>12, <1>13

\* What QueueConsistent says of the chunks is what the stream has queued.
LEMMA QueuedIsNewest ==
    ASSUME NEW s \in Chunks, NEW off \in Nat, NEW b \in Nat, NEW a \in Nat, Holds(s, off, b, a)
    PROVE  SubSeq(FlattenSeq(s), off + 1, Len(FlattenSeq(s))) = Newest(a, b)
<1>1. PICK t : t = Newest(a, b)
  OBVIOUS
<1>2. t \in Seq(Int) /\ Len(t) = b /\ \A k \in 1..b : t[k] = (a - b) + k
  BY <1>1, NewestFacts
<1>3. CASE Len(s) = 0
  <2>1. s = <<>> /\ off = 0 /\ b = 0
    BY <1>3, EmptySeq DEF Holds, Chunks
  <2>2. FlattenSeq(s) = <<>>
    BY <2>1, <1>3 DEF FlattenSeq
  <2>3. SubSeq(<<>>, 1, 0) = <<>>
    OBVIOUS
  <2>4. t = <<>>
    BY <2>1, <1>2, EmptySeq
  <2>5. Len(FlattenSeq(s)) = 0 /\ off + 1 = 1
    BY <2>1, <2>2
  <2> QED BY <2>2, <2>3, <2>4, <2>5, <1>1
<1>4. CASE Len(s) # 0
  <2>1. PICK f \in Nat : f = s[1][1] /\ a + 1 - f \in Nat /\ FlattenSeq(s) = Run(f, a + 1 - f)
    BY <1>4, ChunksFlatten
  <2>2. PICK m \in Nat : m = a + 1 - f
    BY <2>1
  <2>3. PICK r : r = Run(f, m)
    OBVIOUS
  <2>4. r \in Seq(Nat) /\ Len(r) = m /\ \A k \in 1..m : r[k] = f + k - 1
    BY <2>3, RunFacts
  <2>5. f + off = a + 1 - b
    BY <2>1, <1>4 DEF Holds
  <2>6. b = m - off /\ off <= m
    BY <2>2, <2>5
  <2>7. PICK u : u = SubSeq(r, off + 1, m)
    OBVIOUS
  <2>8. u \in Seq(Nat) /\ Len(u) = b /\ \A k \in 1..b : u[k] = r[off + 1 + k - 1]
    <3>1. \A i \in (off + 1)..m : r[i] \in Nat
      BY <2>4, ElementOfSeq
    <3>2. /\ off + 1 \in Int /\ m \in Int
          /\ (IF off + 1 <= m THEN m - (off + 1) + 1 ELSE 0) = b
      BY <2>6
    <3>3. /\ u \in Seq(Nat) /\ Len(u) = (IF off + 1 <= m THEN m - (off + 1) + 1 ELSE 0)
          /\ \A k \in 1..(m - (off + 1) + 1) : u[k] = r[off + 1 + k - 1]
      BY <3>1, <3>2, <2>7, SubSeqProperties
    <3>4. m - (off + 1) + 1 = b
      BY <2>6
    <3> QED BY <3>2, <3>3, <3>4
  <2>9. ASSUME NEW k \in 1..b PROVE u[k] = t[k]
    <3>1. off + 1 + k - 1 \in 1..m /\ f + (off + 1 + k - 1) - 1 = (a - b) + k
      BY <2>5, <2>6
    <3> QED BY <3>1, <2>4, <2>8, <1>2
  <2>10. u = t
    <3>1. u \in Seq(Int)
      <4>1. \A k \in 1..b : u[k] \in Int
        BY <2>9, <1>2
      <4> QED BY <4>1, <2>8
    <3> QED BY <3>1, <2>8, <2>9, <1>2, SeqEqual
  <2> QED BY <2>1, <2>2, <2>3, <2>4, <2>7, <2>10, <1>1
<1> QED BY <1>3, <1>4

\* The stream's queue before and after a step.
LEMMA StreamQueue ==
    ASSUME RInv, RInv'
    PROVE  Queued = Newest(accepted, bytes) /\ Queued' = Newest(accepted', bytes')
<1>1. /\ chunks \in Chunks /\ front_offset \in Nat /\ bytes \in Nat /\ accepted \in Nat
      /\ Holds(chunks, front_offset, bytes, accepted)
  BY DEF RInv, QInv, TypeOK, QueueConsistent, Chunks
<1>2. /\ chunks' \in Chunks /\ front_offset' \in Nat /\ bytes' \in Nat /\ accepted' \in Nat
      /\ Holds(chunks', front_offset', bytes', accepted')
  BY DEF RInv, QInv, TypeOK, QueueConsistent, Chunks
<1>3. Queued = Newest(accepted, bytes)
  BY <1>1, QueuedIsNewest DEF Queued
<1>4. Queued' = Newest(accepted', bytes')
  BY <1>2, QueuedIsNewest DEF Queued
<1> QED BY <1>3, <1>4

\* A payload of n bytes joins the newest b bytes.
LEMMA NewestAccept ==
    ASSUME NEW a \in Nat, NEW b \in Nat, NEW n \in Nat
    PROVE  Newest(a + n, b + n) = Newest(a, b) \o [k \in 1..n |-> (a + 1) + k - 1]
<1>1. PICK s : s = Newest(a, b)
  OBVIOUS
<1>2. PICK p : p = [k \in 1..n |-> (a + 1) + k - 1]
  OBVIOUS
<1>3. s \in Seq(Int) /\ Len(s) = b /\ \A k \in 1..b : s[k] = (a - b) + k
  BY <1>1, NewestFacts
<1>4. p \in Seq(Int) /\ Len(p) = n /\ \A k \in 1..n : p[k] = (a + 1) + k - 1
  BY <1>2
<1>5. PICK t : t = Newest(a + n, b + n)
  OBVIOUS
<1>6. t \in Seq(Int) /\ Len(t) = b + n /\ \A k \in 1..(b + n) : t[k] = (a - b) + k
  <2>1. a + n \in Nat /\ b + n \in Nat
    OBVIOUS
  <2>2. /\ t \in Seq(Int) /\ Len(t) = b + n
        /\ \A k \in 1..(b + n) : t[k] = ((a + n) - (b + n)) + k
    BY <2>1, <1>5, NewestFacts
  <2>3. \A k \in 1..(b + n) : ((a + n) - (b + n)) + k = (a - b) + k
    OBVIOUS
  <2> QED BY <2>2, <2>3
<1>7. PICK c : c = s \o p
  OBVIOUS
<1>8. /\ c \in Seq(Int) /\ Len(c) = b + n
      /\ \A i \in 1..(b + n) : c[i] = IF i <= b THEN s[i] ELSE p[i - b]
  <2>1. /\ c \in Seq(Int) /\ Len(c) = Len(s) + Len(p)
        /\ \A i \in 1..(Len(s) + Len(p)) : c[i] = IF i <= Len(s) THEN s[i] ELSE p[i - Len(s)]
    BY <1>3, <1>4, <1>7, ConcatProperties
  <2>2. Len(s) = b /\ Len(p) = n
    BY <1>3, <1>4
  <2> QED BY <2>1, <2>2
<1>9. ASSUME NEW i \in 1..(b + n) PROVE t[i] = c[i]
  <2>1. CASE i <= b
    BY <2>1, <1>3, <1>6, <1>8
  <2>2. CASE ~(i <= b)
    <3>1. i - b \in 1..n
      BY <2>2
    <3>2. c[i] = (a + 1) + (i - b) - 1
      BY <2>2, <3>1, <1>4, <1>8
    <3> QED BY <3>2, <1>6
  <2> QED BY <2>1, <2>2
<1>10. t = c
  BY <1>6, <1>8, <1>9, SeqEqual
<1> QED BY <1>1, <1>2, <1>5, <1>7, <1>10

\* The n oldest of the newest b bytes leave.
LEMMA NewestDeliver ==
    ASSUME NEW a \in Nat, NEW b \in Nat, NEW n \in Nat, n <= b
    PROVE  /\ Newest(a, b - n) = SubSeq(Newest(a, b), n + 1, Len(Newest(a, b)))
           /\ SubSeq(Newest(a, b), 1, n) \in Seq(Int) /\ Len(SubSeq(Newest(a, b), 1, n)) = n
           /\ \A k \in 1..n : SubSeq(Newest(a, b), 1, n)[k] = (a - b) + k
<1>1. PICK s : s = Newest(a, b)
  OBVIOUS
<1>2. s \in Seq(Int) /\ Len(s) = b /\ \A k \in 1..b : s[k] = (a - b) + k /\ s[k] \in Int
  <2>1. s \in Seq(Int) /\ Len(s) = b /\ \A k \in 1..b : s[k] = (a - b) + k
    BY <1>1, NewestFacts
  <2>2. \A k \in 1..b : (a - b) + k \in Int
    OBVIOUS
  <2> QED BY <2>1, <2>2
<1>3. PICK t : t = Newest(a, b - n)
  OBVIOUS
<1>4. t \in Seq(Int) /\ Len(t) = b - n /\ \A k \in 1..(b - n) : t[k] = (a - (b - n)) + k
  <2>1. b - n \in Nat
    OBVIOUS
  <2> QED BY <2>1, <1>3, NewestFacts
<1>5. PICK u : u = SubSeq(s, n + 1, b)
  OBVIOUS
<1>6. u \in Seq(Int) /\ Len(u) = b - n /\ \A k \in 1..(b - n) : u[k] = s[n + 1 + k - 1]
  <2>1. \A i \in (n + 1)..b : s[i] \in Int
    BY <1>2
  <2>2. n + 1 \in Int /\ b \in Int /\ b - (n + 1) + 1 = b - n
        /\ (IF n + 1 <= b THEN b - (n + 1) + 1 ELSE 0) = b - n
    OBVIOUS
  <2> QED BY <2>1, <2>2, <1>5, SubSeqProperties
<1>7. ASSUME NEW k \in 1..(b - n) PROVE t[k] = u[k]
  <2>1. n + 1 + k - 1 \in 1..b /\ (a - b) + (n + 1 + k - 1) = (a - (b - n)) + k
    OBVIOUS
  <2> QED BY <2>1, <1>2, <1>4, <1>6
<1>8. t = u
  BY <1>4, <1>6, <1>7, SeqEqual
<1>9. PICK v : v = SubSeq(s, 1, n)
  OBVIOUS
<1>10. v \in Seq(Int) /\ Len(v) = n /\ \A k \in 1..n : v[k] = s[1 + k - 1]
  <2>1. \A i \in 1..n : s[i] \in Int
    BY <1>2
  <2>2. n - 1 + 1 = n /\ (IF 1 <= n THEN n - 1 + 1 ELSE 0) = n
    OBVIOUS
  <2> QED BY <2>1, <2>2, <1>9, SubSeqProperties
<1>11. ASSUME NEW k \in 1..n PROVE v[k] = (a - b) + k
  <2>1. 1 + k - 1 = k /\ k \in 1..b
    OBVIOUS
  <2> QED BY <2>1, <1>2, <1>10
<1> QED BY <1>1, <1>2, <1>3, <1>5, <1>8, <1>9, <1>10, <1>11

\* A send of flush_queued is a delivery of the oldest queued bytes.
LEMMA SentDelivers ==
    ASSUME RInv, RInv', NEW n \in Nat, FlushSent(n) PROVE Stream!Next
<1>0. QInv /\ QInv'
  BY DEF RInv
<1>1. /\ accepted \in Nat /\ bytes \in Nat /\ bytes' \in Nat /\ bytes' = bytes - n
      /\ bytes <= accepted /\ accepted <= MaxBytes /\ MaxBytes \in Nat
      /\ UNCHANGED <<accepted, limit>>
  BY <1>0, SizesAssumption DEF QInv, TypeOK, RInv, FlushSent
<1>2. n # 0 /\ n <= bytes
  BY <1>0, <1>1, SentBytes
<1>3. PICK W : W \in Nat /\ W = Len(wire) /\ DOMAIN wire = 1..W
  BY <1>0, WireDomain
<1>4. PICK w : w = wire'
  OBVIOUS
<1>5. /\ DOMAIN w = 1..(W + n)
      /\ \A i \in 1..W : w[i] = wire[i]
      /\ \A k \in 1..n : w[W + k] = [conn |-> conn, byte |-> (accepted - bytes) + k]
  <2>1. wire' \in Seq([conn : Nat, byte : Nat])
    BY <1>0 DEF QInv, TypeOK
  <2>2. DOMAIN w = 1..Len(w)
    BY <2>1, <1>4, LenProperties
  <2>3. /\ Len(w) = W + n
        /\ \A i \in 1..W : w[i] = wire[i]
        /\ \A k \in 1..n : w[W + k] = [conn |-> conn, byte |-> (accepted - bytes) + k]
    BY <1>0, <1>3, <1>4, SentBytes
  <2> QED BY <2>2, <2>3
<1>6. PICK v : v = SubSeq(Newest(accepted, bytes), 1, n)
  OBVIOUS
<1>7. v \in Seq(Int) /\ Len(v) = n /\ \A k \in 1..n : v[k] = (accepted - bytes) + k
  <2>1. accepted \in Nat /\ bytes \in Nat /\ n <= bytes
    BY <1>1, <1>2
  <2> QED BY <2>1, <1>6, NewestDeliver
<1>8. PICK d : d = [i \in DOMAIN wire |-> wire[i].byte]
  OBVIOUS
<1>9. d \in Seq(Int) /\ Len(d) = W /\ \A i \in 1..W : d[i] = wire[i].byte
  <2>1. \A i \in 1..W : wire[i].byte \in Nat
    BY <1>0, <1>3, WireTypes
  <2> QED BY <2>1, <1>3, <1>8
<1>10. PICK e : e = [i \in DOMAIN w |-> w[i].byte]
  OBVIOUS
<1>11. \A k \in 1..n : w[W + k].byte = (accepted - bytes) + k
  <2> SUFFICES ASSUME NEW k \in 1..n PROVE w[W + k].byte = (accepted - bytes) + k
    OBVIOUS
  <2>1. w[W + k] = [conn |-> conn, byte |-> (accepted - bytes) + k]
    BY <1>5
  <2> QED BY <2>1
<1>12. PICK c : c = d \o v
  OBVIOUS
<1>13. /\ c \in Seq(Int) /\ Len(c) = W + n
       /\ \A i \in 1..(W + n) : c[i] = IF i <= W THEN d[i] ELSE v[i - W]
  <2>1. /\ c \in Seq(Int) /\ Len(c) = Len(d) + Len(v)
        /\ \A i \in 1..(Len(d) + Len(v)) : c[i] = IF i <= Len(d) THEN d[i] ELSE v[i - Len(d)]
    BY <1>7, <1>9, <1>12, ConcatProperties
  <2>2. Len(d) = W /\ Len(v) = n
    BY <1>7, <1>9
  <2> QED BY <2>1, <2>2
<1>14. ASSUME NEW i \in 1..(W + n) PROVE w[i].byte = c[i]
  <2>1. CASE i <= W
    <3>1. i \in 1..W
      BY <2>1, <1>3
    <3> QED BY <2>1, <3>1, <1>5, <1>9, <1>13
  <2>2. CASE ~(i <= W)
    <3>1. PICK k \in 1..n : i = W + k /\ i - W = k
      <4>1. i - W \in 1..n /\ i = W + (i - W)
        BY <2>2, <1>3
      <4> QED BY <4>1
    <3>2. c[i] = (accepted - bytes) + k
      BY <2>2, <3>1, <1>7, <1>13
    <3> QED BY <3>1, <3>2, <1>11
  <2> QED BY <2>1, <2>2
<1>15. e = c
  <2>1. e \in Seq(Int) /\ Len(e) = W + n /\ \A i \in 1..(W + n) : e[i] = c[i]
    <3>1. \A i \in 1..(W + n) : c[i] \in Int
      BY <1>13, ElementOfSeq
    <3>2. e = [i \in 1..(W + n) |-> c[i]]
      BY <1>5, <1>10, <1>14
    <3>3. W + n \in Nat
      BY <1>3
    <3> QED BY <3>1, <3>2, <3>3
  <2> QED BY <2>1, <1>13, SeqEqual
<1>16. Newest(accepted, bytes - n)
          = SubSeq(Newest(accepted, bytes), n + 1, Len(Newest(accepted, bytes)))
  BY <1>1, <1>2, NewestDeliver
<1>17. n <= Len(Newest(accepted, bytes)) /\ n \in 1..MaxBytes
  BY <1>1, <1>2, NewestFacts
<1>18. Queued = Newest(accepted, bytes) /\ Queued' = Newest(accepted, bytes - n)
  BY <1>1, StreamQueue
<1>19. Stream!Deliver(n)
  BY <1>1, <1>4, <1>6, <1>8, <1>10, <1>12, <1>15, <1>16, <1>17, <1>18 DEF Stream!Deliver
<1> QED BY <1>17, <1>19 DEF Stream!Next

\* The bounds of the numbers are inductive.
LEMMA RInvStep == RInv /\ [Next]_vars => RInv'
<1> SUFFICES ASSUME RInv, [Next]_vars PROVE bytes' <= accepted' /\ accepted' <= MaxBytes
  BY QInvStep DEF RInv
<1>0. QInv /\ QInv'
  BY QInvStep DEF RInv
<1>1. /\ accepted \in Nat /\ bytes \in Nat /\ bytes' \in Nat /\ bytes <= accepted
      /\ accepted <= MaxBytes /\ MaxBytes \in Nat
  BY <1>0, SizesAssumption DEF QInv, TypeOK, RInv
<1>2. CASE FlushStep \/ ConnectionStep
  <2>1. accepted' = accepted /\ (bytes' = bytes \/ bytes' = 0 \/ \E n \in Nat : bytes' = bytes - n)
    <3>1. \A n \in 1..Budget : n \in Nat
      BY SizesAssumption
    <3> QED BY <3>1, <1>2 DEF FlushStep, FlushEnter, FlushSent, FlushInterrupted, FlushStop, FlushFail,
                 FlushReport, ConnectionStep, Close, Connect, ConnectFail, ConnectNext, BeginClose, CloseFd,
                 CloseReturn, ConnectSocket, ConnectOk, FinishConnect, OnConnectReturn,
                 SetBlocking, ClearQueue, queueVars, histVars
  <2> QED BY <2>1, <1>1
<1>3. CASE ProducerStep \/ UNCHANGED vars
  <2>1. \A p \in Producers : call[p] \in Nat
    BY <1>0 DEF QInv, TypeOK
  <2>2. \/ accepted' = accepted /\ bytes' = bytes
        \/ \E n \in Nat : /\ accepted' = accepted + n /\ bytes' = bytes + n
                          /\ accepted + n <= MaxBytes
    BY <2>1, <1>3 DEF ProducerStep, QueueWriteTest, QueueWriteLocked, SetMaxQueuedBytes, vars,
                 queueVars, histVars
  <2> QED BY <2>2, <1>1
<1> QED BY <1>2, <1>3 DEF Next

\* Every step of the socket's threads is a step of the stream or changes nothing of it.
LEMMA StreamStep == RInv /\ [Next]_vars => [Stream!Next]_(Stream!streamVars)
<1> SUFFICES ASSUME RInv, [Next]_vars PROVE Stream!Next \/ UNCHANGED Stream!streamVars
  OBVIOUS
<1>0. QInv /\ RInv'
  BY RInvStep DEF RInv
<1>1. /\ accepted \in Nat /\ bytes \in Nat /\ limit \in Nat /\ bytes <= limit
  BY <1>0 DEF QInv, TypeOK, BytesWithinLimit
<1>queued. Queued = Newest(accepted, bytes) /\ Queued' = Newest(accepted', bytes')
  BY <1>0, StreamQueue
<1>2. ASSUME UNCHANGED <<accepted, bytes, limit, wire>> PROVE UNCHANGED Stream!streamVars
  BY <1>2, <1>queued DEF Stream!streamVars
<1>3. ASSUME ClearQueue, UNCHANGED <<accepted, limit, wire>> PROVE Stream!Next
  <2>1. bytes' = 0
    BY <1>3 DEF ClearQueue
  <2>2. Newest(accepted, 0) = <<>>
    <3>1. Newest(accepted, 0) \in Seq(Int) /\ Len(Newest(accepted, 0)) = 0
      BY <1>1, NewestFacts
    <3> QED BY <3>1, EmptySeq
  <2>3. Stream!Discard
    BY <2>1, <2>2, <1>3, <1>queued DEF Stream!Discard
  <2> QED BY <2>3 DEF Stream!Next
<1>4. ASSUME NEW n \in 1..Budget, FlushSent(n) PROVE Stream!Next
  <2>1. n \in Nat
    BY SizesAssumption
  <2> QED BY <2>1, <1>0, <1>4, SentDelivers
<1>5. CASE FlushEnter \/ FlushInterrupted \/ FlushStop \/ FlushReport
  BY <1>2, <1>5 DEF FlushEnter, FlushInterrupted, FlushStop, FlushReport, queueVars, histVars
<1>6. CASE FlushFail \/ Close \/ Connect \/ ConnectFail
  <2>1. ClearQueue /\ UNCHANGED <<accepted, limit, wire>>
    BY <1>6 DEF FlushFail, Close, Connect, ConnectFail, BeginClose, histVars
  <2> QED BY <2>1, <1>3
<1>6a. CASE ConnectNext
  <2>1. CASE BeginClose(<<"connect">> \o stack)
    BY <2>1, <1>3 DEF BeginClose, histVars
  <2>2. CASE UNCHANGED <<queueVars, limit, valid, blocking, conn, nested, flush, call, histVars>>
    BY <2>2, <1>2 DEF queueVars, histVars
  <2> QED BY <2>1, <2>2, <1>6a DEF ConnectNext
<1>7. CASE \/ CloseFd \/ CloseReturn \/ ConnectSocket \/ ConnectOk \/ FinishConnect
           \/ OnConnectReturn \/ \E flag \in BOOLEAN : SetBlocking(flag)
  <2>1. UNCHANGED <<accepted, bytes, limit, wire>>
    BY <1>7 DEF CloseFd, CloseReturn, ConnectSocket, ConnectOk, FinishConnect, OnConnectReturn,
                SetBlocking, queueVars, histVars
  <2> QED BY <2>1, <1>2
<1>8. ASSUME NEW p \in Producers, QueueWriteLocked(p)
      PROVE  Stream!Next \/ UNCHANGED Stream!streamVars
  <2>1. UNCHANGED <<limit, wire>>
    BY <1>8 DEF QueueWriteLocked
  <2>2. CASE UNCHANGED <<queueVars, accepted, origin>>
    BY <2>1, <2>2, <1>2 DEF queueVars
  <2>3. CASE /\ call[p] <= SizeSub(limit, bytes) /\ accepted + call[p] <= MaxBytes
             /\ bytes' = bytes + call[p] /\ accepted' = accepted + call[p]
    <3>1. call[p] \in Nat /\ call[p] # 0 /\ MaxBytes \in Nat
      BY <1>0, <1>8, SizesAssumption DEF QInv, TypeOK, QueueWriteLocked
    <3>2. bytes + call[p] <= limit /\ call[p] \in 1..MaxBytes
      BY <2>3, <3>1, <1>1 DEF SizeSub
    <3>3. /\ Newest(accepted', bytes')
                = Newest(accepted, bytes) \o [k \in 1..call[p] |-> (accepted + 1) + k - 1]
          /\ Len(Newest(accepted, bytes)) = bytes
      BY <2>3, <3>1, <1>1, NewestAccept, NewestFacts
    <3>4. accepted' + 1 = (accepted + 1) + call[p]
      BY <2>3, <3>1, <1>1
    <3>5. Stream!Accept(call[p])
      BY <2>1, <3>2, <3>3, <3>4, <1>queued DEF Stream!Accept
    <3> QED BY <3>2, <3>5 DEF Stream!Next
  <2> QED BY <2>2, <2>3, <1>8 DEF QueueWriteLocked
<1>9. ASSUME NEW l \in Limits, SetMaxQueuedBytes(l) PROVE Stream!Next
  <2>1. UNCHANGED <<accepted, bytes, wire>> /\ limit' = l /\ l >= bytes /\ l \in Nat
    BY <1>9, SizesAssumption DEF SetMaxQueuedBytes, queueVars, histVars
  <2>2. Len(Newest(accepted, bytes)) = bytes
    BY <1>1, NewestFacts
  <2>3. Stream!Resize
    BY <2>1, <2>2, <1>queued DEF Stream!Resize
  <2> QED BY <2>3 DEF Stream!Next
<1>10. CASE (\E p \in Producers, n \in Sizes : QueueWriteTest(p, n)) \/ UNCHANGED vars
  <2>1. UNCHANGED <<accepted, bytes, limit, wire>>
    BY <1>10 DEF QueueWriteTest, vars, queueVars, histVars
  <2> QED BY <2>1, <1>2
<1> QED BY <1>4, <1>5, <1>6, <1>7, <1>8, <1>9, <1>10, <1>6a
        DEF Next, FlushStep, ConnectionStep, ProducerStep

\* The output queue of an event_socket, with its concurrent producers, partial sends,
\* errors, closes and reconnects, implements the bounded first-in first-out byte
\* stream of OutputStream.
THEOREM Refines == Spec => ImplementsStream
<1>1. Init => RInv /\ Stream!Init
  <2> SUFFICES ASSUME Init PROVE RInv /\ Stream!Init
    OBVIOUS
  <2>1. accepted = 0 /\ bytes = 0 /\ limit = DefaultLimit /\ wire = <<>>
    BY DEF Init
  <2>2. RInv
    BY <2>1, QInvInit, SizesAssumption DEF RInv
  <2>3. Queued = <<>>
    <3>1. chunks = <<>> /\ front_offset = 0
      BY DEF Init
    <3>2. FlattenSeq(<<>>) = <<>>
      BY DEF FlattenSeq
    <3> QED BY <3>1, <3>2 DEF Queued
  <2>4. [i \in DOMAIN wire |-> wire[i].byte] = <<>>
    BY <2>1
  <2> QED BY <2>1, <2>2, <2>3, <2>4 DEF Stream!Init
<1> QED BY <1>1, RInvStep, StreamStep, PTL DEF Spec, Stream!Spec, ImplementsStream

===============================================================================
