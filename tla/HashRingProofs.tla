--------------------------- MODULE HashRingProofs ---------------------------
(***************************************************************************)
(* TLAPS proofs of the properties of HashRing, for any nodes, any number   *)
(* of virtual nodes and any size of the circle.                            *)
(***************************************************************************)
EXTENDS HashRing, FiniteSetTheorems, WellFoundedInduction, SequenceTheorems, TLAPS

-----------------------------------------------------------------------------
(***************************************************************************)
(* Induction over a set of numbers, and with it the loops of add_node and  *)
(* remove_node.                                                            *)
(***************************************************************************)
LEMMA Induction ==
    ASSUME NEW S, 0 \in S, \A n \in Nat : n \in S => n + 1 \in S
    PROVE  \A n \in Nat : n \in S
<1> SUFFICES ASSUME NEW n \in Nat, n \notin S
             PROVE  FALSE
  OBVIOUS
<1> DEFINE T == {k \in Nat : k \notin S}
<1>1. T \subseteq Nat /\ T # {}
  OBVIOUS
<1>2. IsWellFoundedOn(OpToRel(<, Nat), Nat)
  BY NatLessThanWellFounded
<1> HIDE DEF T
<1>3. PICK x \in T : \A y \in T : ~(<<y, x>> \in OpToRel(<, Nat))
  BY <1>1, <1>2, WFMin
<1>4. \A k \in Nat, m \in Nat : k < m => <<k, m>> \in OpToRel(<, Nat)
  BY DEF OpToRel
<1>5. x \in Nat /\ x \notin S /\ \A y \in Nat : y < x => y \in S
  BY <1>1, <1>3, <1>4 DEF T
<1>6. x - 1 \in Nat /\ x - 1 < x /\ (x - 1) + 1 = x
  BY <1>5
<1> QED
  BY <1>5, <1>6

LEMMA InsertedStep ==
    ASSUME NEW s, NEW hs
    PROVE  Inserted(s, hs) = [i \in 0..VirtualNodes |->
               IF i = 0 THEN s ELSE Insort(Inserted(s, hs)[i - 1], hs[i])]
<1> DEFINE Fits(m) == \E g : g = [i \in 0..m |-> IF i = 0 THEN s ELSE Insort(g[i - 1], hs[i])]
           S == {m \in Nat : Fits(m)}
<1>1. 0 \in S
  <2>1. [i \in {0} |-> s] = [i \in 0..0 |-> IF i = 0 THEN s ELSE Insort([j \in {0} |-> s][i - 1], hs[i])]
    OBVIOUS
  <2> QED
    BY <2>1
<1>2. \A n \in Nat : n \in S => n + 1 \in S
  <2> SUFFICES ASSUME NEW n \in Nat, Fits(n)
               PROVE  Fits(n + 1)
    OBVIOUS
  <2>1. PICK g : g = [i \in 0..n |-> IF i = 0 THEN s ELSE Insort(g[i - 1], hs[i])]
    OBVIOUS
  <2> DEFINE f == [i \in 0..(n + 1) |-> IF i = n + 1 THEN Insort(g[n], hs[n + 1]) ELSE g[i]]
  <2>2. \A i \in 0..(n + 1) : f[i] = IF i = 0 THEN s ELSE Insort(f[i - 1], hs[i])
    <3> TAKE i \in 0..(n + 1)
    <3>1. CASE i = 0
      BY <2>1, <3>1
    <3>2. CASE i = n + 1
      BY <2>1, <3>2
    <3>3. CASE i \in 1..n
      BY <2>1, <3>3
    <3> QED
      BY <3>1, <3>2, <3>3
  <2>3. f = [i \in 0..(n + 1) |-> IF i = 0 THEN s ELSE Insort(f[i - 1], hs[i])]
    BY <2>2
  <2> QED
    BY <2>3
<1>3. Fits(VirtualNodes)
  <2> HIDE DEF S
  <2>1. VirtualNodes \in S
    BY <1>1, <1>2, Induction, RingAssumption
  <2> QED
    BY <2>1 DEF S
<1> QED
  BY <1>3 DEF Inserted

LEMMA DeletedStep ==
    ASSUME NEW s, NEW hs
    PROVE  Deleted(s, hs) = [i \in 0..VirtualNodes |->
               IF i = 0 THEN s ELSE Delete(Deleted(s, hs)[i - 1], hs[i])]
<1> DEFINE Fits(m) == \E g : g = [i \in 0..m |-> IF i = 0 THEN s ELSE Delete(g[i - 1], hs[i])]
           S == {m \in Nat : Fits(m)}
<1>1. 0 \in S
  <2>1. [i \in {0} |-> s] = [i \in 0..0 |-> IF i = 0 THEN s ELSE Delete([j \in {0} |-> s][i - 1], hs[i])]
    OBVIOUS
  <2> QED
    BY <2>1
<1>2. \A n \in Nat : n \in S => n + 1 \in S
  <2> SUFFICES ASSUME NEW n \in Nat, Fits(n)
               PROVE  Fits(n + 1)
    OBVIOUS
  <2>1. PICK g : g = [i \in 0..n |-> IF i = 0 THEN s ELSE Delete(g[i - 1], hs[i])]
    OBVIOUS
  <2> DEFINE f == [i \in 0..(n + 1) |-> IF i = n + 1 THEN Delete(g[n], hs[n + 1]) ELSE g[i]]
  <2>2. \A i \in 0..(n + 1) : f[i] = IF i = 0 THEN s ELSE Delete(f[i - 1], hs[i])
    <3> TAKE i \in 0..(n + 1)
    <3>1. CASE i = 0
      BY <2>1, <3>1
    <3>2. CASE i = n + 1
      BY <2>1, <3>2
    <3>3. CASE i \in 1..n
      BY <2>1, <3>3
    <3> QED
      BY <3>1, <3>2, <3>3
  <2>3. f = [i \in 0..(n + 1) |-> IF i = 0 THEN s ELSE Delete(f[i - 1], hs[i])]
    BY <2>2
  <2> QED
    BY <2>3
<1>3. Fits(VirtualNodes)
  <2> HIDE DEF S
  <2>1. VirtualNodes \in S
    BY <1>1, <1>2, Induction, RingAssumption
  <2> QED
    BY <2>1 DEF S
<1> QED
  BY <1>3 DEF Deleted

-----------------------------------------------------------------------------
(***************************************************************************)
(* bisect, insort and the deletion on an ascending list.                   *)
(***************************************************************************)
Ascending(s) == s \in Seq(Nat) /\ \A i, j \in 1..Len(s) : i < j => s[i] < s[j]

\* k elements of s are at most h, and they come first.
LEMMA Splits ==
    ASSUME NEW s, Ascending(s), NEW h \in Nat
    PROVE  \E k \in 0..Len(s) : \A i \in 1..Len(s) : s[i] <= h <=> i <= k
<1> DEFINE First(n) == \E k \in 0..n : \A i \in 1..n : s[i] <= h <=> i <= k
           S == {n \in Nat : n <= Len(s) => First(n)}
<1>1. Len(s) \in Nat /\ \A i \in 1..Len(s) : s[i] \in Nat
  BY DEF Ascending
<1>2. 0 \in S
  OBVIOUS
<1>3. \A n \in Nat : n \in S => n + 1 \in S
  <2> SUFFICES ASSUME NEW n \in Nat, n <= Len(s) => First(n), n + 1 <= Len(s)
               PROVE  First(n + 1)
    <3> HIDE DEF First
    <3> QED
      OBVIOUS
  <2>0. First(n)
    BY <1>1
  <2>1. PICK k \in 0..n : \A i \in 1..n : s[i] <= h <=> i <= k
    BY <2>0
  <2>2. CASE s[n + 1] <= h
    <3>1. \A i \in 1..n : s[i] < s[n + 1]
      BY <1>1 DEF Ascending
    <3>2. \A i \in 1..(n + 1) : s[i] <= h <=> i <= n + 1
      BY <1>1, <2>2, <3>1
    <3> QED
      BY <3>2
  <2>3. CASE ~(s[n + 1] <= h)
    <3>1. \A i \in 1..(n + 1) : s[i] <= h <=> i <= k
      BY <2>1, <2>3
    <3>2. k \in 0..(n + 1)
      OBVIOUS
    <3> QED
      BY <3>1, <3>2
  <2> QED
    BY <2>2, <2>3
<1> HIDE DEF S
<1>4. Len(s) \in S
  BY <1>1, <1>2, <1>3, Induction
<1> QED
  BY <1>1, <1>4 DEF S

LEMMA Right ==
    ASSUME NEW s, Ascending(s), NEW h \in Nat
    PROVE  /\ BisectRight(s, h) \in 0..Len(s)
           /\ \A i \in 1..Len(s) : s[i] <= h <=> i <= BisectRight(s, h)
<1>1. PICK k \in 0..Len(s) : \A i \in 1..Len(s) : s[i] <= h <=> i <= k
  BY Splits
<1>2. Len(s) \in Nat /\ DOMAIN s = 1..Len(s)
  BY DEF Ascending
<1>3. {i \in DOMAIN s : s[i] <= h} = 1..k
  BY <1>1, <1>2
<1>4. Cardinality(1..k) = k
  BY <1>2, FS_Interval
<1> QED
  BY <1>1, <1>2, <1>3, <1>4 DEF BisectRight

LEMMA Left ==
    ASSUME NEW s, Ascending(s), NEW h \in Nat
    PROVE  /\ BisectLeft(s, h) \in 0..Len(s)
           /\ \A i \in 1..Len(s) : s[i] < h <=> i <= BisectLeft(s, h)
<1>1. Len(s) \in Nat /\ DOMAIN s = 1..Len(s) /\ \A i \in 1..Len(s) : s[i] \in Nat
  BY DEF Ascending
<1>2. \E k \in 0..Len(s) : \A i \in 1..Len(s) : s[i] < h <=> i <= k
  <2>1. CASE h = 0
    BY <1>1, <2>1
  <2>2. CASE h # 0
    <3>0. h - 1 \in Nat
      BY <2>2
    <3>1. PICK k \in 0..Len(s) : \A i \in 1..Len(s) : s[i] <= h - 1 <=> i <= k
      BY <3>0, Splits
    <3>2. \A i \in 1..Len(s) : s[i] < h <=> i <= k
      BY <1>1, <3>1
    <3> QED
      BY <3>2
  <2> QED
    BY <2>1, <2>2
<1>3. PICK k \in 0..Len(s) : \A i \in 1..Len(s) : s[i] < h <=> i <= k
  BY <1>2
<1>4. {i \in DOMAIN s : s[i] < h} = 1..k
  BY <1>1, <1>3
<1>5. Cardinality(1..k) = k
  BY <1>1, FS_Interval
<1> QED
  BY <1>1, <1>3, <1>4, <1>5 DEF BisectLeft

\* t is s with e at place i, and the rest moved.
WithAt(s, i, e, t) ==
    /\ t \in Seq(Nat) /\ Len(t) = Len(s) + 1
    /\ \A j \in 1..(Len(s) + 1) : t[j] = IF j < i THEN s[j] ELSE IF j = i THEN e ELSE s[j - 1]

LEMMA InsertAtPlace ==
    ASSUME NEW s \in Seq(Nat), NEW i \in 1..(Len(s) + 1), NEW e \in Nat
    PROVE  WithAt(s, i, e, InsertAt(s, i, e))
<1> DEFINE a == SubSeq(s, 1, i - 1)
           b == SubSeq(s, i, Len(s))
<1>1. Len(s) \in Nat /\ i \in Nat /\ i - 1 \in Nat /\ \A j \in 1..Len(s) : s[j] \in Nat
  OBVIOUS
<1>2. a \in Seq(Nat) /\ Len(a) = i - 1 /\ \A j \in 1..(i - 1) : a[j] = s[j]
  BY <1>1, SubSeqProperties
<1>3. b \in Seq(Nat) /\ Len(b) = Len(s) - i + 1 /\ \A j \in 1..(Len(s) - i + 1) : b[j] = s[i + j - 1]
  BY <1>1, SubSeqProperties
<1>4. <<e>> \in Seq(Nat) /\ Len(<<e>>) = 1 /\ <<e>>[1] = e
  OBVIOUS
<1>5. InsertAt(s, i, e) = (a \o <<e>>) \o b
  BY DEF InsertAt
<1> HIDE DEF a, b
<1>6. /\ a \o <<e>> \in Seq(Nat) /\ Len(a \o <<e>>) = i
      /\ \A j \in 1..i : (a \o <<e>>)[j] = IF j < i THEN s[j] ELSE e
  <2> DEFINE u == <<e>>
  <2>1. u \in Seq(Nat) /\ Len(u) = 1 /\ u[1] = e
    BY <1>4
  <2> HIDE DEF u
  <2>2. /\ a \o u \in Seq(Nat) /\ Len(a \o u) = Len(a) + Len(u)
        /\ \A j \in 1..(Len(a) + Len(u)) : (a \o u)[j] = IF j <= Len(a) THEN a[j] ELSE u[j - Len(a)]
    BY <1>2, <2>1, ConcatProperties
  <2>3. Len(a) + Len(u) = i
    BY <1>1, <1>2, <2>1
  <2>4. \A j \in 1..i : (a \o u)[j] = IF j < i THEN s[j] ELSE e
    <3> TAKE j \in 1..i
    <3>1. CASE j < i
      <4>1. j \in 1..(i - 1) /\ j <= Len(a) /\ j \in 1..(Len(a) + Len(u))
        BY <1>1, <1>2, <2>3, <3>1
      <4> QED
        BY <1>2, <2>2, <3>1, <4>1
    <3>2. CASE ~(j < i)
      <4>1. j = i /\ ~(j <= Len(a)) /\ j - Len(a) = 1
        BY <1>1, <1>2, <3>2
      <4> QED
        BY <2>1, <2>2, <2>3, <3>2, <4>1
    <3> QED
      BY <3>1, <3>2
  <2> QED
    BY <2>2, <2>3, <2>4 DEF u
<1> DEFINE ae == a \o <<e>>
<1> HIDE DEF ae
<1>7. /\ ae \o b \in Seq(Nat) /\ Len(ae \o b) = Len(s) + 1
      /\ \A j \in 1..(Len(s) + 1) : (ae \o b)[j] = IF j <= i THEN ae[j] ELSE b[j - i]
  <2>1. ae \in Seq(Nat) /\ Len(ae) = i
    BY <1>6 DEF ae
  <2>2. i + (Len(s) - i + 1) = Len(s) + 1
    BY <1>1
  <2>3. /\ ae \o b \in Seq(Nat) /\ Len(ae \o b) = Len(ae) + Len(b)
        /\ \A j \in 1..(Len(ae) + Len(b)) : (ae \o b)[j] = IF j <= Len(ae) THEN ae[j] ELSE b[j - Len(ae)]
    BY <1>3, <2>1, ConcatProperties
  <2> QED
    BY <1>3, <2>1, <2>2, <2>3
<1>8. \A j \in 1..(Len(s) + 1) : (ae \o b)[j] = IF j < i THEN s[j] ELSE IF j = i THEN e ELSE s[j - 1]
  <2> TAKE j \in 1..(Len(s) + 1)
  <2>1. CASE j <= i
    BY <1>1, <1>6, <1>7, <2>1 DEF ae
  <2>2. CASE j > i
    <3>1. j - i \in 1..(Len(s) - i + 1) /\ i + (j - i) - 1 = j - 1
      BY <1>1, <2>2
    <3>2. b[j - i] = s[j - 1]
      BY <1>3, <3>1
    <3>3. ~(j <= i) /\ ~(j < i) /\ j # i
      BY <1>1, <2>2
    <3>4. (ae \o b)[j] = b[j - i]
      BY <1>7, <3>3
    <3> QED
      BY <3>2, <3>3, <3>4
  <2>3. j <= i \/ j > i
    BY <1>1
  <2> QED
    BY <2>1, <2>2, <2>3
<1> QED
  BY <1>5, <1>7, <1>8 DEF ae, WithAt

LEMMA RemoveAtPlace ==
    ASSUME NEW s \in Seq(Nat), NEW i \in 1..Len(s)
    PROVE  /\ RemoveAt(s, i) \in Seq(Nat)
           /\ Len(RemoveAt(s, i)) = Len(s) - 1
           /\ \A j \in 1..(Len(s) - 1) : RemoveAt(s, i)[j] = IF j < i THEN s[j] ELSE s[j + 1]
<1> DEFINE a == SubSeq(s, 1, i - 1)
           b == SubSeq(s, i + 1, Len(s))
<1>1. Len(s) \in Nat /\ i \in Nat /\ i - 1 \in Nat /\ \A j \in 1..Len(s) : s[j] \in Nat
  OBVIOUS
<1>2. a \in Seq(Nat) /\ Len(a) = i - 1 /\ \A j \in 1..(i - 1) : a[j] = s[j]
  BY <1>1, SubSeqProperties
<1>3. b \in Seq(Nat) /\ Len(b) = Len(s) - i /\ \A j \in 1..(Len(s) - i) : b[j] = s[(i + 1) + j - 1]
  BY <1>1, SubSeqProperties
<1>4. RemoveAt(s, i) = a \o b
  BY DEF RemoveAt
<1> HIDE DEF a, b
<1>5. /\ a \o b \in Seq(Nat) /\ Len(a \o b) = Len(s) - 1
      /\ \A j \in 1..(Len(s) - 1) : (a \o b)[j] = IF j < i THEN a[j] ELSE b[j - (i - 1)]
  <2>1. (i - 1) + (Len(s) - i) = Len(s) - 1
    BY <1>1
  <2>2. /\ a \o b \in Seq(Nat) /\ Len(a \o b) = Len(a) + Len(b)
        /\ \A j \in 1..(Len(a) + Len(b)) : (a \o b)[j] = IF j <= Len(a) THEN a[j] ELSE b[j - Len(a)]
    BY <1>2, <1>3, ConcatProperties
  <2>3. \A j \in Nat : j <= i - 1 <=> j < i
    BY <1>1
  <2>4. Len(a) + Len(b) = Len(s) - 1 /\ Len(a) = i - 1
    BY <1>2, <1>3, <2>1
  <2>5. \A j \in 1..(Len(s) - 1) : (a \o b)[j] = IF j <= i - 1 THEN a[j] ELSE b[j - (i - 1)]
    BY <2>2, <2>4
  <2> QED
    BY <2>2, <2>3, <2>4, <2>5, \A j \in 1..(Len(s) - 1) : j \in Nat
<1>6. \A j \in 1..(Len(s) - 1) : (a \o b)[j] = IF j < i THEN s[j] ELSE s[j + 1]
  <2> TAKE j \in 1..(Len(s) - 1)
  <2>1. CASE j < i
    BY <1>1, <1>2, <1>5, <2>1
  <2>2. CASE ~(j < i)
    <3>1. j - (i - 1) \in 1..(Len(s) - i) /\ (i + 1) + (j - (i - 1)) - 1 = j + 1
      BY <1>1, <2>2
    <3>2. b[j - (i - 1)] = s[j + 1]
      BY <1>3, <3>1
    <3> QED
      BY <1>5, <2>2, <3>2
  <2> QED
    BY <2>1, <2>2
<1> QED
  BY <1>4, <1>5, <1>6

\* What insort makes of an ascending list that does not have h.
LEMMA InsortKeeps ==
    ASSUME NEW s, Ascending(s), NEW h \in Nat, \A i \in 1..Len(s) : s[i] # h
    PROVE  Ascending(Insort(s, h)) /\ Range(Insort(s, h)) = Range(s) \cup {h}
<1> DEFINE k == BisectRight(s, h)
           t == Insort(s, h)
<1>1. s \in Seq(Nat) /\ Len(s) \in Nat /\ DOMAIN s = 1..Len(s) /\ \A i \in 1..Len(s) : s[i] \in Nat
  BY DEF Ascending
<1>2. k \in 0..Len(s) /\ \A i \in 1..Len(s) : s[i] <= h <=> i <= k
  BY Right
<1> HIDE DEF k
<1>3. k + 1 \in 1..(Len(s) + 1) /\ k \in Nat
  BY <1>1, <1>2
<1>4. t = InsertAt(s, k + 1, h)
  BY DEF Insort, k
<1> HIDE DEF t
<1>5. /\ t \in Seq(Nat) /\ Len(t) = Len(s) + 1
      /\ \A j \in 1..(Len(s) + 1) : t[j] = IF j < k + 1 THEN s[j] ELSE IF j = k + 1 THEN h ELSE s[j - 1]
  <2>1. WithAt(s, k + 1, h, t)
    BY <1>1, <1>3, <1>4, InsertAtPlace
  <2> QED
    BY <2>1 DEF WithAt
<1>6. \A i, j \in 1..Len(t) : i < j => t[i] < t[j]
  <2> SUFFICES ASSUME NEW i \in 1..(Len(s) + 1), NEW j \in 1..(Len(s) + 1), i < j
               PROVE  t[i] < t[j]
    BY <1>5
  <2>1. CASE j < k + 1
    <3>1. i < k + 1 /\ i \in 1..Len(s) /\ j \in 1..Len(s)
      BY <1>1, <1>3, <2>1
    <3>2. t[i] = s[i] /\ t[j] = s[j]
      BY <1>5, <2>1, <3>1
    <3> QED
      BY <3>1, <3>2 DEF Ascending
  <2>2. CASE j = k + 1
    <3>1. i < k + 1 /\ i \in 1..Len(s) /\ i <= k
      BY <1>1, <1>3, <2>2
    <3>2. t[i] = s[i] /\ t[j] = h
      BY <1>5, <2>2, <3>1
    <3>3. s[i] <= h /\ s[i] # h /\ s[i] \in Nat
      BY <1>1, <1>2, <3>1
    <3> QED
      BY <3>2, <3>3
  <2>3. CASE j > k + 1
    <3>1. j - 1 \in 1..Len(s) /\ ~(j - 1 <= k) /\ ~(j < k + 1) /\ j # k + 1
      BY <1>1, <1>3, <2>3
    <3>2. t[j] = s[j - 1] /\ h < s[j - 1]
      <4>1. t[j] = s[j - 1]
        BY <1>5, <3>1
      <4>2. ~(s[j - 1] <= h) /\ s[j - 1] \in Nat
        BY <1>1, <1>2, <3>1
      <4> QED
        BY <4>1, <4>2
    <3>3. CASE i < k + 1
      <4>1. i \in 1..Len(s) /\ i < j - 1 /\ t[i] = s[i]
        BY <1>1, <1>3, <1>5, <2>3, <3>3
      <4> QED
        BY <3>1, <3>2, <4>1 DEF Ascending
    <3>4. CASE i = k + 1
      BY <1>5, <3>2, <3>4
    <3>5. CASE i > k + 1
      <4>1. i - 1 \in 1..Len(s) /\ i - 1 < j - 1 /\ t[i] = s[i - 1]
        BY <1>1, <1>3, <1>5, <3>5
      <4> QED
        BY <3>1, <3>2, <4>1 DEF Ascending
    <3>6. i < k + 1 \/ i = k + 1 \/ i > k + 1
      BY <1>3
    <3> QED
      BY <3>3, <3>4, <3>5, <3>6
  <2>4. j < k + 1 \/ j = k + 1 \/ j > k + 1
    BY <1>3
  <2> QED
    BY <2>1, <2>2, <2>3, <2>4
<1>7. Range(t) = Range(s) \cup {h}
  <2>1. DOMAIN t = 1..(Len(s) + 1)
    BY <1>5
  <2>2. \A j \in 1..(Len(s) + 1) : t[j] \in Range(s) \cup {h}
    <3> TAKE j \in 1..(Len(s) + 1)
    <3>1. CASE j < k + 1
      <4>1. j \in 1..Len(s) /\ t[j] = s[j]
        BY <1>1, <1>3, <1>5, <3>1
      <4> QED
        BY <1>1, <4>1 DEF Range
    <3>2. CASE j = k + 1
      BY <1>5, <3>2
    <3>3. CASE j > k + 1
      <4>1. j - 1 \in 1..Len(s) /\ t[j] = s[j - 1]
        BY <1>1, <1>3, <1>5, <3>3
      <4> QED
        BY <1>1, <4>1 DEF Range
    <3>4. j < k + 1 \/ j = k + 1 \/ j > k + 1
      BY <1>3
    <3> QED
      BY <3>1, <3>2, <3>3, <3>4
  <2>3. h \in Range(t)
    <3>1. t[k + 1] = h
      BY <1>3, <1>5
    <3> QED
      BY <1>3, <2>1, <3>1 DEF Range
  <2>4. \A j \in 1..Len(s) : s[j] \in Range(t)
    <3> TAKE j \in 1..Len(s)
    <3>1. CASE j <= k
      <4>1. j \in 1..(Len(s) + 1) /\ j < k + 1
        BY <1>1, <1>3, <3>1
      <4>2. t[j] = s[j]
        BY <1>5, <4>1
      <4> QED
        BY <2>1, <4>1, <4>2 DEF Range
    <3>2. CASE j > k
      <4>1. j + 1 \in 1..(Len(s) + 1) /\ ~(j + 1 < k + 1) /\ j + 1 # k + 1 /\ (j + 1) - 1 = j
        BY <1>1, <1>3, <3>2
      <4>2. t[j + 1] = s[j]
        BY <1>5, <4>1
      <4> QED
        BY <2>1, <4>1, <4>2 DEF Range
    <3>3. j <= k \/ j > k
      BY <1>3
    <3> QED
      BY <3>1, <3>2, <3>3
  <2> QED
    BY <1>1, <2>1, <2>2, <2>3, <2>4 DEF Range
<1> QED
  BY <1>5, <1>6, <1>7 DEF t, Ascending

\* What the deletion makes of an ascending list, with or without h.
LEMMA DeleteKeeps ==
    ASSUME NEW s, Ascending(s), NEW h \in Nat
    PROVE  Ascending(Delete(s, h)) /\ Range(Delete(s, h)) = Range(s) \ {h}
<1> DEFINE k == BisectLeft(s, h)
           p == k + 1
           t == RemoveAt(s, p)
<1>1. s \in Seq(Nat) /\ Len(s) \in Nat /\ DOMAIN s = 1..Len(s) /\ \A i \in 1..Len(s) : s[i] \in Nat
  BY DEF Ascending
<1>2. k \in 0..Len(s) /\ \A i \in 1..Len(s) : s[i] < h <=> i <= k
  BY Left
<1>3. Delete(s, h) = IF p <= Len(s) /\ s[p] = h THEN t ELSE s
  BY DEF Delete
<1> HIDE DEF k
<1>4. p \in Nat /\ p >= 1 /\ \A i \in 1..Len(s) : s[i] < h <=> i < p
  BY <1>1, <1>2
<1> HIDE DEF p
<1>5. CASE p <= Len(s) /\ s[p] = h
  <2>1. p \in 1..Len(s)
    BY <1>1, <1>4, <1>5
  <2>2. /\ t \in Seq(Nat) /\ Len(t) = Len(s) - 1
        /\ \A j \in 1..(Len(s) - 1) : t[j] = IF j < p THEN s[j] ELSE s[j + 1]
    BY <1>1, <2>1, RemoveAtPlace
  <2> HIDE DEF t
  <2>3. \A i, j \in 1..Len(t) : i < j => t[i] < t[j]
    <3> SUFFICES ASSUME NEW i \in 1..(Len(s) - 1), NEW j \in 1..(Len(s) - 1), i < j
                 PROVE  t[i] < t[j]
      BY <2>2
    <3>1. /\ i \in 1..Len(s) /\ j \in 1..Len(s) /\ i + 1 \in 1..Len(s) /\ j + 1 \in 1..Len(s)
          /\ i < j + 1 /\ i + 1 < j + 1 /\ ~(j < p /\ ~(i < p))
      BY <1>1, <1>4
    <3>2. s[i] < s[j] /\ s[i] < s[j + 1] /\ s[i + 1] < s[j + 1]
      BY <3>1 DEF Ascending
    <3> QED
      BY <2>2, <3>1, <3>2
  <2>4. \A j \in 1..Len(s) : s[j] = h => j = p
    <3> SUFFICES ASSUME NEW j \in 1..Len(s), j # p
                 PROVE  s[j] # h
      OBVIOUS
    <3>1. CASE j < p
      BY <1>1, <1>5, <2>1, <3>1 DEF Ascending
    <3>2. CASE p < j
      BY <1>1, <1>5, <2>1, <3>2 DEF Ascending
    <3> QED
      BY <1>4, <3>1, <3>2
  <2>5. \A j \in 1..(Len(s) - 1) : t[j] \in Range(s) \ {h}
    <3> TAKE j \in 1..(Len(s) - 1)
    <3>1. j \in 1..Len(s) /\ j + 1 \in 1..Len(s) /\ (j < p => j # p) /\ (~(j < p) => j + 1 # p)
      BY <1>1, <1>4
    <3> QED
      BY <1>1, <2>2, <2>4, <3>1 DEF Range
  <2>6. \A j \in 1..Len(s) : s[j] # h => \E i \in 1..(Len(s) - 1) : t[i] = s[j]
    <3> SUFFICES ASSUME NEW j \in 1..Len(s), j # p
                 PROVE  \E i \in 1..(Len(s) - 1) : t[i] = s[j]
      BY <1>5
    <3>1. CASE j < p
      <4>1. j \in 1..(Len(s) - 1)
        BY <1>1, <2>1, <3>1
      <4> QED
        BY <2>2, <3>1, <4>1
    <3>2. CASE p < j
      <4>1. j - 1 \in 1..(Len(s) - 1) /\ ~(j - 1 < p) /\ (j - 1) + 1 = j
        BY <1>1, <2>1, <3>2
      <4>2. t[j - 1] = s[j]
        BY <2>2, <4>1
      <4> QED
        BY <4>1, <4>2
    <3> QED
      BY <1>4, <3>1, <3>2
  <2>7. DOMAIN t = 1..(Len(s) - 1)
    BY <2>2
  <2>8. Range(t) = Range(s) \ {h}
    <3>1. Range(t) = {t[j] : j \in 1..(Len(s) - 1)} /\ Range(s) = {s[j] : j \in 1..Len(s)}
      BY <1>1, <2>7 DEF Range
    <3> QED
      BY <2>5, <2>6, <3>1
  <2> QED
    BY <1>3, <1>5, <2>2, <2>3, <2>8 DEF Ascending
<1>6. CASE ~(p <= Len(s) /\ s[p] = h)
  <2>1. \A i \in 1..Len(s) : s[i] # h
    <3> SUFFICES ASSUME NEW i \in 1..Len(s), s[i] = h
                 PROVE  FALSE
      OBVIOUS
    <3>1. ~(s[i] < h) /\ ~(i < p)
      BY <1>1, <1>4
    <3>2. p \in 1..Len(s)
      BY <1>1, <1>4, <3>1
    <3>3. p # i
      BY <1>6, <3>2
    <3>4. p < i
      BY <1>1, <1>4, <3>1, <3>3
    <3>5. s[p] < h
      BY <3>2, <3>4 DEF Ascending
    <3> QED
      BY <1>4, <3>2, <3>5
  <2>2. Range(s) = Range(s) \ {h}
    BY <1>1, <2>1 DEF Range
  <2> QED
    BY <1>3, <1>6, <2>2
<1> QED
  BY <1>5, <1>6

-----------------------------------------------------------------------------
(***************************************************************************)
(* The loops over the virtual nodes of a node.                             *)
(***************************************************************************)
LEMMA AllInserted ==
    ASSUME NEW s, Ascending(s), NEW hs \in [Indices -> Nat],
           \A i \in Indices : hs[i] \notin Range(s),
           \A i, j \in Indices : hs[i] = hs[j] => i = j
    PROVE  /\ Ascending(Inserted(s, hs)[VirtualNodes])
           /\ Range(Inserted(s, hs)[VirtualNodes]) = Range(s) \cup Range(hs)
<1> DEFINE list == Inserted(s, hs)
           V == VirtualNodes
           Good(n) == Ascending(list[n]) /\ Range(list[n]) = Range(s) \cup {hs[i] : i \in 1..n}
           S == {n \in Nat : n <= V => Good(n)}
<1>1. V \in Nat
  BY RingAssumption
<1>2. list = [i \in 0..V |-> IF i = 0 THEN s ELSE Insort(list[i - 1], hs[i])]
  BY InsertedStep
<1> HIDE DEF list
<1>3. 0 \in S
  <2>1. list[0] = s
    BY <1>1, <1>2
  <2>2. {hs[i] : i \in 1..0} = {}
    OBVIOUS
  <2> QED
    BY <2>1, <2>2
<1>4. \A n \in Nat : n \in S => n + 1 \in S
  <2> SUFFICES ASSUME NEW n \in Nat, n <= V => Good(n), n + 1 <= V
               PROVE  Good(n + 1)
    <3> HIDE DEF Good
    <3> QED
      OBVIOUS
  <2>1. Ascending(list[n]) /\ Range(list[n]) = Range(s) \cup {hs[i] : i \in 1..n}
    BY <1>1
  <2>2. n + 1 \in Indices /\ n + 1 \in 0..V /\ n + 1 # 0 /\ (n + 1) - 1 = n
    BY <1>1 DEF Indices
  <2>3. list[n + 1] = Insort(list[n], hs[n + 1])
    BY <1>2, <2>2
  <2>4. hs[n + 1] \in Nat /\ hs[n + 1] \notin Range(list[n])
    <3>1. \A i \in 1..n : i \in Indices /\ i # n + 1
      BY <1>1 DEF Indices
    <3>2. \A i \in 1..n : hs[i] # hs[n + 1]
      BY <2>2, <3>1
    <3> QED
      BY <2>1, <2>2, <3>2
  <2>5. \A i \in 1..Len(list[n]) : list[n][i] # hs[n + 1]
    BY <2>1, <2>4 DEF Range, Ascending
  <2>6. /\ Ascending(list[n + 1])
        /\ Range(list[n + 1]) = Range(list[n]) \cup {hs[n + 1]}
    BY <2>1, <2>3, <2>4, <2>5, InsortKeeps
  <2>7. {hs[i] : i \in 1..(n + 1)} = {hs[i] : i \in 1..n} \cup {hs[n + 1]}
    <3>1. 1..(n + 1) = 1..n \cup {n + 1}
      OBVIOUS
    <3> QED
      BY <3>1
  <2> QED
    BY <2>1, <2>6, <2>7
<1> HIDE DEF S
<1>5. V \in S
  BY <1>1, <1>3, <1>4, Induction
<1>6. Good(V)
  BY <1>1, <1>5 DEF S
<1> QED
  BY <1>6 DEF list, Range, Indices

LEMMA AllDeleted ==
    ASSUME NEW s, Ascending(s), NEW hs \in [Indices -> Nat]
    PROVE  /\ Ascending(Deleted(s, hs)[VirtualNodes])
           /\ Range(Deleted(s, hs)[VirtualNodes]) = Range(s) \ Range(hs)
<1> DEFINE list == Deleted(s, hs)
           V == VirtualNodes
           Good(n) == Ascending(list[n]) /\ Range(list[n]) = Range(s) \ {hs[i] : i \in 1..n}
           S == {n \in Nat : n <= V => Good(n)}
<1>1. V \in Nat
  BY RingAssumption
<1>2. list = [i \in 0..V |-> IF i = 0 THEN s ELSE Delete(list[i - 1], hs[i])]
  BY DeletedStep
<1> HIDE DEF list
<1>3. 0 \in S
  <2>1. list[0] = s
    BY <1>1, <1>2
  <2>2. {hs[i] : i \in 1..0} = {}
    OBVIOUS
  <2> QED
    BY <2>1, <2>2
<1>4. \A n \in Nat : n \in S => n + 1 \in S
  <2> SUFFICES ASSUME NEW n \in Nat, n <= V => Good(n), n + 1 <= V
               PROVE  Good(n + 1)
    <3> HIDE DEF Good
    <3> QED
      OBVIOUS
  <2>1. Ascending(list[n]) /\ Range(list[n]) = Range(s) \ {hs[i] : i \in 1..n}
    BY <1>1
  <2>2. n + 1 \in Indices /\ n + 1 \in 0..V /\ n + 1 # 0 /\ (n + 1) - 1 = n
    BY <1>1 DEF Indices
  <2>3. list[n + 1] = Delete(list[n], hs[n + 1]) /\ hs[n + 1] \in Nat
    BY <1>2, <2>2
  <2>4. /\ Ascending(list[n + 1])
        /\ Range(list[n + 1]) = Range(list[n]) \ {hs[n + 1]}
    BY <2>1, <2>3, DeleteKeeps
  <2>5. {hs[i] : i \in 1..(n + 1)} = {hs[i] : i \in 1..n} \cup {hs[n + 1]}
    <3>1. 1..(n + 1) = 1..n \cup {n + 1}
      OBVIOUS
    <3> QED
      BY <3>1
  <2> QED
    BY <2>1, <2>4, <2>5
<1> HIDE DEF S
<1>5. V \in S
  BY <1>1, <1>3, <1>4, Induction
<1>6. Good(V)
  BY <1>1, <1>5 DEF S
<1> QED
  BY <1>6 DEF list, Range, Indices

-----------------------------------------------------------------------------
(***************************************************************************)
(* The inductive invariant: the list and the dictionary have the points of *)
(* the nodes added, and the dictionary gives every point its node.         *)
(***************************************************************************)
HashInv ==
    /\ hash \in [Nodes -> [Indices -> Hashes]]
    /\ \A n, m \in Nodes : \A i, j \in Indices : hash[n][i] = hash[m][j] => n = m /\ i = j

RingInv ==
    /\ ring \in [Points -> added]
    /\ \A n \in added : \A i \in Indices : ring[hash[n][i]] = n

IInv ==
    /\ HashInv /\ added \subseteq Nodes
    /\ Ascending(sorted) /\ Range(sorted) = Points
    /\ RingInv

\* A point is the hash of one virtual node.
LEMMA PointsAre ==
    ASSUME HashInv, added \subseteq Nodes
    PROVE  /\ \A n \in Nodes : hash[n] \in [Indices -> Nat] /\ Range(hash[n]) = {hash[n][i] : i \in Indices}
           /\ \A n \in Nodes : Range(hash[n]) \subseteq Hashes
           /\ \A p : p \in Points <=> \E n \in added : \E i \in Indices : p = hash[n][i]
           /\ \A n \in Nodes \ added : \A i \in Indices : hash[n][i] \notin Points
           /\ Points \subseteq Hashes /\ Hashes \subseteq Nat
<1>1. Hashes \subseteq Nat
  BY RingAssumption DEF Hashes
<1>2. \A n \in Nodes : hash[n] \in [Indices -> Hashes]
  BY DEF HashInv
<1>3. \A n \in Nodes : Range(hash[n]) = {hash[n][i] : i \in Indices}
  BY <1>2 DEF Range
<1>4. \A p : p \in Points <=> \E n \in added : \E i \in Indices : p = hash[n][i]
  <2>1. \A p : p \in Points <=> \E n \in added : p \in Range(hash[n])
    BY DEF Points
  <2> QED
    BY <1>3, <2>1
<1>5. \A n \in Nodes \ added : \A i \in Indices : hash[n][i] \notin Points
  BY <1>4 DEF HashInv
<1>6. \A n \in Nodes : hash[n] \in [Indices -> Nat]
  BY <1>1, <1>2
<1>7. \A n \in Nodes : \A i \in Indices : hash[n][i] \in Hashes
  BY <1>2
<1>8. Points \subseteq Hashes
  BY <1>4, <1>7
<1>9. \A n \in Nodes : Range(hash[n]) \subseteq Hashes
  BY <1>3, <1>7
<1> QED
  BY <1>1, <1>3, <1>4, <1>5, <1>6, <1>8, <1>9

LEMMA NodesAdded ==
    ASSUME IInv
    PROVE  nodes = added
<1>1. 1 \in Indices
  BY RingAssumption DEF Indices
<1>2. \A p : p \in Points <=> \E n \in added : \E i \in Indices : p = hash[n][i]
  BY PointsAre DEF IInv
<1>3. \A n \in added : hash[n][1] \in Points /\ ring[hash[n][1]] = n
  BY <1>1, <1>2 DEF IInv, RingInv
<1>4. ring \in [Points -> added]
  BY DEF IInv, RingInv
<1>5. nodes = {ring[p] : p \in Points}
  BY <1>4 DEF nodes, Range
<1> QED
  BY <1>3, <1>4, <1>5

LEMMA InitIInv == Init => IInv
<1> SUFFICES ASSUME Init
             PROVE  IInv
  OBVIOUS
<1>1. HashInv
  BY DEF Init, HashInv
<1>2. Points = {} /\ added = {}
  BY DEF Init, Points
<1>3. Ascending(sorted) /\ Range(sorted) = {}
  BY DEF Init, Ascending, Range
<1>4. ring \in [{} -> {}]
  BY DEF Init
<1> QED
  BY <1>1, <1>2, <1>3, <1>4 DEF IInv, RingInv

LEMMA AddNodeIInv ==
    ASSUME IInv, NEW n \in Nodes, AddNode(n)
    PROVE  IInv' /\ Points' = Points \cup Range(hash[n]) /\ n \notin added /\ added' = added \cup {n}
<1> DEFINE R == Range(hash[n])
<1>1. /\ HashInv /\ added \subseteq Nodes /\ n \notin added /\ added' = added \cup {n}
      /\ hash' = hash /\ HashInv' /\ added' \subseteq Nodes
  BY NodesAdded DEF AddNode, IInv, HashInv
<1>2. /\ hash[n] \in [Indices -> Nat] /\ R = {hash[n][i] : i \in Indices}
      /\ \A i \in Indices : hash[n][i] \notin Points
      /\ \A p : p \in Points <=> \E m \in added : \E i \in Indices : p = hash[m][i]
  BY <1>1, PointsAre
<1>3. \A p : p \in Points' <=> \E m \in added' : \E i \in Indices : p = hash[m][i]
  BY <1>1, PointsAre DEF Points, HashInv, Range
<1>4. Points' = Points \cup R
  BY <1>1, <1>2, <1>3
<1>5. Ascending(sorted') /\ Range(sorted') = Points'
  <2>1. \A i, j \in Indices : hash[n][i] = hash[n][j] => i = j
    BY <1>1 DEF HashInv
  <2>2. sorted' = Inserted(sorted, hash[n])[VirtualNodes] /\ Ascending(sorted) /\ Range(sorted) = Points
    BY DEF AddNode, IInv
  <2> QED
    BY <1>2, <1>4, <2>1, <2>2, AllInserted
<1>6. /\ DOMAIN ring = Points /\ ring' = RingWith(n)
      /\ ring \in [Points -> added] /\ \A m \in added : \A i \in Indices : ring[hash[m][i]] = m
  BY DEF AddNode, IInv, RingInv
<1>7. ring' = [p \in R \cup Points |-> IF p \in R THEN n ELSE ring[p]]
  BY <1>6 DEF RingWith
<1>8. RingInv'
  <2>1. ring' \in [Points' -> added']
    BY <1>1, <1>4, <1>6, <1>7
  <2>2. \A m \in added' : \A i \in Indices : ring'[hash[m][i]] = m
    <3> TAKE m \in added'
    <3> TAKE i \in Indices
    <3>1. CASE m = n
      BY <1>2, <1>7, <3>1
    <3>2. CASE m # n
      <4>1. m \in added /\ hash[m][i] \in Points
        BY <1>1, <1>2, <3>2
      <4>2. hash[m][i] \notin R
        BY <1>2, <4>1
      <4> QED
        BY <1>6, <1>7, <4>1, <4>2
    <3> QED
      BY <3>1, <3>2
  <2> QED
    BY <1>1, <2>1, <2>2 DEF RingInv
<1> QED
  BY <1>1, <1>4, <1>5, <1>8 DEF IInv

LEMMA RemoveNodeIInv ==
    ASSUME IInv, NEW n \in Nodes, RemoveNode(n)
    PROVE  IInv' /\ Points' = Points \ Range(hash[n]) /\ added' = added \ {n}
<1> DEFINE R == Range(hash[n])
<1>1. /\ HashInv /\ added \subseteq Nodes /\ added' = added \ {n}
      /\ hash' = hash /\ HashInv' /\ added' \subseteq Nodes
  BY DEF RemoveNode, IInv, HashInv
<1>2. /\ hash[n] \in [Indices -> Nat] /\ R = {hash[n][i] : i \in Indices}
      /\ \A p : p \in Points <=> \E m \in added : \E i \in Indices : p = hash[m][i]
  BY <1>1, PointsAre
<1>3. \A p : p \in Points' <=> \E m \in added' : \E i \in Indices : p = hash[m][i]
  BY <1>1, PointsAre DEF Points, HashInv, Range
<1>4. \A m \in added : m # n => \A i \in Indices : hash[m][i] \notin R
  BY <1>1, <1>2 DEF HashInv
<1>5. Points' = Points \ R
  <2>1. \A p : p \in Points' => p \in Points /\ p \notin R
    BY <1>1, <1>2, <1>3, <1>4
  <2>2. \A p : p \in Points /\ p \notin R => p \in Points'
    BY <1>1, <1>2, <1>3
  <2> QED
    BY <2>1, <2>2
<1>6. Ascending(sorted') /\ Range(sorted') = Points'
  <2>1. sorted' = Deleted(sorted, hash[n])[VirtualNodes] /\ Ascending(sorted) /\ Range(sorted) = Points
    BY DEF RemoveNode, IInv
  <2> QED
    BY <1>2, <1>5, <2>1, AllDeleted
<1>7. /\ DOMAIN ring = Points /\ ring' = [p \in DOMAIN ring \ R |-> ring[p]]
      /\ ring \in [Points -> added] /\ \A m \in added : \A i \in Indices : ring[hash[m][i]] = m
  BY DEF RemoveNode, IInv, RingInv, Restrict
<1>8. ring' = [p \in Points' |-> ring[p]]
  BY <1>5, <1>7
<1>9. \A m \in added' : \A i \in Indices : hash[m][i] \in Points' /\ ring'[hash[m][i]] = m
  BY <1>1, <1>3, <1>7, <1>8
<1>10. ring' \in [Points' -> added']
  BY <1>3, <1>8, <1>9
<1>11. RingInv'
  BY <1>1, <1>9, <1>10 DEF RingInv
<1> QED
  BY <1>1, <1>5, <1>6, <1>11 DEF IInv

LEMMA NextIInv == IInv /\ [Next]_vars => IInv'
<1> SUFFICES ASSUME IInv, [Next]_vars
             PROVE  IInv'
  OBVIOUS
<1>1. CASE Next
  BY <1>1, AddNodeIInv, RemoveNodeIInv DEF Next
<1>2. CASE UNCHANGED vars
  BY <1>2 DEF vars, IInv, HashInv, RingInv, Points
<1> QED
  BY <1>1, <1>2

\* The invariant holds for any sequence of add_node and remove_node.
THEOREM Invariance == Spec => []IInv
BY InitIInv, NextIInv, PTL DEF Spec

(***************************************************************************)
(* The dictionary and the list stay together and hold the points of the    *)
(* nodes added, through any sequence of add_node and remove_node, repeated *)
(* ones included, for any nodes and any number of virtual nodes.           *)
(***************************************************************************)
THEOREM RingStaysConsistent == Spec => []RingConsistent
<1>1. IInv => RingConsistent
  <2> SUFFICES ASSUME IInv
               PROVE  RingConsistent
    OBVIOUS
  <2>1. DOMAIN sorted = 1..Len(sorted)
    BY DEF IInv, Ascending
  <2>2. DOMAIN ring = Points
    BY DEF IInv, RingInv
  <2> QED
    BY <2>1, <2>2, NodesAdded DEF RingConsistent, IInv, Ascending
<1> QED
  BY <1>1, Invariance, PTL

-----------------------------------------------------------------------------
(***************************************************************************)
(* Routing.                                                                *)
(***************************************************************************)
Nearest(h, P, p) == p \in P /\ \A q \in P : Clockwise(h, p) <= Clockwise(h, q)

LEMMA ClockwiseIs ==
    ASSUME NEW h \in Hashes, NEW p \in Hashes, NEW q \in Hashes
    PROVE  /\ Clockwise(h, p) \in Nat
           /\ Clockwise(h, p) = Clockwise(h, q) => p = q
           /\ p <= q /\ (p > h \/ q <= h) => Clockwise(h, p) <= Clockwise(h, q)
           /\ p > h /\ q <= h => Clockwise(h, p) <= Clockwise(h, q)
<1>1. /\ h \in Nat /\ p \in Nat /\ q \in Nat /\ Space \in Nat
      /\ h < Space /\ p < Space /\ q < Space
  BY RingAssumption DEF Hashes
<1> QED
  BY <1>1 DEF Clockwise

\* get_node finds the first point clockwise.
LEMMA GetNodeNearest ==
    ASSUME IInv, added # {}, NEW h \in Hashes
    PROVE  \E p : Nearest(h, Points, p) /\ GetNode(h) = ring[p]
<1> DEFINE k == BisectRight(sorted, h)
           m == IF k = Len(sorted) THEN 1 ELSE k + 1
<1>1. /\ sorted \in Seq(Nat) /\ Len(sorted) \in Nat /\ DOMAIN sorted = 1..Len(sorted)
      /\ Ascending(sorted) /\ Range(sorted) = Points
  BY DEF IInv, Ascending
<1>2. Points \subseteq Hashes /\ Hashes \subseteq Nat
  BY PointsAre DEF IInv
<1>3. sorted # <<>>
  <2>1. 1 \in Indices
    BY RingAssumption DEF Indices
  <2>2. \A p : p \in Points <=> \E n \in added : \E i \in Indices : p = hash[n][i]
    BY PointsAre DEF IInv
  <2>3. PICK n : n \in added
    OBVIOUS
  <2>4. hash[n][1] \in Range(sorted)
    BY <1>1, <2>1, <2>2, <2>3
  <2> QED
    BY <2>4 DEF Range
<1>4. Len(sorted) >= 1
  BY <1>1, <1>3
<1>5. k \in 0..Len(sorted) /\ \A i \in 1..Len(sorted) : sorted[i] <= h <=> i <= k
  BY <1>1, <1>2, Right
<1>6. GetNode(h) = ring[sorted[m]]
  BY <1>3 DEF GetNode
<1> HIDE DEF k
<1>7. m \in 1..Len(sorted)
  <2>1. k = Len(sorted) => 1 \in 1..Len(sorted)
    BY <1>1, <1>4
  <2>2. k # Len(sorted) => k + 1 \in 1..Len(sorted)
    <3>1. k \in 0..Len(sorted) /\ Len(sorted) \in Nat
      BY <1>1, <1>5
    <3> QED
      BY ONLY <3>1
  <2> QED
    BY <2>1, <2>2
<1>8. \A i \in 1..Len(sorted) : sorted[i] \in Points
  BY <1>1 DEF Range
<1>9. \A i \in 1..Len(sorted) : Clockwise(h, sorted[m]) <= Clockwise(h, sorted[i])
  <2> TAKE i \in 1..Len(sorted)
  <2>1. /\ sorted[m] \in Hashes /\ sorted[i] \in Hashes
        /\ sorted[m] \in Nat /\ sorted[i] \in Nat /\ h \in Nat
    BY <1>2, <1>7, <1>8
  <2>2. CASE k = Len(sorted)
    <3>1. m = 1 /\ sorted[i] <= h
      BY <1>5, <2>2
    <3>2. sorted[m] <= sorted[i]
      BY <1>1, <2>1, <3>1 DEF Ascending
    <3> QED
      BY <2>1, <3>1, <3>2, ClockwiseIs
  <2>3. CASE k # Len(sorted)
    <3>1. m = k + 1 /\ ~(m <= k)
      BY <1>5, <2>3
    <3>2. sorted[m] > h
      BY <1>5, <1>7, <2>1, <3>1
    <3>3. CASE i <= k
      <4>1. sorted[i] <= h
        BY <1>5, <3>3
      <4> QED
        BY <2>1, <3>2, <4>1, ClockwiseIs
    <3>4. CASE i > k
      <4>1. i = m \/ m < i
        BY <1>5, <3>1, <3>4
      <4>2. sorted[m] <= sorted[i]
        BY <1>1, <1>7, <2>1, <4>1 DEF Ascending
      <4> QED
        BY <2>1, <3>2, <4>2, ClockwiseIs
    <3> QED
      BY <1>5, <3>3, <3>4
  <2> QED
    BY <2>2, <2>3
<1>10. Nearest(h, Points, sorted[m])
  <2>1. \A q \in Points : \E i \in 1..Len(sorted) : q = sorted[i]
    BY <1>1 DEF Range
  <2> HIDE DEF m
  <2> QED
    BY <1>7, <1>8, <1>9, <2>1 DEF Nearest
<1> QED
  BY <1>6, <1>10

\* Without nodes there is nothing to find.
LEMMA EmptyRing ==
    ASSUME IInv, added = {}, NEW h \in Hashes
    PROVE  GetNode(h) = NoNode
<1>1. Points = {}
  BY DEF Points
<1>2. sorted \in Seq(Nat) /\ Range(sorted) = {}
  BY <1>1 DEF IInv, Ascending
<1>3. sorted = <<>>
  <2> SUFFICES ASSUME sorted # <<>>
               PROVE  FALSE
    OBVIOUS
  <2>1. 1 \in DOMAIN sorted
    BY <1>2
  <2>2. sorted[1] \in Range(sorted)
    BY <2>1 DEF Range
  <2> QED
    BY <1>2, <2>2
<1> QED
  BY <1>3 DEF GetNode

LEMMA NearestUnique ==
    ASSUME NEW h \in Hashes, NEW P \in SUBSET Hashes, NEW p, NEW q,
           Nearest(h, P, p), Nearest(h, P, q)
    PROVE  p = q
<1>1. /\ p \in Hashes /\ q \in Hashes
      /\ Clockwise(h, p) <= Clockwise(h, q) /\ Clockwise(h, q) <= Clockwise(h, p)
  BY DEF Nearest
<1>2. Clockwise(h, p) \in Nat /\ Clockwise(h, q) \in Nat
  BY <1>1, ClockwiseIs
<1>3. Clockwise(h, p) = Clockwise(h, q)
  BY <1>1, <1>2
<1> QED
  BY <1>1, <1>3, ClockwiseIs

(***************************************************************************)
(* get_node gives the owner of the first point clockwise of the key, after *)
(* any sequence of add_node and remove_node: so every client that has the  *)
(* same nodes routes alike.                                                *)
(***************************************************************************)
THEOREM RoutingIsClockwise == Spec => []RoutesClockwise
<1>1. IInv => RoutesClockwise
  <2> SUFFICES ASSUME IInv, NEW h \in Hashes
               PROVE  IF added = {} THEN GetNode(h) = NoNode
                      ELSE \E p \in Range(hash[GetNode(h)]) :
                              \A q \in Points : Clockwise(h, p) <= Clockwise(h, q)
    BY DEF RoutesClockwise
  <2>1. CASE added = {}
    BY <2>1, EmptyRing
  <2>2. CASE added # {}
    <3>1. PICK p : Nearest(h, Points, p) /\ GetNode(h) = ring[p]
      BY <2>2, GetNodeNearest
    <3>2. /\ \A n \in Nodes : Range(hash[n]) = {hash[n][i] : i \in Indices}
          /\ p \in Points <=> \E n \in added : \E i \in Indices : p = hash[n][i]
      BY PointsAre DEF IInv
    <3>3. PICK n \in added : \E i \in Indices : p = hash[n][i]
      BY <3>1, <3>2 DEF Nearest
    <3>4. GetNode(h) = n /\ p \in Range(hash[n])
      BY <3>1, <3>2, <3>3 DEF IInv, RingInv
    <3> QED
      BY <2>2, <3>1, <3>4 DEF Nearest
  <2> QED
    BY <2>1, <2>2
<1> QED
  BY <1>1, Invariance, PTL

\* The owner of the nearest point, as a fact of a state.
Routed ==
    \A h \in Hashes : added # {} => \E p : Nearest(h, Points, p) /\ GetNode(h) = ring[p]

LEMMA AlwaysRouted == IInv => Routed
BY GetNodeNearest DEF Routed

LEMMA AddMoves ==
    ASSUME IInv, Routed, Routed', NEW n \in Nodes, AddNode(n), NEW h \in Hashes, added # {},
           GetNode(h)' # GetNode(h)
    PROVE  GetNode(h)' \in added' \ added
<1>1. /\ IInv' /\ n \notin added /\ added' = added \cup {n} /\ hash' = hash
      /\ Points' = Points \cup Range(hash[n])
  BY AddNodeIInv DEF AddNode
<1>2. /\ Points \subseteq Hashes /\ hash[n] \in [Indices -> Nat]
      /\ Range(hash[n]) = {hash[n][i] : i \in Indices}
      /\ \A p : p \in Points <=> \E m \in added : \E i \in Indices : p = hash[m][i]
  BY PointsAre DEF IInv
<1>3. PICK p : Nearest(h, Points, p) /\ GetNode(h) = ring[p]
  BY DEF Routed
<1>4. PICK q : Nearest(h, Points', q) /\ GetNode(h)' = ring'[q]
  BY <1>1 DEF Routed, Nearest, Clockwise
<1>5. CASE q \in Range(hash[n])
  <2>1. ring'[q] = n
    BY <1>1, <1>2, <1>5 DEF IInv, RingInv
  <2> QED
    BY <1>1, <1>4, <2>1
<1>6. CASE q \notin Range(hash[n])
  <2>1. Nearest(h, Points, q)
    BY <1>1, <1>4, <1>6 DEF Nearest
  <2>2. q = p
    BY <1>2, <1>3, <2>1, NearestUnique
  <2>3. PICK m \in added : \E i \in Indices : q = hash[m][i]
    BY <1>2, <2>1 DEF Nearest
  <2>4. ring[q] = m /\ ring'[q] = m
    BY <1>1, <2>3 DEF IInv, RingInv
  <2> QED
    BY <1>3, <1>4, <2>2, <2>4
<1> QED
  BY <1>5, <1>6

LEMMA RemoveMoves ==
    ASSUME IInv, Routed, Routed', NEW n \in Nodes, RemoveNode(n), NEW h \in Hashes,
           added # {}, added' # {}, GetNode(h)' # GetNode(h)
    PROVE  GetNode(h) \in added \ added'
<1>1. /\ IInv' /\ added' = added \ {n} /\ hash' = hash /\ Points' = Points \ Range(hash[n])
  BY RemoveNodeIInv DEF RemoveNode
<1>2. /\ Points \subseteq Hashes /\ Range(hash[n]) = {hash[n][i] : i \in Indices}
      /\ \A p : p \in Points <=> \E m \in added : \E i \in Indices : p = hash[m][i]
  BY PointsAre DEF IInv
<1>3. PICK p : Nearest(h, Points, p) /\ GetNode(h) = ring[p]
  BY DEF Routed
<1>4. PICK q : Nearest(h, Points', q) /\ GetNode(h)' = ring'[q]
  BY <1>1 DEF Routed, Nearest, Clockwise
<1>5. PICK m \in added : \E i \in Indices : p = hash[m][i]
  BY <1>2, <1>3 DEF Nearest
<1>6. ring[p] = m
  BY <1>5 DEF IInv, RingInv
<1>7. CASE m = n
  BY <1>1, <1>3, <1>6, <1>7
<1>8. CASE m # n
  <2>1. ring'[p] = m /\ m \in added'
    BY <1>1, <1>5, <1>8 DEF IInv, RingInv
  <2>2. p \notin Range(hash[n])
    BY <1>2, <1>5, <1>8 DEF IInv, HashInv
  <2>3. Nearest(h, Points', p)
    BY <1>1, <1>3, <2>2 DEF Nearest
  <2>4. p = q
    BY <1>1, <1>2, <1>4, <2>3, NearestUnique
  <2> QED
    BY <1>3, <1>4, <1>6, <2>1, <2>4
<1> QED
  BY <1>7, <1>8

(***************************************************************************)
(* A node that joins takes keys and moves none between the others; a node  *)
(* that leaves gives up its own keys only (add_node, remove_node against   *)
(* get_node).                                                              *)
(***************************************************************************)
THEOREM OnlyOwnKeysMove == Spec => MovesOnlyOwnKeys
<1> DEFINE A == \A h \in Hashes : GetNode(h)' # GetNode(h) =>
                   \/ GetNode(h) = NoNode
                   \/ GetNode(h)' \in added' \ added
                   \/ GetNode(h) \in added \ added'
<1>1. IInv /\ Routed /\ Routed' /\ [Next]_vars => [A]_vars
  <2> SUFFICES ASSUME IInv, Routed, Routed', Next, NEW h \in Hashes, GetNode(h)' # GetNode(h)
               PROVE  \/ GetNode(h) = NoNode
                      \/ GetNode(h)' \in added' \ added
                      \/ GetNode(h) \in added \ added'
    BY DEF vars
  <2>1. CASE added = {}
    BY <2>1, EmptyRing
  <2>2. CASE added # {}
    <3>1. PICK n \in Nodes : AddNode(n) \/ RemoveNode(n)
      BY DEF Next
    <3>2. CASE AddNode(n)
      BY <2>2, <3>2, AddMoves
    <3>3. CASE RemoveNode(n) /\ added' # {}
      BY <2>2, <3>3, RemoveMoves
    <3>4. CASE RemoveNode(n) /\ added' = {}
      <4>1. PICK p : Nearest(h, Points, p) /\ GetNode(h) = ring[p]
        BY <2>2 DEF Routed
      <4>2. ring[p] \in added
        BY <4>1 DEF IInv, RingInv, Nearest
      <4> QED
        BY <3>4, <4>1, <4>2
    <3> QED
      BY <3>1, <3>2, <3>3, <3>4
  <2> QED
    BY <2>1, <2>2
<1> QED
  BY <1>1, Invariance, AlwaysRouted, PTL DEF MovesOnlyOwnKeys, Spec

=============================================================================
