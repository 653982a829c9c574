---------------------------- MODULE StoreProofs ----------------------------
(***************************************************************************)
(* Lemmas about the operators of Store and Commands, for any keys, values  *)
(* and costs: what the methods of the store do to its memory accounting,   *)
(* its order of use and its heap, proved for each method and, by induction *)
(* over the commands, for a replay.                                        *)
(***************************************************************************)
EXTENDS Commands, FiniteSetTheorems, SequenceTheorems, WellFoundedInduction, TLAPS

-----------------------------------------------------------------------------
(***************************************************************************)
(* Induction over a set of numbers.                                        *)
(***************************************************************************)
LEMMA Induction ==
    ASSUME NEW S, 0 \in S, \A n \in Nat : n \in S => n + 1 \in S
    PROVE  \A n \in Nat : n \in S
<1> SUFFICES ASSUME NEW n \in Nat, n \notin S
             PROVE  FALSE
  OBVIOUS
<1> DEFINE T == {k \in Nat : k \notin S}
<1>1. T \subseteq Nat /\ T # {}
  OBVIOUS
<1>2. IsWellFoundedOn(OpToRel(<, Nat), Nat)
  BY NatLessThanWellFounded
<1> HIDE DEF T
<1>3. PICK x \in T : \A y \in T : ~(<<y, x>> \in OpToRel(<, Nat))
  BY <1>1, <1>2, WFMin
<1>4. \A k \in Nat, m \in Nat : k < m => <<k, m>> \in OpToRel(<, Nat)
  BY DEF OpToRel
<1>5. x \in Nat /\ x \notin S /\ \A y \in Nat : y < x => y \in S
  BY <1>1, <1>3, <1>4 DEF T
<1>6. x - 1 \in Nat /\ x - 1 < x /\ (x - 1) + 1 = x
  BY <1>5
<1> QED
  BY <1>5, <1>6

-----------------------------------------------------------------------------
(***************************************************************************)
(* The sum of sizes.                                                       *)
(***************************************************************************)
DataType == [Keys -> Entry \cup {None}]

Size(d, k) == IF d[k] # None THEN d[k].size ELSE 0

\* The recursion of MapThenSumSet over the subsets of a set.
Sums(d, S, g) ==
    g = [T \in SUBSET S |-> IF T = {} THEN 0
                            ELSE Size(d, CHOOSE x \in T : TRUE) + g[T \ {CHOOSE x \in T : TRUE}]]

LEMMA SizeOfIs ==
    ASSUME NEW s, NEW S
    PROVE  SizeOf(s, S) = (CHOOSE g : Sums(s.data, S, g))[S]
BY DEF SizeOf, MapThenSumSet, MapThenFoldSet, Sums, Size, Has

LEMMA SizeType ==
    ASSUME NEW d \in DataType, NEW k \in Keys
    PROVE  Size(d, k) \in Nat
BY DEF DataType, Entry, Size

LEMMA SumsExist ==
    ASSUME NEW d \in DataType, NEW S, S \subseteq Keys
    PROVE  \E g : Sums(d, S, g)
<1> DEFINE ch(T) == CHOOSE x \in T : TRUE
           Small(n) == {T \in SUBSET S : Cardinality(T) <= n}
           Fits(n) == \E g : g = [T \in Small(n) |->
                                   IF T = {} THEN 0 ELSE Size(d, ch(T)) + g[T \ {ch(T)}]]
           N == {n \in Nat : Fits(n)}
<1>1. IsFiniteSet(S) /\ \A T \in SUBSET S : IsFiniteSet(T) /\ Cardinality(T) \in Nat
  BY StoreAssumption, FS_Subset, FS_CardinalityType
<1>2. \A T \in SUBSET S : Cardinality(T) = 0 <=> T = {}
  BY <1>1, FS_EmptySet
<1>3. \A T \in SUBSET S : T # {} => ch(T) \in T /\ Cardinality(T \ {ch(T)}) = Cardinality(T) - 1
  BY <1>1, FS_RemoveElement
<1>4. 0 \in N
  <2>1. Small(0) = {{}}
    BY <1>1, <1>2
  <2>2. \A T \in Small(0) : T = {}
    BY <2>1
  <2> DEFINE g == [T \in Small(0) |-> 0]
  <2>3. g = [T \in Small(0) |-> IF T = {} THEN 0 ELSE Size(d, ch(T)) + g[T \ {ch(T)}]]
    BY <2>2
  <2> QED
    BY <2>3
<1>5. \A n \in Nat : n \in N => n + 1 \in N
  <2> SUFFICES ASSUME NEW n \in Nat, Fits(n)
               PROVE  Fits(n + 1)
    <3> HIDE DEF Fits
    <3> QED
      OBVIOUS
  <2>1. PICK g : g = [T \in Small(n) |-> IF T = {} THEN 0 ELSE Size(d, ch(T)) + g[T \ {ch(T)}]]
    OBVIOUS
  <2> DEFINE f == [T \in Small(n + 1) |->
                     IF T \in Small(n) THEN g[T] ELSE Size(d, ch(T)) + g[T \ {ch(T)}]]
  <2>2. \A T \in Small(n + 1) : T # {} => T \ {ch(T)} \in Small(n) /\ T \ {ch(T)} \in Small(n + 1)
    <3> TAKE T \in Small(n + 1)
    <3>1. T \in SUBSET S /\ Cardinality(T) <= n + 1 /\ Cardinality(T) \in Nat
      BY <1>1
    <3>2. T # {} => T \ {ch(T)} \in SUBSET S /\ Cardinality(T \ {ch(T)}) = Cardinality(T) - 1
      BY <1>3, <3>1
    <3> QED
      BY <3>1, <3>2
  <2>3. {} \in Small(n)
    BY <1>2
  <2>4. \A T \in Small(n + 1) : f[T] = IF T = {} THEN 0 ELSE Size(d, ch(T)) + f[T \ {ch(T)}]
    <3> TAKE T \in Small(n + 1)
    <3> HIDE DEF Small, ch
    <3>1. CASE T = {}
      BY <2>1, <2>3, <3>1
    <3>2. CASE T # {} /\ T \in Small(n)
      BY <2>1, <2>2, <3>2
    <3>3. CASE T # {} /\ T \notin Small(n)
      BY <2>1, <2>2, <3>3
    <3> QED
      BY <3>1, <3>2, <3>3
  <2>5. f = [T \in Small(n + 1) |-> IF T = {} THEN 0 ELSE Size(d, ch(T)) + f[T \ {ch(T)}]]
    <3> HIDE DEF Small, ch
    <3> QED
      BY <2>4
  <2> HIDE DEF f
  <2> QED
    BY <2>5, ZenonT(30)
<1>6. Fits(Cardinality(S))
  <2> HIDE DEF Fits
  <2>1. Cardinality(S) \in N
    <3> HIDE DEF N
    <3> QED
      BY <1>1, <1>4, <1>5, Induction
  <2> QED
    BY <2>1
<1>7. Small(Cardinality(S)) = SUBSET S
  BY <1>1, FS_Subset
<1> QED
  BY <1>6, <1>7 DEF Sums

\* Sums over different sets agree on what these have in common.
LEMMA SumsAgree ==
    ASSUME NEW d, NEW S, S \subseteq Keys, NEW T, T \subseteq S, NEW g, Sums(d, S, g),
           NEW h, Sums(d, T, h)
    PROVE  g[T] = h[T]
<1> DEFINE ch(U) == CHOOSE x \in U : TRUE
           N == {n \in Nat : \A U \in SUBSET T : Cardinality(U) = n => g[U] = h[U]}
<1>1. \A U \in SUBSET T : IsFiniteSet(U) /\ Cardinality(U) \in Nat
  BY StoreAssumption, FS_Subset, FS_CardinalityType
<1>2. \A U \in SUBSET T : Cardinality(U) = 0 <=> U = {}
  BY <1>1, FS_EmptySet
<1>3. \A U \in SUBSET T : U # {} => U \ {ch(U)} \in SUBSET T /\ Cardinality(U \ {ch(U)}) = Cardinality(U) - 1
  BY <1>1, FS_RemoveElement
<1>4. \A U \in SUBSET T :
         /\ g[U] = IF U = {} THEN 0 ELSE Size(d, ch(U)) + g[U \ {ch(U)}]
         /\ h[U] = IF U = {} THEN 0 ELSE Size(d, ch(U)) + h[U \ {ch(U)}]
  BY DEF Sums
<1> HIDE DEF ch
<1>5. 0 \in N
  BY <1>2, <1>4
<1>6. \A n \in Nat : n \in N => n + 1 \in N
  <2> SUFFICES ASSUME NEW n \in Nat, n \in N, NEW U \in SUBSET T, Cardinality(U) = n + 1
               PROVE  g[U] = h[U]
    OBVIOUS
  <2>1. U # {}
    BY <1>2
  <2>2. U \ {ch(U)} \in SUBSET T /\ Cardinality(U \ {ch(U)}) = n
    BY <1>3, <2>1
  <2>3. g[U \ {ch(U)}] = h[U \ {ch(U)}]
    BY <2>2
  <2> QED
    BY <1>4, <2>1, <2>3
<1> HIDE DEF N
<1>7. Cardinality(T) \in N
  BY <1>1, <1>5, <1>6, Induction
<1> QED
  BY <1>7 DEF N

\* One step of the sum, with the key that CHOOSE picks.
LEMMA SumChosen ==
    ASSUME NEW s, s.data \in DataType, NEW S, S \subseteq Keys
    PROVE  /\ S = {} => SizeOf(s, S) = 0
           /\ S # {} => \E x \in S : SizeOf(s, S) = Size(s.data, x) + SizeOf(s, S \ {x})
<1> DEFINE g == CHOOSE f : Sums(s.data, S, f)
           x == CHOOSE y \in S : TRUE
           h == CHOOSE f : Sums(s.data, S \ {x}, f)
<1>1. Sums(s.data, S, g) /\ SizeOf(s, S) = g[S]
  BY SumsExist, SizeOfIs
<1>2. Sums(s.data, S \ {x}, h) /\ SizeOf(s, S \ {x}) = h[S \ {x}]
  <2>1. S \ {x} \subseteq Keys
    OBVIOUS
  <2>2. \E f : Sums(s.data, S \ {x}, f)
    BY <2>1, SumsExist
  <2> QED
    BY <2>2, SizeOfIs
<1>3. g[S] = IF S = {} THEN 0 ELSE Size(s.data, x) + g[S \ {x}]
  BY <1>1 DEF Sums
<1> HIDE DEF g, h
<1>4. g[S \ {x}] = h[S \ {x}]
  BY <1>1, <1>2, SumsAgree
<1> QED
  BY <1>1, <1>2, <1>3, <1>4

\* The sum is a number, and any key may be taken out of it first.
LEMMA SumAny ==
    ASSUME NEW s, s.data \in DataType, NEW S, S \subseteq Keys
    PROVE  /\ SizeOf(s, S) \in Nat
           /\ \A x \in S : SizeOf(s, S) = Size(s.data, x) + SizeOf(s, S \ {x})
<1> DEFINE Good(T) == /\ SizeOf(s, T) \in Nat
                      /\ \A x \in T : SizeOf(s, T) = Size(s.data, x) + SizeOf(s, T \ {x})
           N == {n \in Nat : \A T \in SUBSET S : Cardinality(T) <= n => Good(T)}
<1>1. \A T \in SUBSET S : IsFiniteSet(T) /\ Cardinality(T) \in Nat
  BY StoreAssumption, FS_Subset, FS_CardinalityType
<1>2. \A T \in SUBSET S : Cardinality(T) = 0 <=> T = {}
  BY <1>1, FS_EmptySet
<1>3. \A T \in SUBSET S : \A x \in T : T \ {x} \in SUBSET S /\ Cardinality(T \ {x}) = Cardinality(T) - 1
  BY <1>1, FS_RemoveElement
<1>4. \A x \in S : Size(s.data, x) \in Nat
  BY SizeType
<1>5. 0 \in N
  <2>1. Good({})
    BY SumChosen
  <2> QED
    BY <1>1, <1>2, <2>1
<1>6. \A n \in Nat : n \in N => n + 1 \in N
  <2> SUFFICES ASSUME NEW n \in Nat, \A T \in SUBSET S : Cardinality(T) <= n => Good(T),
                      NEW T \in SUBSET S, Cardinality(T) <= n + 1, ~(Cardinality(T) <= n)
               PROVE  Good(T)
    <3> HIDE DEF Good
    <3> QED
      OBVIOUS
  <2>0. Cardinality(T) = n + 1
    BY <1>1
  <2>1. \A x \in T : T \ {x} \in SUBSET S /\ Cardinality(T \ {x}) = n /\ Size(s.data, x) \in Nat
    BY <1>3, <1>4, <2>0
  <2>2. \A x \in T : Good(T \ {x})
    BY <2>1
  <2>3. PICK c \in T : SizeOf(s, T) = Size(s.data, c) + SizeOf(s, T \ {c})
    <3>1. T # {} /\ T \subseteq Keys
      BY <1>2, <2>0
    <3> QED
      BY <3>1, SumChosen
  <2>4. SizeOf(s, T) \in Nat
    BY <2>1, <2>2, <2>3
  <2>5. ASSUME NEW x \in T
        PROVE  SizeOf(s, T) = Size(s.data, x) + SizeOf(s, T \ {x})
    <3>1. CASE x = c
      BY <2>3, <3>1
    <3>2. CASE x # c
      <4> DEFINE R == (T \ {c}) \ {x}
      <4>1. R = (T \ {x}) \ {c} /\ x \in T \ {c} /\ c \in T \ {x}
        BY <3>2
      <4>2. SizeOf(s, T \ {c}) = Size(s.data, x) + SizeOf(s, R)
        BY <2>2, <4>1
      <4>3. SizeOf(s, T \ {x}) = Size(s.data, c) + SizeOf(s, R)
        BY <2>2, <4>1
      <4>4. SizeOf(s, R) \in Nat
        <5>1. R \in SUBSET S /\ Cardinality(R) = n - 1
          BY <1>3, <2>1, <4>1
        <5> QED
          BY <5>1
      <4> QED
        BY <2>1, <2>3, <4>2, <4>3, <4>4
    <3> QED
      BY <3>1, <3>2
  <2> QED
    BY <2>4, <2>5
<1> HIDE DEF N
<1>7. Cardinality(S) \in N
  BY <1>1, <1>5, <1>6, Induction
<1>8. Good(S)
  BY <1>1, <1>7 DEF N
<1> QED
  BY <1>8

LEMMA SumSplit ==
    ASSUME NEW s, s.data \in DataType, NEW S, S \subseteq Keys, NEW K, K \subseteq S
    PROVE  SizeOf(s, S) = SizeOf(s, K) + SizeOf(s, S \ K)
<1> DEFINE N == {n \in Nat : \A T \in SUBSET S : Cardinality(T) = n =>
                                SizeOf(s, S) = SizeOf(s, T) + SizeOf(s, S \ T)}
<1>1. \A T \in SUBSET S : IsFiniteSet(T) /\ Cardinality(T) \in Nat
  BY StoreAssumption, FS_Subset, FS_CardinalityType
<1>2. \A T \in SUBSET S : Cardinality(T) = 0 <=> T = {}
  BY <1>1, FS_EmptySet
<1>3. \A T \in SUBSET S : \A x \in T : T \ {x} \in SUBSET S /\ Cardinality(T \ {x}) = Cardinality(T) - 1
  BY <1>1, FS_RemoveElement
<1>4. \A T \in SUBSET S :
         /\ SizeOf(s, T) \in Nat
         /\ \A x \in T : SizeOf(s, T) = Size(s.data, x) + SizeOf(s, T \ {x}) /\ Size(s.data, x) \in Nat
  BY SumAny, SizeType
<1>5. 0 \in N
  <2>1. SizeOf(s, {}) = 0 /\ SizeOf(s, S) \in Nat /\ S \ {} = S
    BY <1>4, SumChosen
  <2>2. SizeOf(s, S) = SizeOf(s, {}) + SizeOf(s, S \ {})
    BY <2>1
  <2> QED
    BY <1>2, <2>2
<1>6. \A n \in Nat : n \in N => n + 1 \in N
  <2> SUFFICES ASSUME NEW n \in Nat, n \in N, NEW T \in SUBSET S, Cardinality(T) = n + 1
               PROVE  SizeOf(s, S) = SizeOf(s, T) + SizeOf(s, S \ T)
    OBVIOUS
  <2>1. PICK x \in T : TRUE
    BY <1>2
  <2> DEFINE U == T \ {x}
  <2>2. U \in SUBSET S /\ Cardinality(U) = n
    BY <1>3, <2>1
  <2>3. SizeOf(s, S) = SizeOf(s, U) + SizeOf(s, S \ U)
    BY <2>2
  <2>4. SizeOf(s, T) = Size(s.data, x) + SizeOf(s, U) /\ Size(s.data, x) \in Nat
    BY <1>4, <2>1
  <2>5. SizeOf(s, S \ U) = Size(s.data, x) + SizeOf(s, S \ T)
    <3>1. S \ U \in SUBSET S /\ x \in S \ U /\ (S \ U) \ {x} = S \ T
      BY <2>1
    <3> HIDE DEF U
    <3>2. SizeOf(s, S \ U) = Size(s.data, x) + SizeOf(s, (S \ U) \ {x})
      BY <1>4, <3>1
    <3> QED
      BY <3>1, <3>2
  <2>6. SizeOf(s, U) \in Nat /\ SizeOf(s, S \ T) \in Nat
    BY <1>4, <2>2
  <2> QED
    BY <2>3, <2>4, <2>5, <2>6
<1> HIDE DEF N
<1>7. Cardinality(K) \in N
  BY <1>1, <1>5, <1>6, Induction
<1> QED
  BY <1>7 DEF N

\* The sum depends on the entries of the set only.
LEMMA SumEqual ==
    ASSUME NEW s, s.data \in DataType, NEW t, t.data \in DataType, NEW S, S \subseteq Keys,
           \A k \in S : t.data[k] = s.data[k]
    PROVE  SizeOf(t, S) = SizeOf(s, S)
<1> DEFINE N == {n \in Nat : \A T \in SUBSET S : Cardinality(T) = n => SizeOf(t, T) = SizeOf(s, T)}
<1>1. \A T \in SUBSET S : IsFiniteSet(T) /\ Cardinality(T) \in Nat
  BY StoreAssumption, FS_Subset, FS_CardinalityType
<1>2. \A T \in SUBSET S : Cardinality(T) = 0 <=> T = {}
  BY <1>1, FS_EmptySet
<1>3. \A T \in SUBSET S : \A x \in T : T \ {x} \in SUBSET S /\ Cardinality(T \ {x}) = Cardinality(T) - 1
  BY <1>1, FS_RemoveElement
<1>4. 0 \in N
  <2>1. SizeOf(s, {}) = 0 /\ SizeOf(t, {}) = 0
    BY SumChosen
  <2> QED
    BY <1>2, <2>1
<1>5. \A n \in Nat : n \in N => n + 1 \in N
  <2> SUFFICES ASSUME NEW n \in Nat, n \in N, NEW T \in SUBSET S, Cardinality(T) = n + 1
               PROVE  SizeOf(t, T) = SizeOf(s, T)
    OBVIOUS
  <2>1. PICK x \in T : TRUE
    BY <1>2
  <2>2. SizeOf(t, T \ {x}) = SizeOf(s, T \ {x})
    BY <1>3, <2>1
  <2>3. SizeOf(s, T) = Size(s.data, x) + SizeOf(s, T \ {x})
    BY <2>1, SumAny
  <2>4. SizeOf(t, T) = Size(t.data, x) + SizeOf(t, T \ {x})
    BY <2>1, SumAny
  <2>5. Size(t.data, x) = Size(s.data, x)
    BY <2>1 DEF Size
  <2> QED
    BY <2>2, <2>3, <2>4, <2>5
<1> HIDE DEF N
<1>6. Cardinality(S) \in N
  BY <1>1, <1>4, <1>5, Induction
<1> QED
  BY <1>6 DEF N

\* A single key, and none.
LEMMA SumOne ==
    ASSUME NEW s, s.data \in DataType, NEW k \in Keys
    PROVE  SizeOf(s, {k}) = Size(s.data, k) /\ SizeOf(s, {}) = 0
<1>1. SizeOf(s, {}) = 0
  BY SumChosen
<1>2. SizeOf(s, {k}) = Size(s.data, k) + SizeOf(s, {k} \ {k})
  BY SumAny
<1>3. {k} \ {k} = {} /\ Size(s.data, k) \in Nat
  BY SizeType
<1> QED
  BY <1>1, <1>2, <1>3

\* What is not there has no size.
LEMMA SumNone ==
    ASSUME NEW s, s.data \in DataType, NEW S, S \subseteq Keys, \A k \in S : s.data[k] = None
    PROVE  SizeOf(s, S) = 0
<1> DEFINE N == {n \in Nat : \A T \in SUBSET S : Cardinality(T) = n => SizeOf(s, T) = 0}
<1>1. \A T \in SUBSET S : IsFiniteSet(T) /\ Cardinality(T) \in Nat
  BY StoreAssumption, FS_Subset, FS_CardinalityType
<1>2. \A T \in SUBSET S : Cardinality(T) = 0 <=> T = {}
  BY <1>1, FS_EmptySet
<1>3. \A T \in SUBSET S : \A x \in T : T \ {x} \in SUBSET S /\ Cardinality(T \ {x}) = Cardinality(T) - 1
  BY <1>1, FS_RemoveElement
<1>4. 0 \in N
  BY <1>2, SumChosen
<1>5. \A n \in Nat : n \in N => n + 1 \in N
  <2> SUFFICES ASSUME NEW n \in Nat, n \in N, NEW T \in SUBSET S, Cardinality(T) = n + 1
               PROVE  SizeOf(s, T) = 0
    OBVIOUS
  <2>1. PICK x \in T : TRUE
    BY <1>2
  <2>2. SizeOf(s, T \ {x}) = 0
    BY <1>3, <2>1
  <2>3. SizeOf(s, T) = Size(s.data, x) + SizeOf(s, T \ {x})
    BY <2>1, SumAny
  <2>4. Size(s.data, x) = 0
    BY <2>1 DEF Size
  <2> QED
    BY <2>2, <2>3, <2>4
<1> HIDE DEF N
<1>6. Cardinality(S) \in N
  BY <1>1, <1>4, <1>5, Induction
<1> QED
  BY <1>6 DEF N

-----------------------------------------------------------------------------
(***************************************************************************)
(* What is left of a sequence of keys.                                     *)
(***************************************************************************)
\* The list after each key of q has been looked at.
Leaves(q, ks, f) ==
    f = [i \in 0..Len(q) |-> IF i = 0 THEN <<>>
                             ELSE IF q[i] \in ks THEN f[i - 1] ELSE Append(f[i - 1], q[i])]

LEMMA WithoutIs ==
    ASSUME NEW q, NEW ks
    PROVE  Without(q, ks) = (CHOOSE f : Leaves(q, ks, f))[Len(q)]
BY DEF Without, Leaves

LEMMA LeavesExist ==
    ASSUME NEW q \in Seq(Keys), NEW ks
    PROVE  \E f : Leaves(q, ks, f)
<1> DEFINE Step(l, i) == IF q[i] \in ks THEN l ELSE Append(l, q[i])
           Fits(n) == \E f : f = [i \in 0..n |-> IF i = 0 THEN <<>> ELSE Step(f[i - 1], i)]
           N == {n \in Nat : Fits(n)}
<1> HIDE DEF Step
<1>1. 0 \in N
  <2> DEFINE f == [i \in 0..0 |-> <<>>]
  <2>1. f = [i \in 0..0 |-> IF i = 0 THEN <<>> ELSE Step(f[i - 1], i)]
    OBVIOUS
  <2> QED
    BY <2>1
<1>2. \A n \in Nat : n \in N => n + 1 \in N
  <2> SUFFICES ASSUME NEW n \in Nat, Fits(n)
               PROVE  Fits(n + 1)
    <3> HIDE DEF Fits
    <3> QED
      OBVIOUS
  <2>1. PICK f : f = [i \in 0..n |-> IF i = 0 THEN <<>> ELSE Step(f[i - 1], i)]
    OBVIOUS
  <2> DEFINE g == [i \in 0..(n + 1) |-> IF i <= n THEN f[i] ELSE Step(f[n], n + 1)]
  <2>2. \A i \in 0..(n + 1) : g[i] = IF i = 0 THEN <<>> ELSE Step(g[i - 1], i)
    <3> TAKE i \in 0..(n + 1)
    <3>1. CASE i <= n
      <4>1. i \in 0..n /\ (i # 0 => i - 1 \in 0..n /\ i - 1 \in 0..(n + 1) /\ i - 1 <= n)
        BY <3>1
      <4> QED
        BY <2>1, <3>1, <4>1
    <3>2. CASE i = n + 1
      <4>1. i # 0 /\ i - 1 = n /\ n \in 0..(n + 1) /\ ~(i <= n)
        BY <3>2
      <4> QED
        BY <3>2, <4>1
    <3> QED
      BY <3>1, <3>2
  <2>3. g = [i \in 0..(n + 1) |-> IF i = 0 THEN <<>> ELSE Step(g[i - 1], i)]
    BY <2>2
  <2> HIDE DEF g
  <2> QED
    BY <2>3
<1>3. Fits(Len(q))
  <2> HIDE DEF Fits
  <2>1. Len(q) \in N
    <3> HIDE DEF N
    <3> QED
      BY <1>1, <1>2, Induction
  <2> QED
    BY <2>1
<1> QED
  BY <1>3 DEF Leaves, Step

\* The steps by which Without is computed.
LEMMA WithoutSteps ==
    ASSUME NEW q \in Seq(Keys), NEW ks
    PROVE  \E f : /\ f[0] = <<>> /\ Without(q, ks) = f[Len(q)]
                  /\ \A n \in Nat : n + 1 <= Len(q) =>
                        f[n + 1] = IF q[n + 1] \in ks THEN f[n] ELSE Append(f[n], q[n + 1])
<1> DEFINE f == CHOOSE g : Leaves(q, ks, g)
<1>1. Leaves(q, ks, f)
  BY LeavesExist
<1> HIDE DEF f
<1>2. \A i \in 0..Len(q) : f[i] = IF i = 0 THEN <<>>
                                  ELSE IF q[i] \in ks THEN f[i - 1] ELSE Append(f[i - 1], q[i])
  BY <1>1 DEF Leaves
<1>3. f[0] = <<>>
  BY <1>2
<1>4. ASSUME NEW n \in Nat, n + 1 <= Len(q)
      PROVE  f[n + 1] = IF q[n + 1] \in ks THEN f[n] ELSE Append(f[n], q[n + 1])
  <2>1. n + 1 \in 0..Len(q) /\ n + 1 # 0 /\ (n + 1) - 1 = n
    BY <1>4
  <2> QED
    BY <1>2, <2>1
<1>5. Without(q, ks) = f[Len(q)]
  BY WithoutIs DEF f
<1> QED
  BY <1>3, <1>4, <1>5

Distinct(q) == \A i, j \in 1..Len(q) : q[i] = q[j] => i = j
In(q, k) == \E i \in 1..Len(q) : q[i] = k

LEMMA InAppend ==
    ASSUME NEW q \in Seq(Keys), NEW k \in Keys
    PROVE  /\ Append(q, k) \in Seq(Keys)
           /\ \A x : In(Append(q, k), x) <=> In(q, x) \/ x = k
           /\ Distinct(q) /\ ~In(q, k) => Distinct(Append(q, k))
<1>1. /\ Append(q, k) \in Seq(Keys) /\ Len(Append(q, k)) = Len(q) + 1 /\ Len(q) \in Nat
      /\ \A i \in 1..Len(q) : Append(q, k)[i] = q[i]
      /\ Append(q, k)[Len(q) + 1] = k
  OBVIOUS
<1>2. \A i \in 1..(Len(q) + 1) : i \in 1..Len(q) \/ i = Len(q) + 1
  BY <1>1
<1>3. ASSUME NEW x
      PROVE  In(Append(q, k), x) <=> In(q, x) \/ x = k
  BY <1>1, <1>2 DEF In
<1>4. ASSUME Distinct(q), ~In(q, k)
      PROVE  Distinct(Append(q, k))
  BY <1>1, <1>2, <1>4 DEF In, Distinct
<1> QED
  BY <1>1, <1>3, <1>4

\* The keys that are left are those not in ks, as often and in the same order.
LEMMA WithoutKeys ==
    ASSUME NEW q \in Seq(Keys), NEW ks
    PROVE  /\ Without(q, ks) \in Seq(Keys) /\ Len(Without(q, ks)) <= Len(q)
           /\ \A k : In(Without(q, ks), k) <=> In(q, k) /\ k \notin ks
           /\ Distinct(q) => Distinct(Without(q, ks))
<1>1. PICK f : /\ f[0] = <<>> /\ Without(q, ks) = f[Len(q)]
               /\ \A n \in Nat : n + 1 <= Len(q) =>
                     f[n + 1] = IF q[n + 1] \in ks THEN f[n] ELSE Append(f[n], q[n + 1])
  BY WithoutSteps
<1> DEFINE Upto(n, k) == \E i \in 1..n : q[i] = k
           Good(n) == /\ f[n] \in Seq(Keys) /\ Len(f[n]) <= n
                      /\ \A k : In(f[n], k) <=> Upto(n, k) /\ k \notin ks
                      /\ Distinct(q) => Distinct(f[n])
           N == {n \in Nat : n <= Len(q) => Good(n)}
<1>2. 0 \in N
  <2>1. <<>> \in Seq(Keys) /\ Len(<<>>) = 0 /\ 1..0 = {}
    OBVIOUS
  <2>2. Good(0)
    BY <1>1, <2>1 DEF In, Distinct
  <2> QED
    BY <2>2
<1>3. \A n \in Nat : n \in N => n + 1 \in N
  <2> SUFFICES ASSUME NEW n \in Nat, Good(n), n + 1 <= Len(q)
               PROVE  Good(n + 1)
    <3> HIDE DEF Good
    <3> QED
      OBVIOUS
  <2>1. f[n + 1] = IF q[n + 1] \in ks THEN f[n] ELSE Append(f[n], q[n + 1])
    BY <1>1
  <2>2. n + 1 \in 1..Len(q) /\ q[n + 1] \in Keys
    OBVIOUS
  <2>3. \A k : Upto(n + 1, k) <=> Upto(n, k) \/ q[n + 1] = k
    OBVIOUS
  <2>4. Distinct(q) => ~Upto(n, q[n + 1])
    BY <2>2 DEF Distinct
  <2> HIDE DEF Upto
  <2>5. CASE q[n + 1] \in ks
    <3>1. f[n + 1] = f[n]
      BY <2>1, <2>5
    <3>2. \A k : In(f[n + 1], k) <=> Upto(n + 1, k) /\ k \notin ks
      BY <2>3, <2>5, <3>1
    <3>3. Len(f[n]) <= n + 1
      OBVIOUS
    <3> QED
      BY <3>1, <3>2, <3>3
  <2>6. CASE q[n + 1] \notin ks
    <3>1. f[n + 1] = Append(f[n], q[n + 1])
      BY <2>1, <2>6
    <3>2. f[n + 1] \in Seq(Keys) /\ Len(f[n + 1]) <= n + 1
      BY <2>2, <3>1
    <3>3. \A k : In(f[n + 1], k) <=> In(f[n], k) \/ k = q[n + 1]
      BY <2>2, <3>1, InAppend
    <3>4. \A k : In(f[n + 1], k) <=> Upto(n + 1, k) /\ k \notin ks
      BY <2>3, <2>6, <3>3
    <3>5. Distinct(q) => Distinct(f[n + 1])
      BY <2>2, <2>4, <3>1, InAppend
    <3> QED
      BY <3>2, <3>4, <3>5
  <2> QED
    BY <2>5, <2>6
<1> HIDE DEF N
<1>4. Len(q) \in N
  BY <1>2, <1>3, Induction
<1>5. Good(Len(q))
  BY <1>4 DEF N
<1> QED
  BY <1>1, <1>5 DEF In

\* A key that is not in ks stays last when it was.
LEMMA WithoutLast ==
    ASSUME NEW q \in Seq(Keys), NEW ks, q # <<>>, q[Len(q)] \notin ks
    PROVE  Without(q, ks) # <<>> /\ Without(q, ks)[Len(Without(q, ks))] = q[Len(q)]
<1>1. PICK f : /\ f[0] = <<>> /\ Without(q, ks) = f[Len(q)]
               /\ \A n \in Nat : n + 1 <= Len(q) =>
                     f[n + 1] = IF q[n + 1] \in ks THEN f[n] ELSE Append(f[n], q[n + 1])
  BY WithoutSteps
<1> DEFINE N == {n \in Nat : n <= Len(q) => f[n] \in Seq(Keys)}
<1>2. 0 \in N
  <2>1. <<>> \in Seq(Keys)
    OBVIOUS
  <2> QED
    BY <1>1, <2>1
<1>3. \A n \in Nat : n \in N => n + 1 \in N
  <2> SUFFICES ASSUME NEW n \in Nat, f[n] \in Seq(Keys), n + 1 <= Len(q)
               PROVE  f[n + 1] \in Seq(Keys)
    OBVIOUS
  <2>1. q[n + 1] \in Keys
    OBVIOUS
  <2>2. f[n + 1] = IF q[n + 1] \in ks THEN f[n] ELSE Append(f[n], q[n + 1])
    BY <1>1
  <2> QED
    BY <2>1, <2>2
<1> HIDE DEF N
<1>4. Len(q) \in Nat /\ Len(q) - 1 \in Nat /\ (Len(q) - 1) + 1 = Len(q)
  OBVIOUS
<1>5. Len(q) - 1 \in N
  BY <1>2, <1>3, <1>4, Induction
<1>6. f[Len(q) - 1] \in Seq(Keys)
  BY <1>4, <1>5 DEF N
<1>7. f[Len(q)] = Append(f[Len(q) - 1], q[Len(q)])
  <2> DEFINE n == Len(q) - 1
  <2>1. n \in Nat /\ n + 1 = Len(q) /\ n + 1 <= Len(q)
    BY <1>4
  <2> HIDE DEF n
  <2>2. f[n + 1] = IF q[n + 1] \in ks THEN f[n] ELSE Append(f[n], q[n + 1])
    BY <1>1, <2>1
  <2> QED
    BY <2>1, <2>2 DEF n
<1>8. q[Len(q)] \in Keys
  OBVIOUS
<1>9. f[Len(q)] # <<>> /\ f[Len(q)][Len(f[Len(q)])] = q[Len(q)]
  <2> DEFINE u == f[Len(q) - 1]
             j == q[Len(q)]
             v == f[Len(q)]
  <2>1. u \in Seq(Keys) /\ j \in Keys /\ v = Append(u, j)
    BY <1>6, <1>7, <1>8
  <2> HIDE DEF u, j, v
  <2>2. v # <<>> /\ v[Len(v)] = j
    BY <2>1
  <2> QED
    BY <2>2 DEF j, v
<1> QED
  BY <1>1, <1>9

\* Something is taken out.
LEMMA WithoutShorter ==
    ASSUME NEW q \in Seq(Keys), NEW k, In(q, k)
    PROVE  Len(Without(q, {k})) < Len(q)
<1> DEFINE ks == {k}
<1>0. k \in ks
  OBVIOUS
<1> HIDE DEF ks
<1>1. PICK f : /\ f[0] = <<>> /\ Without(q, ks) = f[Len(q)]
               /\ \A n \in Nat : n + 1 <= Len(q) =>
                     f[n + 1] = IF q[n + 1] \in ks THEN f[n] ELSE Append(f[n], q[n + 1])
  BY WithoutSteps
<1> DEFINE Upto(n) == \E i \in 1..n : q[i] = k
           Shorter(n) == f[n] \in Seq(Keys) /\ Len(f[n]) <= n /\ (Upto(n) => Len(f[n]) < n)
           N == {n \in Nat : n <= Len(q) => Shorter(n)}
<1>2. 0 \in N
  <2>1. <<>> \in Seq(Keys) /\ Len(<<>>) = 0 /\ 1..0 = {}
    OBVIOUS
  <2>2. Shorter(0)
    BY <1>1, <2>1
  <2> QED
    BY <2>2
<1>3. \A n \in Nat : n \in N => n + 1 \in N
  <2> SUFFICES ASSUME NEW n \in Nat, Shorter(n), n + 1 <= Len(q)
               PROVE  Shorter(n + 1)
    <3> HIDE DEF Shorter
    <3> QED
      OBVIOUS
  <2>1. q[n + 1] \in Keys
    OBVIOUS
  <2>2. Upto(n + 1) => Upto(n) \/ q[n + 1] = k
    OBVIOUS
  <2> HIDE DEF Upto
  <2>3. CASE q[n + 1] \in ks
    BY <1>1, <2>3
  <2>4. CASE q[n + 1] \notin ks
    <3>1. f[n + 1] = Append(f[n], q[n + 1])
      BY <1>1, <2>4
    <3>2. f[n + 1] \in Seq(Keys) /\ Len(f[n + 1]) = Len(f[n]) + 1
      BY <2>1, <3>1
    <3> QED
      BY <1>0, <2>2, <2>4, <3>2
  <2> QED
    BY <2>3, <2>4
<1> HIDE DEF N
<1>4. Len(q) \in N
  BY <1>2, <1>3, Induction
<1>5. Shorter(Len(q))
  BY <1>4 DEF N
<1>6. Len(Without(q, ks)) < Len(q)
  BY <1>1, <1>5 DEF In
<1> QED
  BY <1>6 DEF ks

\* Taking out the first n of different keys leaves the others.
LEMMA WithoutFirst ==
    ASSUME NEW q \in Seq(Keys), Distinct(q), NEW m \in 0..Len(q)
    PROVE  Len(Without(q, {q[i] : i \in 1..m})) = Len(q) - m
<1> DEFINE ks == {q[i] : i \in 1..m}
<1>0. \A i \in 1..Len(q) : q[i] \in ks <=> i <= m
  BY DEF Distinct
<1> HIDE DEF ks
<1>1. PICK f : /\ f[0] = <<>> /\ Without(q, ks) = f[Len(q)]
               /\ \A n \in Nat : n + 1 <= Len(q) =>
                     f[n + 1] = IF q[n + 1] \in ks THEN f[n] ELSE Append(f[n], q[n + 1])
  BY WithoutSteps
<1> DEFINE Good(n) == f[n] \in Seq(Keys) /\ Len(f[n]) = IF n <= m THEN 0 ELSE n - m
           N == {n \in Nat : n <= Len(q) => Good(n)}
<1>2. 0 \in N
  <2>1. <<>> \in Seq(Keys) /\ Len(<<>>) = 0 /\ 0 <= m
    OBVIOUS
  <2>2. Good(0)
    BY <1>1, <2>1
  <2> QED
    BY <2>2
<1>3. \A n \in Nat : n \in N => n + 1 \in N
  <2> SUFFICES ASSUME NEW n \in Nat, Good(n), n + 1 <= Len(q)
               PROVE  Good(n + 1)
    <3> HIDE DEF Good
    <3> QED
      OBVIOUS
  <2>1. q[n + 1] \in Keys /\ (q[n + 1] \in ks <=> n + 1 <= m)
    BY <1>0
  <2>2. CASE n + 1 <= m
    BY <1>1, <2>1, <2>2
  <2>3. CASE ~(n + 1 <= m)
    <3>1. f[n + 1] = Append(f[n], q[n + 1])
      BY <1>1, <2>1, <2>3
    <3>2. f[n + 1] \in Seq(Keys) /\ Len(f[n + 1]) = Len(f[n]) + 1
      BY <2>1, <3>1, SMTT(30)
    <3> QED
      BY <2>3, <3>2
  <2> QED
    BY <2>2, <2>3
<1> HIDE DEF N
<1>4. Len(q) \in N
  BY <1>2, <1>3, Induction
<1>5. Good(Len(q))
  BY <1>4 DEF N
<1>6. Len(Without(q, ks)) = Len(q) - m
  BY <1>1, <1>5
<1> QED
  BY <1>6 DEF ks

-----------------------------------------------------------------------------
(***************************************************************************)
(* What is true of a store between two commands.                           *)
(***************************************************************************)
StoreType ==
    [data : DataType, order : Seq(Keys), heap : SUBSET (Int \X Keys), used : Int,
     evicted : Seq(Keys), cap : Nat, policy : {"allkeys-lru", "noeviction"}]

\* Every entry has the size of its value.
Costed(s) == \A k \in Keys : Has(s, k) => s.data[k].size = Cost(s.data[k].value)

\* The order lists the keys that are there, each once.
Listed(s) == Distinct(s.order) /\ \A k \in Keys : In(s.order, k) <=> Has(s, k)

Accounted(s) == s.used = SizeOf(s, Keys)

Sound(s) == s \in StoreType /\ Costed(s) /\ Listed(s) /\ Accounted(s)

\* The deadlines of the keys in K are in the heap.
Covered(s, K) ==
    \A k \in K : Has(s, k) /\ s.data[k].expireAt # None => <<s.data[k].expireAt, k>> \in s.heap

SameOptions(t, s) == t.cap = s.cap /\ t.policy = s.policy

\* t came from s by taking keys out.
Fewer(t, s) ==
    /\ \A k \in Keys : t.data[k] = None \/ t.data[k] = s.data[k]
    /\ t.used <= s.used /\ Len(t.order) <= Len(s.order) /\ SameOptions(t, s)

\* The cap is respected, or a single key is left.
Bounded(s) == s.policy = "allkeys-lru" => ~OverLimit(s) \/ Len(s.order) <= 1

LEMMA FewerBounded ==
    ASSUME NEW s \in StoreType, NEW t \in StoreType, Fewer(t, s), Bounded(s)
    PROVE  Bounded(t)
BY DEF StoreType, Fewer, Bounded, OverLimit, SameOptions

-----------------------------------------------------------------------------
(***************************************************************************)
(* RemoveKeys, Put, Sweep, Evict and Schedule, field by field and for what *)
(* is true of a store.                                                     *)
(***************************************************************************)
LEMMA RemoveFields ==
    ASSUME NEW s \in StoreType, NEW ks, ks \subseteq Keys, NEW t, t = RemoveKeys(s, ks)
    PROVE  /\ t \in StoreType
           /\ \A k \in Keys : t.data[k] = IF k \in ks THEN None ELSE s.data[k]
           /\ t.order = Without(s.order, ks) /\ t.used = s.used - SizeOf(s, ks)
           /\ t.heap = s.heap /\ t.evicted = s.evicted /\ SameOptions(t, s)
<1>1. Without(s.order, ks) \in Seq(Keys)
  BY WithoutKeys DEF StoreType
<1>2. SizeOf(s, ks) \in Nat
  BY SumAny DEF StoreType
<1>3. t = [s EXCEPT !.data = [k \in Keys |-> IF k \in ks THEN None ELSE s.data[k]],
                    !.order = Without(s.order, ks),
                    !.used = s.used - SizeOf(s, ks)]
  BY DEF RemoveKeys
<1>4. [k \in Keys |-> IF k \in ks THEN None ELSE s.data[k]] \in DataType
  BY DEF DataType, StoreType
<1>5. s.used - SizeOf(s, ks) \in Int
  BY <1>2 DEF StoreType
<1> DEFINE d == [k \in Keys |-> IF k \in ks THEN None ELSE s.data[k]]
           o == Without(s.order, ks)
           u == s.used - SizeOf(s, ks)
<1>6. \A k \in Keys : d[k] = IF k \in ks THEN None ELSE s.data[k]
  OBVIOUS
<1>7. d \in DataType /\ o \in Seq(Keys) /\ u \in Int /\ t = [s EXCEPT !.data = d, !.order = o, !.used = u]
  BY <1>1, <1>3, <1>4, <1>5
<1> HIDE DEF d, o, u
<1>8. /\ t \in StoreType /\ t.data = d /\ t.order = o /\ t.used = u
      /\ t.heap = s.heap /\ t.evicted = s.evicted /\ SameOptions(t, s)
  BY <1>7 DEF StoreType, SameOptions
<1> QED
  BY <1>6, <1>8 DEF o, u

LEMMA RemoveSound ==
    ASSUME NEW s, Sound(s), NEW ks, ks \subseteq Keys, NEW t, t = RemoveKeys(s, ks)
    PROVE  Sound(t) /\ Fewer(t, s)
<1>0. s \in StoreType /\ s.data \in DataType /\ s.order \in Seq(Keys) /\ s.used \in Int
  BY DEF Sound, StoreType
<1>1. /\ t \in StoreType
      /\ \A k \in Keys : t.data[k] = IF k \in ks THEN None ELSE s.data[k]
      /\ t.order = Without(s.order, ks) /\ t.used = s.used - SizeOf(s, ks)
      /\ t.heap = s.heap /\ t.evicted = s.evicted /\ SameOptions(t, s)
  BY <1>0, RemoveFields
<1>2. t.data \in DataType
  BY <1>1 DEF StoreType
<1>3. Costed(t)
  BY <1>1 DEF Sound, Costed, Has
<1>4. Listed(t)
  BY <1>0, <1>1, WithoutKeys DEF Sound, Listed, Has
<1>5. SizeOf(s, Keys) = SizeOf(s, ks) + SizeOf(s, Keys \ ks)
  BY <1>0, SumSplit
<1>6. SizeOf(t, Keys) = SizeOf(t, ks) + SizeOf(t, Keys \ ks)
  BY <1>2, SumSplit
<1>7. SizeOf(t, ks) = 0
  <2>1. \A k \in ks : t.data[k] = None
    BY <1>1
  <2> QED
    BY <1>2, <2>1, SumNone
<1>8. SizeOf(t, Keys \ ks) = SizeOf(s, Keys \ ks)
  <2>1. \A k \in Keys \ ks : t.data[k] = s.data[k]
    BY <1>1
  <2>2. Keys \ ks \subseteq Keys
    OBVIOUS
  <2> QED
    BY <1>0, <1>2, <2>1, <2>2, SumEqual
<1>9. SizeOf(s, ks) \in Nat /\ SizeOf(s, Keys \ ks) \in Nat
  <2>2. Keys \ ks \subseteq Keys
    OBVIOUS
  <2> QED
    BY <1>0, <2>2, SumAny
<1>10. s.used = SizeOf(s, Keys)
  BY DEF Sound, Accounted
<1>11. t.used = SizeOf(t, Keys) /\ t.used <= s.used
  BY <1>1, <1>5, <1>6, <1>7, <1>8, <1>9, <1>10
<1>12. Len(t.order) <= Len(s.order)
  BY <1>0, <1>1, WithoutKeys
<1> QED
  BY <1>1, <1>3, <1>4, <1>11, <1>12 DEF Sound, Accounted, Fewer

Deadline == Int \cup {None}

NewEntry(value, at) == [value |-> value, expireAt |-> at, size |-> Cost(value)]

IsPut(t, s, k, v, at) ==
    /\ t \in StoreType
    /\ \A j \in Keys : t.data[j] = IF j = k THEN NewEntry(v, at) ELSE s.data[j]
    /\ t.order = Append(Without(s.order, {k}), k)
    /\ t.used = s.used - SizeOf(s, {k}) + Cost(v)
    /\ t.heap = s.heap /\ t.evicted = s.evicted /\ SameOptions(t, s)

LEMMA PutFields ==
    ASSUME NEW s \in StoreType, NEW k \in Keys, NEW v \in Value, NEW at \in Deadline,
           NEW t, t = Put(s, k, v, at)
    PROVE  IsPut(t, s, k, v, at)
<1>1. Append(Without(s.order, {k}), k) \in Seq(Keys)
  <2>1. Without(s.order, {k}) \in Seq(Keys)
    BY WithoutKeys DEF StoreType
  <2> QED
    BY <2>1
<1>2. SizeOf(s, {k}) \in Nat /\ Cost(v) \in Nat
  BY SumAny, StoreAssumption DEF StoreType, Value
<1>3. NewEntry(v, at) \in Entry
  BY <1>2 DEF NewEntry, Entry, Deadline
<1>4. t = [s EXCEPT !.data = [s.data EXCEPT ![k] = NewEntry(v, at)],
                    !.used = s.used - SizeOf(s, {k}) + Cost(v),
                    !.order = Append(Without(s.order, {k}), k)]
  BY DEF Put, MoveToEnd, NewEntry, StoreType
<1>5. [s.data EXCEPT ![k] = NewEntry(v, at)] \in DataType
  BY <1>3 DEF DataType, StoreType
<1>6. s.used - SizeOf(s, {k}) + Cost(v) \in Int
  BY <1>2 DEF StoreType
<1>7. \A j \in Keys : [s.data EXCEPT ![k] = NewEntry(v, at)][j] = IF j = k THEN NewEntry(v, at) ELSE s.data[j]
  BY DEF StoreType, DataType
<1> QED
  BY <1>1, <1>4, <1>5, <1>6, <1>7 DEF StoreType, SameOptions, IsPut

LEMMA NoneIsNoEntry == \A e \in Entry : e # None
BY NoneAssumption

LEMMA PutSound ==
    ASSUME NEW s, Sound(s), NEW k \in Keys, NEW v \in Value, NEW at \in Deadline,
           NEW t, t = Put(s, k, v, at)
    PROVE  Sound(t)
<1>0. s \in StoreType /\ s.data \in DataType /\ s.order \in Seq(Keys) /\ s.used \in Int
  BY DEF Sound, StoreType
<1>1. /\ t \in StoreType
      /\ \A j \in Keys : t.data[j] = IF j = k THEN NewEntry(v, at) ELSE s.data[j]
      /\ t.order = Append(Without(s.order, {k}), k)
      /\ t.used = s.used - SizeOf(s, {k}) + Cost(v)
      /\ t.heap = s.heap /\ t.evicted = s.evicted /\ SameOptions(t, s)
  <2>1. IsPut(t, s, k, v, at)
    BY <1>0, PutFields
  <2> QED
    BY <2>1 DEF IsPut
<1>2. t.data \in DataType /\ t.data[k] = NewEntry(v, at)
  BY <1>1 DEF StoreType
<1>3. NewEntry(v, at) # None /\ NewEntry(v, at).size = Cost(v) /\ NewEntry(v, at).value = v
  <2>1. Cost(v) \in Nat
    BY StoreAssumption DEF Value
  <2> QED
    BY <2>1, NoneIsNoEntry DEF NewEntry, Entry, Deadline
<1>4. Costed(t)
  BY <1>1, <1>3 DEF Sound, Costed, Has
<1>5. Listed(t)
  <2> DEFINE w == Without(s.order, {k})
  <2>1. w \in Seq(Keys) /\ Distinct(w) /\ \A j : In(w, j) <=> In(s.order, j) /\ j # k
    BY <1>0, WithoutKeys DEF Sound, Listed
  <2> HIDE DEF w
  <2>2. t.order = Append(w, k)
    BY <1>1 DEF w
  <2>3. Distinct(t.order) /\ \A j : In(t.order, j) <=> In(w, j) \/ j = k
    BY <2>1, <2>2, InAppend
  <2> QED
    BY <1>1, <1>3, <2>1, <2>3 DEF Sound, Listed, Has
<1>6. SizeOf(s, Keys) = Size(s.data, k) + SizeOf(s, Keys \ {k})
  BY <1>0, SumAny
<1>7. SizeOf(t, Keys) = Size(t.data, k) + SizeOf(t, Keys \ {k})
  BY <1>2, SumAny
<1>8. SizeOf(t, Keys \ {k}) = SizeOf(s, Keys \ {k}) /\ SizeOf(s, Keys \ {k}) \in Nat
  <2>1. \A j \in Keys \ {k} : t.data[j] = s.data[j]
    BY <1>1
  <2>2. Keys \ {k} \subseteq Keys
    OBVIOUS
  <2> QED
    BY <1>0, <1>2, <2>1, <2>2, SumEqual, SumAny
<1>9. Size(t.data, k) = Cost(v) /\ SizeOf(s, {k}) = Size(s.data, k) /\ Size(s.data, k) \in Nat /\ Cost(v) \in Nat
  BY <1>0, <1>2, <1>3, SumOne, SizeType, StoreAssumption DEF Size, Value
<1>10. s.used = SizeOf(s, Keys)
  BY DEF Sound, Accounted
<1>11. t.used = SizeOf(t, Keys)
  BY <1>1, <1>6, <1>7, <1>8, <1>9, <1>10
<1> QED
  BY <1>1, <1>4, <1>5, <1>11 DEF Sound, Accounted

\* Only expired keys go, and what is still to expire is still in the heap.
LEMMA SweepSound ==
    ASSUME NEW s, Sound(s), NEW now \in Int, NEW t, t = Sweep(s, now)
    PROVE  /\ Sound(t) /\ Fewer(t, s) /\ t.evicted = s.evicted
           /\ \A k \in Keys : Live(s, k, now) => t.data[k] = s.data[k]
           /\ \A q \in Keys : s.order # <<>> /\ s.order[Len(s.order)] = q /\ Live(s, q, now) =>
                 t.order # <<>> /\ t.order[Len(t.order)] = q
           /\ Covered(s, Keys) => Covered(t, Keys)
<1> DEFINE due == {h \in s.heap : h[1] <= now}
           gone == {k \in Keys : Has(s, k) /\ <<s.data[k].expireAt, k>> \in due}
           r == RemoveKeys(s, gone)
<1>0. s \in StoreType /\ s.order \in Seq(Keys) /\ gone \subseteq Keys /\ s.heap \in SUBSET (Int \X Keys)
  BY DEF Sound, StoreType
<1>1. t = [r EXCEPT !.heap = r.heap \ due]
  BY DEF Sweep
<1>2. ASSUME NEW k \in gone
      PROVE  ~Live(s, k, now)
  <2>1. Has(s, k) /\ <<s.data[k].expireAt, k>> \in s.heap /\ s.data[k].expireAt <= now
    OBVIOUS
  <2>2. s.data[k].expireAt \in Int
    BY <1>0, <2>1
  <2> QED
    BY <2>1, <2>2, NoneAssumption DEF Live, IsExpired
<1>3. ASSUME NEW k \in Keys \ gone, Has(s, k), <<s.data[k].expireAt, k>> \in s.heap
      PROVE  <<s.data[k].expireAt, k>> \in s.heap \ due
  BY <1>3
<1> HIDE DEF due, gone
<1>4. Sound(r) /\ Fewer(r, s)
  BY <1>0, RemoveSound
<1>5. /\ r \in StoreType
      /\ \A k \in Keys : r.data[k] = IF k \in gone THEN None ELSE s.data[k]
      /\ r.order = Without(s.order, gone) /\ r.used = s.used - SizeOf(s, gone)
      /\ r.heap = s.heap /\ r.evicted = s.evicted /\ SameOptions(r, s)
  BY <1>0, RemoveFields
<1> HIDE DEF r
<1>6. /\ t \in StoreType /\ t.data = r.data /\ t.order = r.order /\ t.used = r.used
      /\ t.heap = s.heap \ due /\ t.evicted = s.evicted /\ SameOptions(t, s)
  BY <1>1, <1>5, SMTT(30) DEF StoreType, SameOptions
<1>7. Sound(t)
  <2>1. Costed(t) /\ Listed(t)
    BY <1>4, <1>6 DEF Sound, Costed, Listed, Has
  <2>2. SizeOf(t, Keys) = SizeOf(r, Keys)
    BY <1>5, <1>6, SumEqual DEF StoreType
  <2> QED
    BY <1>4, <1>6, <2>1, <2>2 DEF Sound, Accounted
<1>8. Fewer(t, s)
  BY <1>4, <1>6 DEF Fewer
<1>9. \A k \in Keys : Live(s, k, now) => t.data[k] = s.data[k]
  BY <1>2, <1>5, <1>6
<1>10. \A q \in Keys : s.order # <<>> /\ s.order[Len(s.order)] = q /\ Live(s, q, now) =>
          t.order # <<>> /\ t.order[Len(t.order)] = q
  <2> SUFFICES ASSUME NEW q \in Keys, s.order # <<>>, s.order[Len(s.order)] = q, Live(s, q, now)
               PROVE  t.order # <<>> /\ t.order[Len(t.order)] = q
    OBVIOUS
  <2>1. q \notin gone
    BY <1>2
  <2> QED
    BY <1>0, <1>5, <1>6, <2>1, WithoutLast
<1>11. ASSUME Covered(s, Keys)
       PROVE  Covered(t, Keys)
  <2> SUFFICES ASSUME NEW k \in Keys, Has(t, k), t.data[k].expireAt # None
               PROVE  <<t.data[k].expireAt, k>> \in t.heap
    BY DEF Covered
  <2>1. k \notin gone /\ t.data[k] = s.data[k] /\ Has(s, k)
    BY <1>5, <1>6 DEF Has
  <2>2. <<s.data[k].expireAt, k>> \in s.heap
    BY <1>11, <2>1 DEF Covered
  <2> QED
    BY <1>3, <1>6, <2>1, <2>2
<1> QED
  BY <1>6, <1>7, <1>8, <1>9, <1>10, <1>11

LEMMA EvictFirstSound ==
    ASSUME NEW s, Sound(s), NEW n \in 0..Len(s.order), NEW t, t = EvictFirst(s, n)
    PROVE  /\ Sound(t) /\ Fewer(t, s) /\ t.heap = s.heap
           /\ Len(t.order) = Len(s.order) - n
           /\ n < Len(s.order) => t.data[s.order[Len(s.order)]] = s.data[s.order[Len(s.order)]]
<1> DEFINE lru == SubSeq(s.order, 1, n)
           ks == {s.order[i] : i \in 1..n}
           r == RemoveKeys(s, ks)
<1>0. s \in StoreType /\ s.order \in Seq(Keys) /\ Len(s.order) \in Nat /\ Distinct(s.order)
  BY DEF Sound, StoreType, Listed
<1>1. ks \subseteq Keys
  BY <1>0
<1>2. lru \in Seq(Keys) /\ \A i \in 1..n : lru[i] = s.order[i]
  BY <1>0
<1>3. {lru[i] : i \in 1..n} = ks
  BY <1>2
<1>4. t = [r EXCEPT !.evicted = r.evicted \o lru]
  BY <1>3 DEF EvictFirst
<1>5. n < Len(s.order) => s.order[Len(s.order)] \notin ks /\ s.order[Len(s.order)] \in Keys
  BY <1>0 DEF Distinct
<1>6. Len(Without(s.order, ks)) = Len(s.order) - n
  BY <1>0, WithoutFirst
<1> HIDE DEF lru, ks
<1>7. Sound(r) /\ Fewer(r, s)
  BY <1>1, RemoveSound
<1>8. /\ r \in StoreType
      /\ \A k \in Keys : r.data[k] = IF k \in ks THEN None ELSE s.data[k]
      /\ r.order = Without(s.order, ks) /\ r.used = s.used - SizeOf(s, ks)
      /\ r.heap = s.heap /\ r.evicted = s.evicted /\ SameOptions(r, s)
  BY <1>0, <1>1, RemoveFields
<1> HIDE DEF r
<1>9. r.evicted \o lru \in Seq(Keys)
  BY <1>2, <1>8 DEF StoreType
<1>10. /\ t \in StoreType /\ t.data = r.data /\ t.order = r.order /\ t.used = r.used
       /\ t.heap = s.heap /\ SameOptions(t, s)
  BY <1>4, <1>8, <1>9 DEF StoreType, SameOptions
<1>11. Sound(t)
  <2>1. Costed(t) /\ Listed(t)
    BY <1>7, <1>10 DEF Sound, Costed, Listed, Has
  <2>2. SizeOf(t, Keys) = SizeOf(r, Keys)
    BY <1>8, <1>10, SumEqual, SMTT(30) DEF StoreType
  <2> QED
    BY <1>7, <1>10, <2>1, <2>2 DEF Sound, Accounted
<1>12. Fewer(t, s)
  BY <1>7, <1>10 DEF Fewer
<1> QED
  BY <1>5, <1>6, <1>8, <1>10, <1>11, <1>12

LEMMA Minimum ==
    ASSUME NEW S, S \subseteq Nat, S # {}
    PROVE  Min(S) \in S /\ \A y \in S : Min(S) <= y
<1>1. IsWellFoundedOn(OpToRel(<, Nat), Nat)
  BY NatLessThanWellFounded
<1>2. PICK x \in S : \A y \in S : ~(<<y, x>> \in OpToRel(<, Nat))
  BY <1>1, WFMin
<1>3. \A y \in Nat, m \in Nat : y < m => <<y, m>> \in OpToRel(<, Nat)
  BY DEF OpToRel
<1>4. \A y \in S : x <= y
  <2> TAKE y \in S
  <2>1. y \in Nat /\ x \in Nat
    OBVIOUS
  <2>2. ~(y < x)
    BY <1>2, <1>3, <2>1
  <2> QED
    BY <2>1, <2>2
<1> QED
  BY <1>4 DEF Min

\* _evict: the cap holds again or one key is left, and a live key that was
\* used last stays.
LEMMA EvictSound ==
    ASSUME NEW s, Sound(s), NEW now \in Int, NEW t, t = Evict(s, now)
    PROVE  /\ Sound(t) /\ Fewer(t, s) /\ Bounded(t)
           /\ \A q \in Keys : s.order # <<>> /\ s.order[Len(s.order)] = q /\ Live(s, q, now) =>
                 t.data[q] = s.data[q]
           /\ Covered(s, Keys) => Covered(t, Keys)
           /\ s.cap = 0 \/ s.policy = "noeviction" => t.evicted = s.evicted
<1>0. s \in StoreType /\ s.order \in Seq(Keys) /\ s.cap \in Nat /\ s.used \in Int /\ Len(s.order) \in Nat
  BY DEF Sound, StoreType
<1>1. CASE s.policy # "allkeys-lru" \/ ~OverLimit(s)
  <2>1. t = s
    BY <1>1 DEF Evict
  <2>2. Fewer(s, s)
    BY <1>0 DEF Fewer, SameOptions
  <2> QED
    BY <1>1, <2>1, <2>2 DEF Bounded
<1>2. CASE s.policy = "allkeys-lru" /\ OverLimit(s)
  <2> DEFINE u == Sweep(s, now)
             enough == {n \in 0..Len(u.order) : \/ ~OverLimit(EvictFirst(u, n))
                                               \/ Len(u.order) - n <= 1}
             m == Min(enough)
  <2>1. t = EvictFirst(u, m)
    BY <1>2 DEF Evict
  <2>2. /\ Sound(u) /\ Fewer(u, s) /\ u.evicted = s.evicted
        /\ \A k \in Keys : Live(s, k, now) => u.data[k] = s.data[k]
        /\ \A q \in Keys : s.order # <<>> /\ s.order[Len(s.order)] = q /\ Live(s, q, now) =>
              u.order # <<>> /\ u.order[Len(u.order)] = q
        /\ Covered(s, Keys) => Covered(u, Keys)
    BY SweepSound
  <2> HIDE DEF u
  <2>3. u.order \in Seq(Keys) /\ Len(u.order) \in Nat /\ (u.order # <<>> => Len(u.order) > 0)
    BY <2>2 DEF Sound, StoreType
  <2>4. enough \subseteq Nat /\ Len(u.order) \in enough
    BY <2>3
  <2>5. m \in enough /\ \A y \in enough : m <= y
    BY <2>4, Minimum
  <2>6. u.order # <<>> => m < Len(u.order)
    <3>1. u.order # <<>> => Len(u.order) - 1 \in enough
      BY <2>3
    <3>2. m \in Nat
      BY <2>4, <2>5
    <3> HIDE DEF m, enough
    <3> QED
      BY <2>3, <2>5, <3>1, <3>2
  <2>7. m \in 0..Len(u.order) /\ (~OverLimit(EvictFirst(u, m)) \/ Len(u.order) - m <= 1)
    BY <2>5
  <2> HIDE DEF m, enough
  <2>8. /\ Sound(t) /\ Fewer(t, u) /\ t.heap = u.heap
        /\ Len(t.order) = Len(u.order) - m
        /\ m < Len(u.order) => t.data[u.order[Len(u.order)]] = u.data[u.order[Len(u.order)]]
    BY <2>1, <2>2, <2>7, EvictFirstSound
  <2>9. Bounded(t)
    BY <2>1, <2>7, <2>8 DEF Bounded
  <2>10. Fewer(t, s)
    <3>1. t \in StoreType /\ u \in StoreType
      BY <2>2, <2>8 DEF Sound
    <3>2. t.used \in Int /\ u.used \in Int /\ Len(t.order) \in Nat
      BY <3>1 DEF StoreType
    <3> QED
      BY <1>0, <2>2, <2>3, <2>8, <3>2, SMTT(30) DEF Fewer, SameOptions
  <2>11. ASSUME NEW q \in Keys, s.order # <<>>, s.order[Len(s.order)] = q, Live(s, q, now)
         PROVE  t.data[q] = s.data[q]
    BY <2>2, <2>6, <2>8, <2>11
  <2>12. ASSUME Covered(s, Keys)
         PROVE  Covered(t, Keys)
    BY <2>2, <2>8, <2>12 DEF Covered, Fewer, Has
  <2>13. ~(s.cap = 0 \/ s.policy = "noeviction")
    BY <1>2 DEF OverLimit
  <2> QED
    BY <2>8, <2>9, <2>10, <2>11, <2>12, <2>13
<1> QED
  BY <1>1, <1>2 DEF Sound, StoreType

\* _schedule: a deadline just given to k is covered, and the others still are.
LEMMA ScheduleSound ==
    ASSUME NEW s, Sound(s), NEW k \in Keys, NEW at \in Int, Has(s, k), s.data[k].expireAt = at,
           Covered(s, Keys \ {k}), NEW t, t = Schedule(s, k, at)
    PROVE  /\ Sound(t) /\ Covered(t, Keys)
           /\ t.data = s.data /\ t.order = s.order /\ t.used = s.used /\ t.evicted = s.evicted
           /\ SameOptions(t, s)
<1> DEFINE pushed == s.heap \cup {<<at, k>>}
           h == IF Cardinality(pushed) > HeapFactor * Len(s.order) + HeapSlack
                THEN Deadlines(s) ELSE pushed
<1>0. s \in StoreType /\ s.heap \in SUBSET (Int \X Keys) /\ s.data \in DataType
  BY DEF Sound, StoreType
<1>1. t = [s EXCEPT !.heap = h]
  BY DEF Schedule
<1>2. Deadlines(s) \in SUBSET (Int \X Keys)
  <2> SUFFICES ASSUME NEW j \in Keys, Has(s, j), s.data[j].expireAt # None
               PROVE  s.data[j].expireAt \in Int
    BY DEF Deadlines
  <2> QED
    BY <1>0 DEF DataType, Has, Entry
<1>3. pushed \in SUBSET (Int \X Keys)
  BY <1>0
<1>4. h \in SUBSET (Int \X Keys)
  BY <1>2, <1>3
<1>5. ASSUME NEW j \in Keys, Has(s, j), s.data[j].expireAt # None
      PROVE  <<s.data[j].expireAt, j>> \in h
  <2>1. <<s.data[j].expireAt, j>> \in Deadlines(s)
    BY <1>5 DEF Deadlines
  <2>2. <<s.data[j].expireAt, j>> \in pushed
    BY <1>5 DEF Covered
  <2> QED
    BY <2>1, <2>2
<1> HIDE DEF h
<1>6. /\ t \in StoreType /\ t.heap = h
      /\ t.data = s.data /\ t.order = s.order /\ t.used = s.used /\ t.evicted = s.evicted
      /\ SameOptions(t, s)
  BY <1>0, <1>1, <1>4 DEF StoreType, SameOptions
<1>7. Covered(t, Keys)
  BY <1>5, <1>6 DEF Covered, Has
<1>8. Sound(t)
  <2>1. Costed(t) /\ Listed(t)
    BY <1>6 DEF Sound, Costed, Listed, Has
  <2>2. SizeOf(t, Keys) = SizeOf(s, Keys)
    BY <1>0, <1>6, SumEqual DEF StoreType
  <2> QED
    BY <1>6, <2>1, <2>2 DEF Sound, Accounted
<1> QED
  BY <1>6, <1>7, <1>8

-----------------------------------------------------------------------------
(***************************************************************************)
(* The public methods.                                                     *)
(***************************************************************************)
Good(s) == Sound(s) /\ Covered(s, Keys) /\ Bounded(s)

\* t shows what s showed: every live key of s is unchanged.
Shows(t, s, now) == \A k \in Keys : Live(s, k, now) => t.data[k] = s.data[k]

\* No eviction without a cap.
Quiet(t, s) == s.cap = 0 => t.evicted = s.evicted

LEMMA PurgeGood ==
    ASSUME NEW s, Good(s), NEW k \in Keys, NEW now \in Int, NEW t, t = Purge(s, k, now)
    PROVE  /\ Good(t) /\ Fewer(t, s) /\ Shows(t, s, now) /\ t.evicted = s.evicted
           /\ Has(t, k) => Live(t, k, now)
<1>0. s \in StoreType
  BY DEF Good, Sound
<1>1. CASE Has(s, k) /\ IsExpired(s.data[k], now)
  <2>1. t = RemoveKeys(s, {k}) /\ {k} \subseteq Keys
    BY <1>1 DEF Purge
  <2>2. Sound(t) /\ Fewer(t, s)
    BY <2>1, RemoveSound DEF Good
  <2>3. /\ t \in StoreType
        /\ \A j \in Keys : t.data[j] = IF j \in {k} THEN None ELSE s.data[j]
        /\ t.order = Without(s.order, {k}) /\ t.used = s.used - SizeOf(s, {k})
        /\ t.heap = s.heap /\ t.evicted = s.evicted /\ SameOptions(t, s)
    BY <1>0, <2>1, RemoveFields
  <2>4. Bounded(t)
    BY <1>0, <2>2, <2>3, FewerBounded DEF Good
  <2>5. Covered(t, Keys)
    BY <2>3 DEF Good, Covered, Has
  <2>6. Shows(t, s, now) /\ ~Has(t, k)
    BY <1>1, <2>3 DEF Shows, Live, Has
  <2> QED
    BY <2>2, <2>3, <2>4, <2>5, <2>6 DEF Good
<1>2. CASE ~(Has(s, k) /\ IsExpired(s.data[k], now))
  <2>1. t = s
    BY <1>2 DEF Purge
  <2>2. Fewer(s, s)
    BY <1>0 DEF Fewer, SameOptions, StoreType
  <2> QED
    BY <1>2, <2>1, <2>2 DEF Shows, Live
<1> QED
  BY <1>1, <1>2

LEMMA DeleteGood ==
    ASSUME NEW s, Good(s), NEW k \in Keys, NEW t, t = Delete(s, k)
    PROVE  Good(t) /\ SameOptions(t, s) /\ t.evicted = s.evicted
<1>0. s \in StoreType
  BY DEF Good, Sound
<1>1. t = RemoveKeys(s, {k}) /\ {k} \subseteq Keys
  BY DEF Delete
<1>2. Sound(t) /\ Fewer(t, s)
  BY <1>1, RemoveSound DEF Good
<1>3. /\ t \in StoreType
      /\ \A j \in Keys : t.data[j] = IF j \in {k} THEN None ELSE s.data[j]
      /\ t.order = Without(s.order, {k}) /\ t.used = s.used - SizeOf(s, {k})
      /\ t.heap = s.heap /\ t.evicted = s.evicted /\ SameOptions(t, s)
  BY <1>0, <1>1, RemoveFields
<1>4. Bounded(t)
  BY <1>0, <1>2, <1>3, FewerBounded DEF Good
<1>5. Covered(t, Keys)
  BY <1>3 DEF Good, Covered, Has
<1> QED
  BY <1>2, <1>3, <1>4, <1>5 DEF Good

LEMMA SweepGood ==
    ASSUME NEW s, Good(s), NEW now \in Int, NEW t, t = Sweep(s, now)
    PROVE  Good(t) /\ SameOptions(t, s) /\ Shows(t, s, now) /\ t.evicted = s.evicted
<1>1. /\ Sound(t) /\ Fewer(t, s) /\ t.evicted = s.evicted
      /\ \A k \in Keys : Live(s, k, now) => t.data[k] = s.data[k]
      /\ \A q \in Keys : s.order # <<>> /\ s.order[Len(s.order)] = q /\ Live(s, q, now) =>
            t.order # <<>> /\ t.order[Len(t.order)] = q
      /\ Covered(s, Keys) => Covered(t, Keys)
  BY SweepSound DEF Good
<1>2. Bounded(t)
  BY <1>1, FewerBounded DEF Good, Sound
<1> QED
  BY <1>1, <1>2 DEF Good, Shows, Fewer

\* Touching a key that is there.
LEMMA MoveGood ==
    ASSUME NEW s, Good(s), NEW k \in Keys, Has(s, k), NEW t, t = MoveToEnd(s, k)
    PROVE  Good(t) /\ SameOptions(t, s) /\ t.data = s.data /\ t.evicted = s.evicted
<1> DEFINE w == Without(s.order, {k})
<1>0. s \in StoreType /\ s.order \in Seq(Keys) /\ s.data \in DataType
  BY DEF Good, Sound, StoreType
<1>1. w \in Seq(Keys) /\ Distinct(w) /\ \A j : In(w, j) <=> In(s.order, j) /\ j # k
  BY <1>0, WithoutKeys DEF Good, Sound, Listed
<1>2. t = [s EXCEPT !.order = Append(w, k)]
  BY DEF MoveToEnd
<1> HIDE DEF w
<1>3. Append(w, k) \in Seq(Keys) /\ Distinct(Append(w, k)) /\ \A j : In(Append(w, k), j) <=> In(w, j) \/ j = k
  BY <1>1, InAppend
<1>4. /\ t \in StoreType /\ t.data = s.data /\ t.order = Append(w, k) /\ t.used = s.used
      /\ t.heap = s.heap /\ t.evicted = s.evicted /\ SameOptions(t, s)
  BY <1>0, <1>2, <1>3 DEF StoreType, SameOptions
<1>5. Listed(t)
  BY <1>1, <1>3, <1>4 DEF Good, Sound, Listed, Has
<1>6. SizeOf(t, Keys) = SizeOf(s, Keys)
  BY <1>0, <1>4, SumEqual
<1>7. Sound(t)
  BY <1>4, <1>5, <1>6 DEF Good, Sound, Costed, Has, Accounted
<1>8. Covered(t, Keys)
  BY <1>4 DEF Good, Covered, Has
<1>9. Len(t.order) <= Len(s.order)
  <2>1. In(s.order, k)
    BY DEF Good, Sound, Listed
  <2>2. Len(w) < Len(s.order)
    BY <1>0, <2>1, WithoutShorter DEF w
  <2> QED
    BY <1>0, <1>1, <1>4, <2>2
<1>10. Bounded(t)
  BY <1>4, <1>9, <1>0 DEF Good, Bounded, OverLimit, SameOptions, StoreType
<1> QED
  BY <1>4, <1>7, <1>8, <1>10 DEF Good

\* The key that is put is the last used one and, with a deadline ahead, live.
LEMMA PutGood ==
    ASSUME NEW s, Good(s), NEW k \in Keys, NEW v \in Value, NEW at \in Deadline,
           NEW now \in Int, at = None \/ ~(at <= now), NEW t, t = Put(s, k, v, at)
    PROVE  /\ Sound(t) /\ SameOptions(t, s) /\ t.evicted = s.evicted
           /\ t.order # <<>> /\ t.order[Len(t.order)] = k
           /\ Has(t, k) /\ t.data[k].expireAt = at /\ Live(t, k, now)
           /\ Covered(t, Keys \ {k})
           /\ at = None \/ <<at, k>> \in s.heap => Covered(t, Keys)
<1>0. s \in StoreType /\ s.order \in Seq(Keys) /\ Sound(s)
  BY DEF Good, Sound, StoreType
<1>1. Sound(t)
  BY <1>0, PutSound
<1>2. IsPut(t, s, k, v, at)
  BY <1>0, PutFields
<1>3. /\ t \in StoreType
      /\ \A j \in Keys : t.data[j] = IF j = k THEN NewEntry(v, at) ELSE s.data[j]
      /\ t.order = Append(Without(s.order, {k}), k)
      /\ t.heap = s.heap /\ t.evicted = s.evicted /\ SameOptions(t, s)
  BY <1>2 DEF IsPut
<1>4. NewEntry(v, at) # None /\ NewEntry(v, at).expireAt = at
  <2>1. Cost(v) \in Nat
    BY StoreAssumption DEF Value
  <2> QED
    BY <2>1, NoneIsNoEntry DEF NewEntry, Entry, Deadline
<1>5. t.order # <<>> /\ t.order[Len(t.order)] = k
  <2>1. Without(s.order, {k}) \in Seq(Keys)
    BY <1>0, WithoutKeys
  <2> QED
    BY <1>3, <2>1
<1>6. Has(t, k) /\ t.data[k].expireAt = at /\ Live(t, k, now)
  BY <1>3, <1>4 DEF Has, Live, IsExpired
<1>7. Covered(t, Keys \ {k})
  BY <1>3 DEF Good, Covered, Has
<1>8. ASSUME at = None \/ <<at, k>> \in s.heap
      PROVE  Covered(t, Keys)
  BY <1>3, <1>6, <1>7, <1>8 DEF Covered
<1> QED
  BY <1>1, <1>3, <1>5, <1>6, <1>7, <1>8

\* The end of set() and incr().
LEMMA EvictGood ==
    ASSUME NEW s, Sound(s), Covered(s, Keys), NEW k \in Keys, NEW now \in Int,
           s.order # <<>>, s.order[Len(s.order)] = k, Live(s, k, now), NEW t, t = Evict(s, now)
    PROVE  Good(t) /\ SameOptions(t, s) /\ Quiet(t, s) /\ Live(t, k, now)
<1>1. /\ Sound(t) /\ Fewer(t, s) /\ Bounded(t)
      /\ \A q \in Keys : s.order # <<>> /\ s.order[Len(s.order)] = q /\ Live(s, q, now) =>
            t.data[q] = s.data[q]
      /\ Covered(s, Keys) => Covered(t, Keys)
      /\ s.cap = 0 \/ s.policy = "noeviction" => t.evicted = s.evicted
  BY EvictSound, ZenonT(30)
<1>2. Live(t, k, now)
  BY <1>1 DEF Live, Has
<1> QED
  BY <1>1, <1>2 DEF Good, Fewer, Quiet

Lifetime == (Nat \ {0}) \cup {None}

LEMMA SetGood ==
    ASSUME NEW s, Good(s), NEW k \in Keys, NEW v \in Value, NEW ttl \in Lifetime,
           NEW now \in Int, NEW t, t = Set(s, k, v, ttl, now)
    PROVE  Good(t) /\ SameOptions(t, s) /\ Quiet(t, s) /\ Live(t, k, now)
<1>1. CASE ttl = None
  <2> DEFINE p == Put(s, k, v, None)
  <2>0. None \in Deadline /\ t = Evict(p, now)
    BY <1>1 DEF Deadline, Set
  <2>1. /\ Sound(p) /\ SameOptions(p, s) /\ p.evicted = s.evicted
        /\ p.order # <<>> /\ p.order[Len(p.order)] = k
        /\ Has(p, k) /\ p.data[k].expireAt = None /\ Live(p, k, now)
        /\ Covered(p, Keys \ {k})
        /\ None = None \/ <<None, k>> \in s.heap => Covered(p, Keys)
    BY <2>0, PutGood
  <2> HIDE DEF p
  <2>2. Good(t) /\ SameOptions(t, p) /\ Quiet(t, p) /\ Live(t, k, now)
    BY <2>0, <2>1, EvictGood
  <2> QED
    BY <2>1, <2>2 DEF SameOptions, Quiet
<1>2. CASE ttl \in Nat \ {0}
  <2> DEFINE at == now + ttl
             p == Put(s, k, v, at)
             u == Schedule(p, k, at)
  <2>0. at \in Int /\ at \in Deadline /\ ~(at <= now) /\ ttl # None
    BY <1>2, NoneAssumption DEF Deadline
  <2>1. t = Evict(u, now)
    BY <2>0 DEF Set
  <2> HIDE DEF at
  <2>2. /\ Sound(p) /\ SameOptions(p, s) /\ p.evicted = s.evicted
        /\ p.order # <<>> /\ p.order[Len(p.order)] = k
        /\ Has(p, k) /\ p.data[k].expireAt = at /\ Live(p, k, now)
        /\ Covered(p, Keys \ {k})
        /\ at = None \/ <<at, k>> \in s.heap => Covered(p, Keys)
    BY <2>0, PutGood
  <2> HIDE DEF p
  <2>3. /\ Sound(u) /\ Covered(u, Keys)
        /\ u.data = p.data /\ u.order = p.order /\ u.used = p.used /\ u.evicted = p.evicted
        /\ SameOptions(u, p)
    BY <2>0, <2>2, ScheduleSound
  <2> HIDE DEF u
  <2>4. Live(u, k, now)
    BY <2>2, <2>3 DEF Live, Has
  <2>5. Good(t) /\ SameOptions(t, u) /\ Quiet(t, u) /\ Live(t, k, now)
    BY <2>1, <2>2, <2>3, <2>4, EvictGood
  <2> QED
    BY <2>2, <2>3, <2>5 DEF SameOptions, Quiet
<1> QED
  BY <1>1, <1>2 DEF Lifetime

LEMMA IncrGood ==
    ASSUME NEW s, Good(s), NEW k \in Keys, NEW delta \in Int, NEW now \in Int,
           NEW r, r = Incr(s, k, delta, now)
    PROVE  /\ Good(r.store) /\ SameOptions(r.store, s) /\ Quiet(r.store, s) /\ r.ok \in BOOLEAN
           /\ r.ok => Live(r.store, k, now)
           /\ ~r.ok => r.store.evicted = s.evicted /\ Shows(r.store, s, now)
<1> DEFINE t == Purge(s, k, now)
           current == IF Has(t, k) THEN t.data[k].value ELSE 0
           expireAt == IF Has(t, k) THEN t.data[k].expireAt ELSE None
           counts == current # Text /\ current + delta \in IntMin..IntMax
           p == Put(t, k, current + delta, expireAt)
<1>1. r = IF counts THEN [store |-> Evict(p, now), ok |-> TRUE] ELSE [store |-> t, ok |-> FALSE]
  BY DEF Incr
<1>2. /\ Good(t) /\ Fewer(t, s) /\ Shows(t, s, now) /\ t.evicted = s.evicted
      /\ Has(t, k) => Live(t, k, now)
  BY PurgeGood
<1> HIDE DEF t
<1>3. t \in StoreType /\ t.data \in DataType
  BY <1>2 DEF Good, Sound, StoreType
<1>4. CASE ~counts
  <2>1. r.store = t /\ r.ok = FALSE
    BY <1>1, <1>4
  <2> QED
    BY <1>2, <2>1 DEF Fewer, Quiet
<1>5. CASE counts
  <2>1. r.store = Evict(p, now) /\ r.ok = TRUE
    BY <1>1, <1>5
  <2>2. current + delta \in Value
    BY <1>5 DEF Value
  <2>3. expireAt \in Deadline
    BY <1>3 DEF DataType, Deadline, Has, Entry
  <2>4. expireAt = None \/ ~(expireAt <= now)
    BY <1>2 DEF Live, IsExpired
  <2>5. expireAt = None \/ <<expireAt, k>> \in t.heap
    BY <1>2 DEF Good, Covered
  <2> DEFINE v == current + delta
             w == Put(t, k, v, expireAt)
  <2>6. v \in Value /\ p = w
    BY <2>2
  <2> HIDE DEF current, expireAt, v, p
  <2>7. /\ Sound(w) /\ SameOptions(w, t) /\ w.evicted = t.evicted
        /\ w.order # <<>> /\ w.order[Len(w.order)] = k
        /\ Has(w, k) /\ w.data[k].expireAt = expireAt /\ Live(w, k, now)
        /\ Covered(w, Keys \ {k})
        /\ expireAt = None \/ <<expireAt, k>> \in t.heap => Covered(w, Keys)
    BY <1>2, <2>3, <2>4, <2>6, PutGood
  <2> HIDE DEF w
  <2> DEFINE e == Evict(w, now)
  <2>8. Good(e) /\ SameOptions(e, w) /\ Quiet(e, w) /\ Live(e, k, now)
    BY <2>5, <2>7, EvictGood
  <2> HIDE DEF e
  <2>9. r.store = e
    BY <2>1, <2>6 DEF e
  <2> QED
    BY <1>2, <2>1, <2>7, <2>8, <2>9 DEF SameOptions, Quiet, Fewer
<1> QED
  BY <1>4, <1>5

\* An entry gets another deadline, or none.
LEMMA RedateSound ==
    ASSUME NEW u, Good(u), NEW k \in Keys, Has(u, k), NEW at \in Deadline,
           NEW p, p = [u EXCEPT !.data[k].expireAt = at]
    PROVE  /\ Sound(p) /\ SameOptions(p, u) /\ p.evicted = u.evicted
           /\ p.order = u.order /\ p.used = u.used
           /\ Has(p, k) /\ p.data[k].expireAt = at /\ Covered(p, Keys \ {k})
           /\ at = None => Covered(p, Keys)
<1>0. u \in StoreType /\ u.data \in DataType /\ u.data[k] \in Entry
  BY DEF Good, Sound, StoreType, DataType, Has
<1> DEFINE e == [u.data[k] EXCEPT !.expireAt = at]
           d == [u.data EXCEPT ![k] = e]
<1>1. e \in Entry /\ e.expireAt = at /\ e.size = u.data[k].size /\ e.value = u.data[k].value
  BY <1>0 DEF Entry, Deadline
<1>2. p = [u EXCEPT !.data = d]
  BY <1>0 DEF StoreType
<1> HIDE DEF e
<1>3. d \in DataType /\ \A j \in Keys : d[j] = IF j = k THEN e ELSE u.data[j]
  BY <1>0, <1>1 DEF DataType
<1> HIDE DEF d
<1>4. /\ p \in StoreType /\ p.data = d /\ p.order = u.order /\ p.used = u.used /\ p.heap = u.heap
      /\ p.evicted = u.evicted /\ SameOptions(p, u)
  BY <1>0, <1>2, <1>3 DEF StoreType, SameOptions
<1>5. e # None
  BY <1>1, NoneIsNoEntry
<1>6. Costed(p)
  BY <1>1, <1>3, <1>4 DEF Good, Sound, Costed, Has
<1>7. Listed(p)
  BY <1>3, <1>4, <1>5 DEF Good, Sound, Listed, Has
<1>8. SizeOf(p, Keys) = SizeOf(u, Keys)
  <2>0. p.data \in DataType /\ Keys \subseteq Keys /\ k \in Keys
    BY <1>3, <1>4
  <2>1. SizeOf(p, Keys) = Size(p.data, k) + SizeOf(p, Keys \ {k})
    BY ONLY <2>0, SumAny
  <2>2. SizeOf(u, Keys) = Size(u.data, k) + SizeOf(u, Keys \ {k})
    BY <1>0, SumAny
  <2>3. Size(p.data, k) = Size(u.data, k)
    BY <1>1, <1>3, <1>4, <1>5 DEF Size, Has
  <2>4. SizeOf(p, Keys \ {k}) = SizeOf(u, Keys \ {k})
    <3>1. Keys \ {k} \subseteq Keys /\ \A j \in Keys \ {k} : p.data[j] = u.data[j]
      BY <1>3, <1>4
    <3> QED
      BY <1>0, <2>0, <3>1, SumEqual
  <2> QED
    BY <2>1, <2>2, <2>3, <2>4
<1>9. Sound(p)
  BY <1>4, <1>6, <1>7, <1>8 DEF Good, Sound, Accounted
<1>10. Has(p, k) /\ p.data[k].expireAt = at /\ Covered(p, Keys \ {k})
  BY <1>1, <1>3, <1>4, <1>5 DEF Good, Covered, Has
<1>11. at = None => Covered(p, Keys)
  BY <1>10 DEF Covered
<1> QED
  BY <1>4, <1>9, <1>10, <1>11

LEMMA ExpireGood ==
    ASSUME NEW s, Good(s), NEW k \in Keys, NEW at \in Int, NEW now \in Int,
           NEW t, t = Expire(s, k, at, now)
    PROVE  Good(t) /\ SameOptions(t, s) /\ t.evicted = s.evicted
<1> DEFINE u == Purge(s, k, now)
           p == [u EXCEPT !.data[k].expireAt = at]
<1>1. /\ Good(u) /\ Fewer(u, s) /\ Shows(u, s, now) /\ u.evicted = s.evicted
      /\ Has(u, k) => Live(u, k, now)
  BY PurgeGood
<1>2. t = IF Has(u, k) THEN Schedule(p, k, at) ELSE u
  BY DEF Expire
<1> HIDE DEF u
<1>3. CASE ~Has(u, k)
  BY <1>1, <1>2, <1>3 DEF Fewer
<1>4. CASE Has(u, k)
  <2>0. at \in Deadline
    BY DEF Deadline
  <2>1. /\ Sound(p) /\ SameOptions(p, u) /\ p.evicted = u.evicted
        /\ p.order = u.order /\ p.used = u.used
        /\ Has(p, k) /\ p.data[k].expireAt = at /\ Covered(p, Keys \ {k})
        /\ at = None => Covered(p, Keys)
    BY <1>1, <1>4, <2>0, RedateSound
  <2> HIDE DEF p
  <2>2. t = Schedule(p, k, at)
    BY <1>2, <1>4
  <2>3. /\ Sound(t) /\ Covered(t, Keys)
        /\ t.data = p.data /\ t.order = p.order /\ t.used = p.used /\ t.evicted = p.evicted
        /\ SameOptions(t, p)
    BY <2>1, <2>2, ScheduleSound
  <2>4. Bounded(t)
    BY <1>1, <2>1, <2>3 DEF Good, Bounded, OverLimit, SameOptions
  <2> QED
    BY <1>1, <2>1, <2>3, <2>4 DEF Good, Fewer, SameOptions
<1> QED
  BY <1>3, <1>4

LEMMA PersistGood ==
    ASSUME NEW s, Good(s), NEW k \in Keys, NEW now \in Int, NEW t, t = Persist(s, k, now)
    PROVE  Good(t) /\ SameOptions(t, s) /\ t.evicted = s.evicted
<1> DEFINE u == Purge(s, k, now)
           p == [u EXCEPT !.data[k].expireAt = None]
<1>1. /\ Good(u) /\ Fewer(u, s) /\ Shows(u, s, now) /\ u.evicted = s.evicted
      /\ Has(u, k) => Live(u, k, now)
  BY PurgeGood
<1>2. t = IF Has(u, k) THEN p ELSE u
  BY DEF Persist
<1> HIDE DEF u
<1>3. CASE ~Has(u, k)
  BY <1>1, <1>2, <1>3 DEF Fewer
<1>4. CASE Has(u, k)
  <2>0. None \in Deadline
    BY DEF Deadline
  <2>1. /\ Sound(p) /\ SameOptions(p, u) /\ p.evicted = u.evicted
        /\ p.order = u.order /\ p.used = u.used
        /\ Has(p, k) /\ p.data[k].expireAt = None /\ Covered(p, Keys \ {k})
        /\ None = None => Covered(p, Keys)
    BY <1>1, <1>4, <2>0, RedateSound
  <2> HIDE DEF p
  <2>2. Bounded(p)
    BY <1>1, <2>1 DEF Good, Bounded, OverLimit, SameOptions
  <2> QED
    BY <1>1, <1>2, <1>4, <2>1, <2>2 DEF Good, Fewer, SameOptions
<1> QED
  BY <1>3, <1>4

LEMMA EmptyGood ==
    ASSUME NEW s, s \in StoreType, s.data = [k \in Keys |-> None], s.order = <<>>,
           s.heap = {}, s.used = 0
    PROVE  Good(s)
<1>1. \A k \in Keys : s.data[k] = None
  OBVIOUS
<1>2. SizeOf(s, Keys) = 0
  BY <1>1, SumNone DEF StoreType
<1>3. Costed(s) /\ Covered(s, Keys)
  BY <1>1 DEF Costed, Covered, Has
<1>4. Listed(s)
  <2>1. Len(<<>>) = 0 /\ 1..0 = {}
    OBVIOUS
  <2> QED
    BY <1>1, <2>1 DEF Listed, Has, Distinct, In
<1>5. Bounded(s)
  BY DEF Bounded, OverLimit
<1> QED
  BY <1>2, <1>3, <1>4, <1>5 DEF Good, Sound, Accounted

LEMMA NothingStored == [k \in Keys |-> None] \in DataType
BY DEF DataType

LEMMA NewStoreGood ==
    ASSUME NEW options \in Options, NEW s, s = Empty(options)
    PROVE  /\ Good(s) /\ s.evicted = <<>>
           /\ s.cap = options.cap /\ s.policy = options.policy
<1> DEFINE d == [k \in Keys |-> None]
<1>1. d \in DataType
  BY NothingStored
<1>2. s = [data |-> d, order |-> <<>>, heap |-> {}, used |-> 0,
           evicted |-> <<>>, cap |-> options.cap, policy |-> options.policy]
  BY DEF Empty
<1>3. options.cap \in Nat /\ options.policy \in {"allkeys-lru", "noeviction"}
  BY DEF Options
<1> HIDE DEF d
<1>4. s \in StoreType
  BY <1>1, <1>2, <1>3 DEF StoreType
<1>5. s.data = d /\ s.order = <<>> /\ s.heap = {} /\ s.used = 0
  BY <1>2
<1>6. Good(s)
  BY <1>4, <1>5, EmptyGood DEF d
<1> QED
  BY <1>2, <1>6

LEMMA FlushGood ==
    ASSUME NEW s, Good(s), NEW t, t = Flush(s)
    PROVE  Good(t) /\ SameOptions(t, s) /\ t.evicted = s.evicted
<1> DEFINE d == [k \in Keys |-> None]
<1>0. s \in StoreType
  BY DEF Good, Sound
<1>1. d \in DataType
  BY NothingStored
<1>2. t = [s EXCEPT !.data = d, !.order = <<>>, !.heap = {}, !.used = 0]
  BY DEF Flush
<1> DEFINE q == <<>>
           h == {}
<1>5. q \in Seq(Keys) /\ h \in SUBSET (Int \X Keys) /\ t = [s EXCEPT !.data = d, !.order = q, !.heap = h, !.used = 0]
  BY <1>2
<1> HIDE DEF d, q, h
<1>6. /\ t \in StoreType /\ t.data = d /\ t.order = q /\ t.heap = h /\ t.used = 0
      /\ SameOptions(t, s) /\ t.evicted = s.evicted
  <2>1. /\ t.data = d /\ t.order = q /\ t.heap = h /\ t.used = 0
        /\ t.cap = s.cap /\ t.policy = s.policy /\ t.evicted = s.evicted
    BY <1>0, <1>5 DEF StoreType
  <2>2. t = [data |-> d, order |-> q, heap |-> h, used |-> 0,
             evicted |-> s.evicted, cap |-> s.cap, policy |-> s.policy]
    BY <1>0, <1>5 DEF StoreType
  <2>3. s.evicted \in Seq(Keys) /\ s.cap \in Nat /\ s.policy \in {"allkeys-lru", "noeviction"}
    BY <1>0 DEF StoreType
  <2> QED
    BY <1>1, <1>5, <2>1, <2>2, <2>3 DEF StoreType, SameOptions
<1>3. /\ t \in StoreType /\ t.data = d /\ t.order = <<>> /\ t.heap = {} /\ t.used = 0
      /\ SameOptions(t, s) /\ t.evicted = s.evicted
  BY <1>6 DEF q, h
<1>4. Good(t)
  BY <1>3, EmptyGood DEF d
<1> QED
  BY <1>3, <1>4

LEMMA GetGood ==
    ASSUME NEW s, Good(s), NEW k \in Keys, NEW now \in Int, NEW t, t = Get(s, k, now)
    PROVE  Good(t) /\ SameOptions(t, s) /\ Shows(t, s, now) /\ t.evicted = s.evicted
<1> DEFINE u == Purge(s, k, now)
<1>1. /\ Good(u) /\ Fewer(u, s) /\ Shows(u, s, now) /\ u.evicted = s.evicted
      /\ Has(u, k) => Live(u, k, now)
  BY PurgeGood
<1>2. t = IF Has(u, k) THEN MoveToEnd(u, k) ELSE u
  BY DEF Get
<1> HIDE DEF u
<1>3. CASE ~Has(u, k)
  BY <1>1, <1>2, <1>3 DEF Fewer
<1>4. CASE Has(u, k)
  <2>1. Good(t) /\ SameOptions(t, u) /\ t.data = u.data /\ t.evicted = u.evicted
    BY <1>1, <1>2, <1>4, MoveGood
  <2> QED
    BY <1>1, <2>1 DEF Fewer, SameOptions, Shows
<1> QED
  BY <1>3, <1>4

LEMMA DrainGood ==
    ASSUME NEW s, Good(s), NEW t, t = DrainEvictions(s)
    PROVE  Good(t) /\ SameOptions(t, s) /\ t.data = s.data /\ t.evicted = <<>>
<1>0. s \in StoreType /\ s.data \in DataType
  BY DEF Good, Sound, StoreType
<1> DEFINE q == <<>>
<1>1. q \in Seq(Keys) /\ t = [s EXCEPT !.evicted = q]
  BY DEF DrainEvictions
<1> HIDE DEF q
<1>2. /\ t \in StoreType /\ t.data = s.data /\ t.order = s.order /\ t.heap = s.heap /\ t.used = s.used
      /\ t.evicted = q /\ SameOptions(t, s)
  BY <1>0, <1>1 DEF StoreType, SameOptions
<1>3. SizeOf(t, Keys) = SizeOf(s, Keys)
  BY <1>0, <1>2, SumEqual
<1>4. Sound(t)
  BY <1>2, <1>3 DEF Good, Sound, Costed, Listed, Accounted, Has
<1>5. Covered(t, Keys) /\ Bounded(t)
  BY <1>2 DEF Good, Covered, Has, Bounded, OverLimit, SameOptions
<1> QED
  BY <1>2, <1>4, <1>5 DEF Good, q

-----------------------------------------------------------------------------
(***************************************************************************)
(* Dispatch.                                                               *)
(***************************************************************************)
\* A store reached from s by commands.
Reached(t, s) == Good(t) /\ SameOptions(t, s) /\ Quiet(t, s)

LEMMA ReachedTwice ==
    ASSUME NEW s, NEW t, NEW u, Reached(t, s), Reached(u, t)
    PROVE  Reached(u, s)
BY DEF Reached, SameOptions, Quiet

\* f is the store after each pair of an MSET.
SetsOneByOne(f, s, c, now) ==
    /\ f[0] = s /\ DispatchMset(s, c, now) = f[Len(c.pairs)]
    /\ \A n \in Nat : n + 1 <= Len(c.pairs) =>
          f[n + 1] = Set(f[n], c.pairs[n + 1][1], c.pairs[n + 1][2], None, now)

LEMMA MsetSteps ==
    ASSUME NEW s, NEW c, c.pairs \in Seq(Keys \X Value), NEW now
    PROVE  \E f : SetsOneByOne(f, s, c, now)
<1> DEFINE L == Len(c.pairs)
           Step(x, i) == Set(x, c.pairs[i][1], c.pairs[i][2], None, now)
           Is(n, f) == f = [i \in 0..n |-> IF i = 0 THEN s ELSE Step(f[i - 1], i)]
           Fits(n) == \E f : Is(n, f)
           N == {n \in Nat : Fits(n)}
           g == CHOOSE f : Is(L, f)
<1>0. L \in Nat /\ DispatchMset(s, c, now) = g[L]
  BY DEF DispatchMset
<1> HIDE DEF L, Step
<1>1. 0 \in N
  <2> DEFINE f == [i \in 0..0 |-> s]
  <2>1. Is(0, f)
    OBVIOUS
  <2> QED
    BY <2>1
<1>2. \A n \in Nat : n \in N => n + 1 \in N
  <2> SUFFICES ASSUME NEW n \in Nat, Fits(n)
               PROVE  Fits(n + 1)
    <3> HIDE DEF Fits
    <3> QED
      OBVIOUS
  <2>1. PICK f : f = [i \in 0..n |-> IF i = 0 THEN s ELSE Step(f[i - 1], i)]
    OBVIOUS
  <2> DEFINE h == [i \in 0..(n + 1) |-> IF i <= n THEN f[i] ELSE Step(f[n], n + 1)]
  <2>2. \A i \in 0..(n + 1) : h[i] = IF i = 0 THEN s ELSE Step(h[i - 1], i)
    <3> TAKE i \in 0..(n + 1)
    <3>1. CASE i <= n
      <4>1. i \in 0..n /\ (i # 0 => i - 1 \in 0..n /\ i - 1 \in 0..(n + 1) /\ i - 1 <= n)
        BY <3>1
      <4> QED
        BY <2>1, <3>1, <4>1
    <3>2. CASE i = n + 1
      <4>1. i # 0 /\ i - 1 = n /\ n \in 0..(n + 1) /\ ~(i <= n)
        BY <3>2
      <4> QED
        BY <3>2, <4>1
    <3> QED
      BY <3>1, <3>2
  <2>3. h = [i \in 0..(n + 1) |-> IF i = 0 THEN s ELSE Step(h[i - 1], i)]
    BY <2>2
  <2> HIDE DEF h
  <2> QED
    BY <2>3
<1>3. Fits(L)
  <2> HIDE DEF Fits
  <2>1. L \in N
    <3> HIDE DEF N
    <3> QED
      BY <1>0, <1>1, <1>2, Induction
  <2> QED
    BY <2>1
<1>4. Is(L, g)
  <2> HIDE DEF Is
  <2> QED
    BY <1>3
<1> HIDE DEF g
<1>5. \A i \in 0..L : g[i] = IF i = 0 THEN s ELSE Step(g[i - 1], i)
  BY <1>4
<1>6. g[0] = s
  BY <1>0, <1>5
<1>7. ASSUME NEW n \in Nat, n + 1 <= L
      PROVE  g[n + 1] = Step(g[n], n + 1)
  <2>1. n + 1 \in 0..L /\ n + 1 # 0 /\ (n + 1) - 1 = n
    BY <1>0, <1>7
  <2> QED
    BY <1>5, <2>1
<1>8. SetsOneByOne(g, s, c, now)
  BY <1>0, <1>6, <1>7 DEF L, Step, SetsOneByOne
<1> QED
  BY <1>8

LEMMA MsetGood ==
    ASSUME NEW s, Good(s), NEW c, c.pairs \in Seq(Keys \X Value), NEW now \in Int
    PROVE  Reached(DispatchMset(s, c, now), s)
<1>0. PICK f : SetsOneByOne(f, s, c, now)
  BY MsetSteps
<1>1. /\ f[0] = s /\ DispatchMset(s, c, now) = f[Len(c.pairs)]
      /\ \A n \in Nat : n + 1 <= Len(c.pairs) =>
            f[n + 1] = Set(f[n], c.pairs[n + 1][1], c.pairs[n + 1][2], None, now)
  BY <1>0 DEF SetsOneByOne
<1> DEFINE N == {n \in Nat : n <= Len(c.pairs) => Reached(f[n], s)}
<1>2. 0 \in N
  BY <1>1 DEF Reached, SameOptions, Quiet
<1>3. \A n \in Nat : n \in N => n + 1 \in N
  <2> SUFFICES ASSUME NEW n \in Nat, Reached(f[n], s), n + 1 <= Len(c.pairs)
               PROVE  Reached(f[n + 1], s)
    OBVIOUS
  <2> DEFINE k == c.pairs[n + 1][1]
             v == c.pairs[n + 1][2]
  <2>1. f[n + 1] = Set(f[n], k, v, None, now)
    BY <1>1
  <2>2. k \in Keys /\ v \in Value
    <3>1. n + 1 \in 1..Len(c.pairs)
      OBVIOUS
    <3>2. c.pairs[n + 1] \in Keys \X Value
      BY <3>1
    <3> QED
      BY <3>2
  <2>3. None \in Lifetime
    BY DEF Lifetime
  <2> HIDE DEF k, v
  <2> DEFINE x == f[n]
             y == f[n + 1]
  <2>4. Good(x) /\ y = Set(x, k, v, None, now)
    BY <2>1 DEF Reached
  <2> HIDE DEF x, y
  <2>5. Good(y) /\ SameOptions(y, x) /\ Quiet(y, x) /\ Live(y, k, now)
    BY <2>2, <2>3, <2>4, SetGood
  <2>6. Reached(y, x)
    BY <2>5 DEF Reached
  <2>7. Reached(x, s)
    BY DEF x
  <2>8. Reached(y, s)
    BY <2>6, <2>7, ReachedTwice
  <2> QED
    BY <2>8 DEF y
<1> HIDE DEF N
<1>4. Len(c.pairs) \in Nat /\ Len(c.pairs) \in N
  BY <1>2, <1>3, Induction
<1> QED
  BY <1>1, <1>4 DEF N

LEMMA DispatchSetGood ==
    ASSUME NEW s, Good(s), NEW c, c.key \in Keys, c.value \in Value, c.ttl \in Lifetime,
           NEW now \in Int, NEW r, r = DispatchSet(s, c, now)
    PROVE  Reached(r.store, s) /\ r.ok = TRUE /\ (r.wrote => Live(r.store, c.key, now))
<1> DEFINE t == Get(s, c.key, now)
           refused == \/ c.mode = "NX" /\ Has(t, c.key)
                      \/ c.mode = "XX" /\ ~Has(t, c.key)
           u == Set(t, c.key, c.value, c.ttl, now)
<1>1. Good(t) /\ SameOptions(t, s) /\ Shows(t, s, now) /\ t.evicted = s.evicted
  BY GetGood
<1>2. r = IF refused THEN [store |-> t, ok |-> TRUE, wrote |-> FALSE]
                     ELSE [store |-> u, ok |-> TRUE, wrote |-> TRUE]
  BY DEF DispatchSet, Result
<1>3. Reached(t, s)
  BY <1>1 DEF Reached, Quiet
<1> HIDE DEF t
<1>4. Good(u) /\ SameOptions(u, t) /\ Quiet(u, t) /\ Live(u, c.key, now)
  BY <1>1, SetGood
<1>5. Reached(u, s)
  BY <1>3, <1>4, ReachedTwice DEF Reached
<1> HIDE DEF u, refused
<1> QED
  BY <1>2, <1>3, <1>4, <1>5

\* A command that reads or fails leaves what was there.
Harmless(t, s, now) == t.evicted = s.evicted /\ Shows(t, s, now)

\* What dispatch() leaves, whatever the command.
LEMMA DispatchGood ==
    ASSUME NEW s, Good(s), NEW c \in CommandType, NEW now \in Int, NEW r, r = Dispatch(s, c, now)
    PROVE  /\ Reached(r.store, s) /\ r.ok \in BOOLEAN
           /\ c.op \notin WriteCommands \/ ~r.ok => Harmless(r.store, s, now)
           /\ (c.op = "SET" /\ r.wrote) \/ (c.op = "INCR" /\ r.ok) => Live(r.store, c.key, now)
<1>1. CASE c.op = "SET"
  <2>1. c.key \in Keys /\ c.value \in Value /\ c.ttl \in Lifetime
    BY <1>1 DEF CommandType, Lifetime
  <2>2. r = DispatchSet(s, c, now)
    BY <1>1 DEF Dispatch
  <2>3. Reached(r.store, s) /\ r.ok = TRUE /\ (r.wrote => Live(r.store, c.key, now))
    BY <2>1, <2>2, DispatchSetGood
  <2> QED
    BY <1>1, <2>3 DEF WriteCommands
<1>2. CASE c.op = "INCR"
  <2>1. c.key \in Keys /\ c.delta \in Int
    BY <1>2 DEF CommandType
  <2> DEFINE q == Incr(s, c.key, c.delta, now)
  <2>2. r = [store |-> q.store, ok |-> q.ok, wrote |-> FALSE]
    BY <1>2 DEF Dispatch, DispatchIncr, Result
  <2>3. /\ Good(q.store) /\ SameOptions(q.store, s) /\ Quiet(q.store, s) /\ q.ok \in BOOLEAN
        /\ q.ok => Live(q.store, c.key, now)
        /\ ~q.ok => q.store.evicted = s.evicted /\ Shows(q.store, s, now)
    BY <2>1, IncrGood
  <2> HIDE DEF q
  <2>4. r.store = q.store /\ r.ok = q.ok /\ r.wrote = FALSE
    BY <2>2
  <2> QED
    BY <1>2, <2>3, <2>4 DEF Reached, Harmless, WriteCommands
<1>3. CASE c.op = "MSET"
  <2>1. c.pairs \in Seq(Keys \X Value)
    BY <1>3 DEF CommandType
  <2> DEFINE q == DispatchMset(s, c, now)
  <2>2. r = [store |-> q, ok |-> TRUE, wrote |-> FALSE]
    BY <1>3 DEF Dispatch, Result
  <2>3. Reached(q, s)
    BY <2>1, MsetGood
  <2> HIDE DEF q
  <2> QED
    BY <1>3, <2>2, <2>3 DEF WriteCommands
<1>4. CASE c.op = "DEL"
  <2> DEFINE q == Delete(s, c.key)
  <2>1. c.key \in Keys
    BY <1>4 DEF CommandType
  <2>2. r = [store |-> q, ok |-> TRUE, wrote |-> FALSE]
    BY <1>4 DEF Dispatch, Result
  <2>3. Good(q) /\ SameOptions(q, s) /\ q.evicted = s.evicted
    BY <2>1, DeleteGood
  <2> HIDE DEF q
  <2> QED
    BY <1>4, <2>2, <2>3 DEF WriteCommands, Reached, Quiet
<1>5. CASE c.op = "EXPIRE" \/ c.op = "PEXPIREAT"
  <2> DEFINE at == IF c.op = "EXPIRE" THEN now + c.ttl ELSE c.at
             q == Expire(s, c.key, at, now)
  <2>1. c.key \in Keys /\ at \in Int
    BY <1>5 DEF CommandType
  <2>2. r = [store |-> q, ok |-> TRUE, wrote |-> FALSE]
    BY <1>5 DEF Dispatch, Result
  <2> HIDE DEF at
  <2>3. Good(q) /\ SameOptions(q, s) /\ q.evicted = s.evicted
    BY <2>1, ExpireGood
  <2> HIDE DEF q
  <2> QED
    BY <1>5, <2>2, <2>3 DEF WriteCommands, Reached, Quiet
<1>6. CASE c.op = "PERSIST"
  <2> DEFINE q == Persist(s, c.key, now)
  <2>1. c.key \in Keys
    BY <1>6 DEF CommandType
  <2>2. r = [store |-> q, ok |-> TRUE, wrote |-> FALSE]
    BY <1>6 DEF Dispatch, Result
  <2>3. Good(q) /\ SameOptions(q, s) /\ q.evicted = s.evicted
    BY <2>1, PersistGood
  <2> HIDE DEF q
  <2> QED
    BY <1>6, <2>2, <2>3 DEF WriteCommands, Reached, Quiet
<1>7. CASE c.op = "FLUSHDB"
  <2> DEFINE q == Flush(s)
  <2>2. r = [store |-> q, ok |-> TRUE, wrote |-> FALSE]
    BY <1>7 DEF Dispatch, Result
  <2>3. Good(q) /\ SameOptions(q, s) /\ q.evicted = s.evicted
    BY FlushGood
  <2> HIDE DEF q
  <2> QED
    BY <1>7, <2>2, <2>3 DEF WriteCommands, Reached, Quiet
<1>8. CASE c.op = "GET"
  <2> DEFINE q == Get(s, c.key, now)
  <2>1. c.key \in Keys
    BY <1>8 DEF CommandType
  <2>2. r = [store |-> q, ok |-> TRUE, wrote |-> FALSE]
    BY <1>8 DEF Dispatch, Result
  <2>3. Good(q) /\ SameOptions(q, s) /\ Shows(q, s, now) /\ q.evicted = s.evicted
    BY <2>1, GetGood
  <2> HIDE DEF q
  <2> QED
    BY <1>8, <2>2, <2>3 DEF Reached, Quiet, Harmless
<1>9. CASE c.op = "TTL"
  <2> DEFINE q == Purge(s, c.key, now)
  <2>1. c.key \in Keys
    BY <1>9 DEF CommandType
  <2>2. r = [store |-> q, ok |-> TRUE, wrote |-> FALSE]
    BY <1>9 DEF Dispatch, Result, Ttl
  <2>3. /\ Good(q) /\ Fewer(q, s) /\ Shows(q, s, now) /\ q.evicted = s.evicted
        /\ Has(q, c.key) => Live(q, c.key, now)
    BY <2>1, PurgeGood
  <2> HIDE DEF q
  <2> QED
    BY <1>9, <2>2, <2>3 DEF Reached, Quiet, Harmless, Fewer
<1>10. CASE c.op = "KEYS"
  <2> DEFINE q == Sweep(s, now)
  <2>2. r = [store |-> q, ok |-> TRUE, wrote |-> FALSE]
    BY <1>10 DEF Dispatch, Result
  <2>3. Good(q) /\ SameOptions(q, s) /\ Shows(q, s, now) /\ q.evicted = s.evicted
    BY SweepGood
  <2> HIDE DEF q
  <2> QED
    BY <1>10, <2>2, <2>3 DEF Reached, Quiet, Harmless
<1>11. CASE c.op = "PING"
  <2>2. r = [store |-> s, ok |-> TRUE, wrote |-> FALSE]
    BY <1>11 DEF Dispatch, Result
  <2> QED
    BY <1>11, <2>2 DEF Reached, Quiet, Harmless, SameOptions, Shows
<1>12. c.op \in {"SET", "INCR", "MSET", "DEL", "EXPIRE", "PEXPIREAT", "PERSIST", "FLUSHDB", "GET",
                 "TTL", "KEYS", "PING"}
  BY DEF CommandType
<1> QED
  BY <1>1, <1>2, <1>3, <1>4, <1>5, <1>6, <1>7, <1>8, <1>9, <1>10, <1>11, <1>12

\* f is the store after each of the commands.
OneByOne(f, s, commands, now) ==
    /\ f[0] = s /\ DispatchAll(s, commands, now) = f[Len(commands)]
    /\ \A n \in Nat : n + 1 <= Len(commands) =>
          f[n + 1] = Dispatch(f[n], commands[n + 1], now).store

LEMMA DispatchSteps ==
    ASSUME NEW s, NEW commands \in Seq(CommandType), NEW now
    PROVE  \E f : OneByOne(f, s, commands, now)
<1> DEFINE L == Len(commands)
           Step(x, i) == Dispatch(x, commands[i], now).store
           Is(n, f) == f = [i \in 0..n |-> IF i = 0 THEN s ELSE Step(f[i - 1], i)]
           Fits(n) == \E f : Is(n, f)
           N == {n \in Nat : Fits(n)}
           g == CHOOSE f : Is(L, f)
<1>0. L \in Nat /\ DispatchAll(s, commands, now) = g[L]
  BY DEF DispatchAll
<1> HIDE DEF L, Step
<1>1. 0 \in N
  <2> DEFINE f == [i \in 0..0 |-> s]
  <2>1. Is(0, f)
    OBVIOUS
  <2> QED
    BY <2>1
<1>2. \A n \in Nat : n \in N => n + 1 \in N
  <2> SUFFICES ASSUME NEW n \in Nat, Fits(n)
               PROVE  Fits(n + 1)
    <3> HIDE DEF Fits
    <3> QED
      OBVIOUS
  <2>1. PICK f : f = [i \in 0..n |-> IF i = 0 THEN s ELSE Step(f[i - 1], i)]
    OBVIOUS
  <2> DEFINE h == [i \in 0..(n + 1) |-> IF i <= n THEN f[i] ELSE Step(f[n], n + 1)]
  <2>2. \A i \in 0..(n + 1) : h[i] = IF i = 0 THEN s ELSE Step(h[i - 1], i)
    <3> TAKE i \in 0..(n + 1)
    <3>1. CASE i <= n
      <4>1. i \in 0..n /\ (i # 0 => i - 1 \in 0..n /\ i - 1 \in 0..(n + 1) /\ i - 1 <= n)
        BY <3>1
      <4> QED
        BY <2>1, <3>1, <4>1
    <3>2. CASE i = n + 1
      <4>1. i # 0 /\ i - 1 = n /\ n \in 0..(n + 1) /\ ~(i <= n)
        BY <3>2
      <4> QED
        BY <3>2, <4>1
    <3> QED
      BY <3>1, <3>2
  <2>3. h = [i \in 0..(n + 1) |-> IF i = 0 THEN s ELSE Step(h[i - 1], i)]
    BY <2>2
  <2> HIDE DEF h
  <2> QED
    BY <2>3
<1>3. Fits(L)
  <2> HIDE DEF Fits
  <2>1. L \in N
    <3> HIDE DEF N
    <3> QED
      BY <1>0, <1>1, <1>2, Induction
  <2> QED
    BY <2>1
<1>4. Is(L, g)
  <2> HIDE DEF Is
  <2> QED
    BY <1>3
<1> HIDE DEF g
<1>5. \A i \in 0..L : g[i] = IF i = 0 THEN s ELSE Step(g[i - 1], i)
  BY <1>4
<1>6. g[0] = s
  BY <1>0, <1>5
<1>7. ASSUME NEW n \in Nat, n + 1 <= L
      PROVE  g[n + 1] = Step(g[n], n + 1)
  <2>1. n + 1 \in 0..L /\ n + 1 # 0 /\ (n + 1) - 1 = n
    BY <1>0, <1>7
  <2> QED
    BY <1>5, <2>1
<1>8. OneByOne(g, s, commands, now)
  BY <1>0, <1>6, <1>7 DEF L, Step, OneByOne
<1> QED
  BY <1>8

LEMMA DispatchAllGood ==
    ASSUME NEW s, Good(s), NEW commands \in Seq(CommandType), NEW now \in Int
    PROVE  Reached(DispatchAll(s, commands, now), s)
<1>0. PICK f : OneByOne(f, s, commands, now)
  BY DispatchSteps
<1>1. /\ f[0] = s /\ DispatchAll(s, commands, now) = f[Len(commands)]
      /\ \A n \in Nat : n + 1 <= Len(commands) =>
            f[n + 1] = Dispatch(f[n], commands[n + 1], now).store
  BY <1>0 DEF OneByOne
<1> DEFINE N == {n \in Nat : n <= Len(commands) => Reached(f[n], s)}
<1>2. 0 \in N
  BY <1>1 DEF Reached, SameOptions, Quiet
<1>3. \A n \in Nat : n \in N => n + 1 \in N
  <2> SUFFICES ASSUME NEW n \in Nat, Reached(f[n], s), n + 1 <= Len(commands)
               PROVE  Reached(f[n + 1], s)
    OBVIOUS
  <2> DEFINE x == f[n]
             c == commands[n + 1]
             r == Dispatch(x, c, now)
  <2>1. f[n + 1] = r.store
    BY <1>1
  <2>2. c \in CommandType
    OBVIOUS
  <2>3. Reached(x, s) /\ Good(x)
    BY DEF Reached
  <2> HIDE DEF x, c
  <2>4. /\ Reached(r.store, x) /\ r.ok \in BOOLEAN
        /\ c.op \notin WriteCommands \/ ~r.ok => Harmless(r.store, x, now)
        /\ (c.op = "SET" /\ r.wrote) \/ (c.op = "INCR" /\ r.ok) => Live(r.store, c.key, now)
    BY <2>2, <2>3, DispatchGood
  <2> HIDE DEF r
  <2>5. Reached(r.store, s)
    BY <2>3, <2>4, ReachedTwice
  <2> QED
    BY <2>1, <2>5
<1> HIDE DEF N
<1>4. Len(commands) \in Nat /\ Len(commands) \in N
  BY <1>2, <1>3, Induction
<1> QED
  BY <1>1, <1>4 DEF N

LEMMA ReplayGood ==
    ASSUME NEW options \in Options, NEW commands \in Seq(CommandType), NEW now \in Int,
           NEW t, t = Replay(options, commands, now)
    PROVE  Good(t) /\ t.evicted = <<>> /\ t.cap = options.cap /\ t.policy = options.policy
<1> DEFINE e == Empty(options)
           u == DispatchAll(e, commands, now)
<1>1. /\ Good(e) /\ e.evicted = <<>>
      /\ e.cap = options.cap /\ e.policy = options.policy
  BY NewStoreGood
<1>2. t = DrainEvictions(u)
  BY DEF Replay
<1> HIDE DEF e
<1>3. Reached(u, e)
  BY <1>1, DispatchAllGood
<1> HIDE DEF u
<1>4. Good(t) /\ SameOptions(t, u) /\ t.data = u.data /\ t.evicted = <<>>
  BY <1>2, <1>3, DrainGood DEF Reached
<1> QED
  BY <1>1, <1>3, <1>4 DEF Reached, SameOptions

-----------------------------------------------------------------------------
(***************************************************************************)
(* The records of the log and of a snapshot are commands.                  *)
(***************************************************************************)
LEMMA CommandTypes ==
    /\ \A k \in Keys, v \in Value : PlainSet(k, v) \in CommandType
    /\ \A k \in Keys, at \in Int : CmdPexpireat(k, at) \in CommandType
    /\ \A k \in Keys, ttl \in Int : CmdExpire(k, ttl) \in CommandType
    /\ \A k \in Keys : CmdDel(k) \in CommandType
    /\ CmdFlushdb \in CommandType /\ CmdPing \in CommandType
<1>1. \A k \in Keys, v \in Value : PlainSet(k, v) \in CommandType
  BY DEF CommandType, PlainSet, CmdSet
<1>2. \A k \in Keys, at \in Int : CmdPexpireat(k, at) \in CommandType
  BY DEF CommandType, CmdPexpireat
<1>3. \A k \in Keys, ttl \in Int : CmdExpire(k, ttl) \in CommandType
  BY DEF CommandType, CmdExpire
<1>4. \A k \in Keys : CmdDel(k) \in CommandType
  BY DEF CommandType, CmdDel
<1>5. CmdFlushdb \in CommandType /\ CmdPing \in CommandType
  BY DEF CommandType, CmdFlushdb, CmdPing
<1> QED
  BY <1>1, <1>2, <1>3, <1>4, <1>5

LEMMA ToAofType ==
    ASSUME NEW c \in CommandType, NEW now \in Int
    PROVE  ToAof(c, now) \in Seq(CommandType)
<1>1. CASE c.op = "SET"
  <2>1. c.key \in Keys /\ c.value \in Value /\ c.ttl \in Lifetime
    BY <1>1 DEF CommandType, Lifetime
  <2>2. CASE c.ttl = None
    <3>1. ToAof(c, now) = <<PlainSet(c.key, c.value)>>
      BY <1>1, <2>2 DEF ToAof
    <3> QED
      BY <2>1, <3>1, CommandTypes
  <2>3. CASE c.ttl # None
    <3>1. ToAof(c, now) = <<PlainSet(c.key, c.value), CmdPexpireat(c.key, now + c.ttl)>>
      BY <1>1, <2>3 DEF ToAof
    <3>2. now + c.ttl \in Int
      BY <2>1, <2>3 DEF Lifetime
    <3> QED
      BY <2>1, <3>1, <3>2, CommandTypes
  <2> QED
    BY <2>2, <2>3
<1>2. CASE c.op = "EXPIRE"
  <2>1. c.key \in Keys /\ now + c.ttl \in Int
    BY <1>2 DEF CommandType
  <2>2. ToAof(c, now) = <<CmdPexpireat(c.key, now + c.ttl)>>
    BY <1>2 DEF ToAof
  <2> QED
    BY <2>1, <2>2, CommandTypes
<1>3. CASE c.op # "SET" /\ c.op # "EXPIRE"
  <2>1. ToAof(c, now) = <<c>>
    BY <1>3 DEF ToAof
  <2> QED
    BY <2>1
<1> QED
  BY <1>1, <1>2, <1>3

LEMMA ToReplicationType ==
    ASSUME NEW c \in CommandType
    PROVE  ToReplication(c) \in CommandType
BY DEF ToReplication, CmdSet, CommandType

\* f is the concatenation of the first sequences of q.
Joins(f, q, S) ==
    /\ f[0] = <<>> /\ FlattenSeq(q) = f[Len(q)]
    /\ \A n \in Nat : n <= Len(q) => f[n] \in Seq(S)
    /\ \A n \in Nat : n + 1 <= Len(q) => f[n + 1] = f[n] \o q[n + 1]

LEMMA FlattenSteps ==
    ASSUME NEW C, NEW q \in Seq(Seq(C))
    PROVE  \E f : Joins(f, q, C)
<1> DEFINE L == Len(q)
           S == Seq(C)
           Is(n, f) == f = [i \in 1..n |-> IF i = 1 THEN q[i] ELSE f[i - 1] \o q[i]]
           Fits(n) == \E f : Is(n, f)
           N == {n \in Nat : Fits(n)}
           g == CHOOSE f : Is(L, f)
<1>0. L \in Nat /\ (L # 0 => FlattenSeq(q) = g[L]) /\ (L = 0 => FlattenSeq(q) = q)
  BY DEF FlattenSeq
<1> HIDE DEF L
<1>1. 0 \in N
  <2> DEFINE f == [i \in 1..0 |-> q]
  <2>1. Is(0, f)
    OBVIOUS
  <2> QED
    BY <2>1
<1>2. \A n \in Nat : n \in N => n + 1 \in N
  <2> SUFFICES ASSUME NEW n \in Nat, Fits(n)
               PROVE  Fits(n + 1)
    <3> HIDE DEF Fits
    <3> QED
      OBVIOUS
  <2>1. PICK f : f = [i \in 1..n |-> IF i = 1 THEN q[i] ELSE f[i - 1] \o q[i]]
    OBVIOUS
  <2> DEFINE last == IF n = 0 THEN q[1] ELSE f[n] \o q[n + 1]
             h == [i \in 1..(n + 1) |-> IF i <= n THEN f[i] ELSE last]
  <2>2. \A i \in 1..(n + 1) : h[i] = IF i = 1 THEN q[i] ELSE h[i - 1] \o q[i]
    <3> TAKE i \in 1..(n + 1)
    <3>1. CASE i <= n
      <4>1. i \in 1..n /\ (i # 1 => i - 1 \in 1..n /\ i - 1 \in 1..(n + 1) /\ i - 1 <= n)
        BY <3>1
      <4> QED
        BY <2>1, <3>1, <4>1
    <3>2. CASE i = n + 1
      <4>1. ~(i <= n) /\ i - 1 = n /\ (i = 1 <=> n = 0) /\ (n # 0 => n \in 1..(n + 1) /\ n <= n)
        BY <3>2
      <4> QED
        BY <3>2, <4>1
    <3> QED
      BY <3>1, <3>2
  <2>3. h = [i \in 1..(n + 1) |-> IF i = 1 THEN q[i] ELSE h[i - 1] \o q[i]]
    BY <2>2
  <2> HIDE DEF h
  <2> QED
    BY <2>3
<1>3. Fits(L)
  <2> HIDE DEF Fits
  <2>1. L \in N
    <3> HIDE DEF N
    <3> QED
      BY <1>0, <1>1, <1>2, Induction
  <2> QED
    BY <2>1
<1>4. Is(L, g)
  <2> HIDE DEF Is
  <2> QED
    BY <1>3
<1> HIDE DEF g
<1>5. \A i \in 1..L : g[i] = IF i = 1 THEN q[i] ELSE g[i - 1] \o q[i]
  BY <1>4
<1>6. \A i \in 1..L : q[i] \in S
  BY DEF L
<1>7. \A x \in S, y \in S : x \o y \in S
  OBVIOUS
<1>8. <<>> \in S /\ \A x \in S : <<>> \o x = x
  OBVIOUS
<1> DEFINE f == [n \in 0..L |-> IF n = 0 THEN <<>> ELSE g[n]]
<1>9. f[0] = <<>> /\ (L # 0 => f[L] = g[L])
  BY <1>0
<1>10. ASSUME NEW n \in Nat, n + 1 <= L
       PROVE  f[n + 1] = f[n] \o q[n + 1]
  <2>1. n + 1 \in 1..L /\ n + 1 \in 0..L /\ n \in 0..L /\ (n + 1) - 1 = n /\ (n + 1 = 1 <=> n = 0) /\ n + 1 # 0
    BY <1>0, <1>10
  <2>2. f[n + 1] = g[n + 1] /\ f[n] = IF n = 0 THEN <<>> ELSE g[n]
    BY <2>1
  <2>3. q[n + 1] \in S /\ g[n + 1] = IF n = 0 THEN q[n + 1] ELSE g[n] \o q[n + 1]
    BY <1>5, <1>6, <2>1
  <2> HIDE DEF f, S
  <2> QED
    BY <1>8, <2>2, <2>3
<1>11. FlattenSeq(q) = f[L]
  <2>1. CASE L = 0
    <3>1. q = <<>>
      BY <2>1 DEF L
    <3> QED
      BY <1>0, <1>9, <2>1, <3>1
  <2>2. CASE L # 0
    BY <1>0, <1>9, <2>2
  <2> QED
    BY <2>1, <2>2
<1> HIDE DEF f
<1> DEFINE M == {n \in Nat : n <= L => f[n] \in S}
<1>12. 0 \in M
  BY <1>8, <1>9
<1>13. \A n \in Nat : n \in M => n + 1 \in M
  <2> HIDE DEF S
  <2> SUFFICES ASSUME NEW n \in Nat, n \in M, n + 1 <= L
               PROVE  f[n + 1] \in S
    BY <1>0
  <2>1. n + 1 \in 1..L /\ n <= L
    BY <1>0
  <2>2. q[n + 1] \in S /\ f[n] \in S
    BY <1>6, <2>1
  <2> QED
    BY <1>7, <1>10, <2>2
<1> HIDE DEF M
<1>14. ASSUME NEW n \in Nat, n <= L
       PROVE  f[n] \in S
  <2>1. n \in M
    BY <1>12, <1>13, Induction
  <2> QED
    BY <1>14, <2>1 DEF M
<1>15. Joins(f, q, C)
  BY <1>9, <1>10, <1>11, <1>14 DEF Joins, L
<1> QED
  BY <1>15

\* A sequence of sequences of commands (or of some commands), one after the other.
LEMMA FlattenType ==
    ASSUME NEW C, NEW q \in Seq(Seq(C))
    PROVE  FlattenSeq(q) \in Seq(C)
<1>1. PICK f : Joins(f, q, C)
  BY FlattenSteps
<1>2. Len(q) \in Nat /\ Len(q) <= Len(q)
  OBVIOUS
<1> QED
  BY <1>1, <1>2 DEF Joins

\* What a snapshot says of a key.
SnapshotEntry == [key : Keys, value : Value, expireAt : Deadline]

LEMMA SnapshotType ==
    ASSUME NEW s, Good(s), NEW now \in Int
    PROVE  Snapshot(s, now) \in Seq(SnapshotEntry)
<1> DEFINE out == {k \in Keys : Has(s, k) /\ IsExpired(s.data[k], now)}
           live == Without(s.order, out)
           entry(i) == [key |-> live[i], value |-> s.data[live[i]].value,
                        expireAt |-> s.data[live[i]].expireAt]
<1>0. s.order \in Seq(Keys) /\ s.data \in DataType /\ \A k \in Keys : In(s.order, k) => Has(s, k)
  BY DEF Good, Sound, StoreType, Listed
<1>1. live \in Seq(Keys) /\ \A k : In(live, k) => In(s.order, k)
  BY <1>0, WithoutKeys
<1>2. Snapshot(s, now) = [i \in 1..Len(live) |-> entry(i)]
  BY DEF Snapshot
<1> HIDE DEF live, out
<1>3. ASSUME NEW i \in 1..Len(live)
      PROVE  entry(i) \in SnapshotEntry
  <2>1. live[i] \in Keys /\ In(live, live[i])
    BY <1>1 DEF In
  <2>2. s.data[live[i]] \in Entry
    BY <1>0, <1>1, <2>1 DEF DataType, Has
  <2> QED
    BY <2>1, <2>2 DEF Entry, SnapshotEntry, Deadline
<1>4. Len(live) \in Nat
  BY <1>1
<1> HIDE DEF entry
<1> QED
  BY <1>2, <1>3, <1>4

LEMMA RewriteType ==
    ASSUME NEW s, Good(s), NEW now \in Int
    PROVE  RewriteCommands(s, now) \in Seq(CommandType)
<1> DEFINE es == Snapshot(s, now)
           restore(e) == IF e.expireAt = None
                         THEN <<PlainSet(e.key, e.value)>>
                         ELSE <<PlainSet(e.key, e.value), CmdPexpireat(e.key, e.expireAt)>>
           q == [i \in 1..Len(es) |-> restore(es[i])]
<1>1. RewriteCommands(s, now) = FlattenSeq(q)
  BY DEF RewriteCommands
<1>2. es \in Seq(SnapshotEntry)
  BY SnapshotType
<1> HIDE DEF es
<1>3. ASSUME NEW e \in SnapshotEntry
      PROVE  restore(e) \in Seq(CommandType)
  <2>1. e.key \in Keys /\ e.value \in Value /\ (e.expireAt # None => e.expireAt \in Int)
    BY DEF SnapshotEntry, Deadline
  <2> QED
    BY <2>1, CommandTypes
<1> HIDE DEF restore
<1>4. q \in Seq(Seq(CommandType))
  BY <1>2, <1>3
<1> HIDE DEF q
<1> QED
  BY <1>1, <1>4, FlattenType

LEMMA SnapshotCommandsType ==
    ASSUME NEW s, Good(s), NEW now \in Int
    PROVE  SnapshotCommands(s, now) \in Seq(CommandType)
<1> DEFINE es == Snapshot(s, now)
           restore(e) == IF e.expireAt = None
                         THEN <<PlainSet(e.key, e.value)>>
                         ELSE <<PlainSet(e.key, e.value), CmdExpire(e.key, e.expireAt - now + 1)>>
           q == [i \in 1..Len(es) |-> restore(es[i])]
<1>1. SnapshotCommands(s, now) = FlattenSeq(q)
  BY DEF SnapshotCommands
<1>2. es \in Seq(SnapshotEntry)
  BY SnapshotType
<1> HIDE DEF es
<1>3. ASSUME NEW e \in SnapshotEntry
      PROVE  restore(e) \in Seq(CommandType)
  <2>1. e.key \in Keys /\ e.value \in Value /\ (e.expireAt # None => e.expireAt \in Int)
    BY DEF SnapshotEntry, Deadline
  <2>2. e.expireAt # None => e.expireAt - now + 1 \in Int
    BY <2>1
  <2> QED
    BY <2>1, <2>2, CommandTypes
<1> HIDE DEF restore
<1>4. q \in Seq(Seq(CommandType))
  BY <1>2, <1>3
<1> HIDE DEF q
<1> QED
  BY <1>1, <1>4, FlattenType

=============================================================================
