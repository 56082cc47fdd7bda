----------------------------- MODULE FiniteSums -----------------------------
(***************************************************************************)
(* Facts about SumFunctionOnSet of the community module Functions, for any *)
(* finite set of indices.  The sums that the invariants of AuthLimiter are *)
(* about change by one summand at a time.                                  *)
(*                                                                         *)
(* The induction theorems of the library take the predicate as an operator *)
(* parameter; here a property to be proved by induction is a set instead,  *)
(* and the induction is the search for a least counterexample.  What the   *)
(* proofs about sequences share is here as well.                           *)
(***************************************************************************)
EXTENDS Naturals, Sequences, FiniteSets, Functions, FiniteSetTheorems, TLAPS

\* A set of numbers has a least element.
LEMMA LeastNumber ==
    ASSUME NEW S \in SUBSET Nat, S # {}
    PROVE  \E x \in S : \A y \in S : x <= y
  <1>1. PICK x \in S : \A y \in S : ~(<<y, x>> \in OpToRel(<, Nat))
    BY WFMin, NatLessThanWellFounded, Zenon
  <1>2. \A y \in S : ~(y < x)
    BY <1>1 DEF OpToRel
  <1> QED
    BY <1>2

\* Induction over the natural numbers.
LEMMA NumbersByInduction ==
    ASSUME NEW P, 0 \in P, \A n \in Nat : n \in P => n + 1 \in P
    PROVE  Nat \subseteq P
  <1> DEFINE B == Nat \ P
  <1> SUFFICES ASSUME B # {} PROVE FALSE
    OBVIOUS
  <1>1. PICK n \in B : \A m \in B : n <= m
    BY LeastNumber
  <1>2. n # 0 /\ n - 1 \in Nat /\ n - 1 \notin B
    BY <1>1
  <1> QED
    BY <1>2

\* Induction over the subsets of a finite set.
LEMMA SubsetsByInduction ==
    ASSUME NEW S, IsFiniteSet(S), NEW P, {} \in P,
           \A s \in SUBSET S : s # {} /\ (\A x \in s : s \ {x} \in P) => s \in P
    PROVE  SUBSET S \subseteq P
  <1> DEFINE Good == {n \in Nat : \A s \in SUBSET S : Cardinality(s) = n => s \in P}
  <1>0. \A s \in SUBSET S : IsFiniteSet(s) /\ Cardinality(s) \in Nat
    BY FS_Subset, FS_CardinalityType
  <1>1. 0 \in Good
    BY <1>0, FS_EmptySet
  <1>2. ASSUME NEW n \in Nat, n \in Good PROVE n + 1 \in Good
    <2> SUFFICES ASSUME NEW s \in SUBSET S, Cardinality(s) = n + 1 PROVE s \in P
      OBVIOUS
    <2>1. s # {}
      BY FS_EmptySet
    <2>2. ASSUME NEW x \in s PROVE s \ {x} \in P
      <3>1. Cardinality(s \ {x}) = n
        BY <1>0, FS_RemoveElement
      <3> QED
        BY <1>2, <3>1
    <2> QED
      BY <2>1, <2>2
  <1>3. Nat \subseteq Good
    <2> HIDE DEF Good
    <2> QED
      BY <1>1, <1>2, NumbersByInduction
  <1> QED
    BY <1>0, <1>3

----------------------------------------------------------------------------
(* SumFunctionOnSet sums the indices up in an order that CHOOSE fixes: the  *)
(* partial sums over the subsets are the solution of a recursive equation.  *)
Pick(s) == CHOOSE x \in s : TRUE

PartialSum(f, g, s) == IF s = {} THEN 0 ELSE f[Pick(s)] + g[s \ {Pick(s)}]

AreSums(f, S, g) == g = [s \in SUBSET S |-> PartialSum(f, g, s)]

Numbers(f, S) == \A x \in S : f[x] \in Nat

LEMMA PickIn == \A s : s # {} => Pick(s) \in s
  BY DEF Pick

LEMMA SumAsPartialSums ==
    ASSUME NEW f, NEW S
    PROVE  SumFunctionOnSet(f, S) = (CHOOSE g : AreSums(f, S, g))[S]
  BY DEF SumFunctionOnSet, FoldFunctionOnSet, MapThenFoldSet, AreSums, PartialSum, Pick

\* The equation has a solution, for numbers to sum up.
LEMMA PartialSumsExist ==
    ASSUME NEW S, IsFiniteSet(S), NEW f, Numbers(f, S)
    PROVE  \E g \in [SUBSET S -> Nat] : AreSums(f, S, g)
  <1> DEFINE Small(n) == {s \in SUBSET S : Cardinality(s) <= n}
             Upto(n, g) == /\ g \in [Small(n) -> Nat]
                           /\ \A s \in Small(n) : g[s] = PartialSum(f, g, s)
             Good == {n \in Nat : \E g : Upto(n, g)}
  <1>0. \A s \in SUBSET S : IsFiniteSet(s) /\ Cardinality(s) \in Nat
    BY FS_Subset, FS_CardinalityType
  <1>1. 0 \in Good
    <2>1. Small(0) = {{}}
      BY <1>0, FS_EmptySet
    <2>2. Upto(0, [s \in Small(0) |-> 0])
      BY <2>1 DEF PartialSum
    <2> QED
      BY <2>2
  <1>2. ASSUME NEW n \in Nat, n \in Good PROVE n + 1 \in Good
    <2>1. PICK g : Upto(n, g)
      BY <1>2
    <2> DEFINE h == [s \in Small(n + 1) |-> PartialSum(f, g, s)]
    <2>2. ASSUME NEW s \in Small(n + 1), s # {}
          PROVE  /\ Pick(s) \in S /\ f[Pick(s)] \in Nat
                 /\ s \ {Pick(s)} \in Small(n) /\ s \ {Pick(s)} \in Small(n + 1)
      <3>1. Pick(s) \in s
        BY <2>2, PickIn
      <3>2. Cardinality(s \ {Pick(s)}) = Cardinality(s) - 1
        BY <1>0, <3>1, FS_RemoveElement
      <3> QED
        BY <1>0, <3>1, <3>2 DEF Numbers
    <2>3. h \in [Small(n + 1) -> Nat]
      BY <2>1, <2>2 DEF PartialSum
    <2>4. ASSUME NEW s \in Small(n + 1) PROVE h[s] = PartialSum(f, h, s)
      <3>1. CASE s = {}
        BY <3>1 DEF PartialSum
      <3>2. CASE s # {}
        <4>1. h[s \ {Pick(s)}] = g[s \ {Pick(s)}]
          BY <2>1, <2>2, <3>2
        <4> QED
          BY <3>2, <4>1 DEF PartialSum
      <3> QED
        BY <3>1, <3>2
    <2>5. Upto(n + 1, h)
      BY <2>3, <2>4
    <2> HIDE DEF h, Upto
    <2> QED
      BY <2>5
  <1>3. Nat \subseteq Good
    <2> HIDE DEF Good
    <2> QED
      BY <1>1, <1>2, NumbersByInduction
  <1>4. Cardinality(S) \in Nat /\ Small(Cardinality(S)) = SUBSET S
    BY <1>0, FS_Subset, FS_CardinalityType
  <1>5. PICK g : Upto(Cardinality(S), g)
    BY <1>3, <1>4
  <1>6. g \in [SUBSET S -> Nat] /\ \A s \in SUBSET S : g[s] = PartialSum(f, g, s)
    BY <1>4, <1>5
  <1> QED
    BY <1>6 DEF AreSums

\* ... and only one, so SumFunctionOnSet is what any solution yields for the whole set.
LEMMA PartialSumsUnique ==
    ASSUME NEW S, IsFiniteSet(S), NEW f, NEW g, NEW h, AreSums(f, S, g), AreSums(f, S, h)
    PROVE  g = h
  <1> DEFINE P == {s \in SUBSET S : g[s] = h[s]}
  <1>1. \A s \in SUBSET S : g[s] = PartialSum(f, g, s) /\ h[s] = PartialSum(f, h, s)
    BY DEF AreSums
  <1>2. {} \in P
    BY <1>1 DEF PartialSum
  <1>3. ASSUME NEW s \in SUBSET S, s # {}, \A x \in s : s \ {x} \in P PROVE s \in P
    <2>1. g[s \ {Pick(s)}] = h[s \ {Pick(s)}]
      BY <1>3, PickIn
    <2> QED
      BY <1>1, <1>3, <2>1 DEF PartialSum
  <1>4. SUBSET S \subseteq P
    <2> HIDE DEF P
    <2> QED
      BY <1>2, <1>3, SubsetsByInduction
  <1> QED
    BY <1>4 DEF AreSums

LEMMA SumBySolution ==
    ASSUME NEW S, IsFiniteSet(S), NEW f, NEW g, AreSums(f, S, g)
    PROVE  SumFunctionOnSet(f, S) = g[S]
  <1>1. AreSums(f, S, CHOOSE h : AreSums(f, S, h))
    OBVIOUS
  <1>2. (CHOOSE h : AreSums(f, S, h)) = g
    BY <1>1, PartialSumsUnique
  <1> QED
    BY <1>2, SumAsPartialSums

----------------------------------------------------------------------------
(* What the invariants use.                                                 *)

\* A sum of numbers is a number.
LEMMA SumIsNumber ==
    ASSUME NEW S, IsFiniteSet(S), NEW f, Numbers(f, S)
    PROVE  SumFunctionOnSet(f, S) \in Nat
  <1>1. PICK g \in [SUBSET S -> Nat] : AreSums(f, S, g)
    BY PartialSumsExist
  <1> QED
    BY <1>1, SumBySolution

\* When no summand is larger, neither is the sum; in particular equal summands
\* have equal sums.
LEMMA SumMonotone ==
    ASSUME NEW S, IsFiniteSet(S), NEW f, NEW g, Numbers(f, S), Numbers(g, S),
           \A x \in S : f[x] <= g[x]
    PROVE  SumFunctionOnSet(f, S) <= SumFunctionOnSet(g, S)
  <1>1. PICK F \in [SUBSET S -> Nat] : AreSums(f, S, F)
    BY PartialSumsExist
  <1>2. PICK G \in [SUBSET S -> Nat] : AreSums(g, S, G)
    BY PartialSumsExist
  <1>3. \A s \in SUBSET S : F[s] = PartialSum(f, F, s) /\ G[s] = PartialSum(g, G, s)
    BY <1>1, <1>2 DEF AreSums
  <1> DEFINE P == {s \in SUBSET S : F[s] <= G[s]}
  <1>4. {} \in P
    <2>1. F[{}] = 0 /\ G[{}] = 0
      BY <1>3 DEF PartialSum
    <2> QED
      BY <2>1
  <1>5. ASSUME NEW s \in SUBSET S, s # {}, \A x \in s : s \ {x} \in P PROVE s \in P
    <2>1. Pick(s) \in s /\ s \ {Pick(s)} \in SUBSET S
      BY <1>5, PickIn
    <2>2. /\ F[s] = f[Pick(s)] + F[s \ {Pick(s)}] /\ G[s] = g[Pick(s)] + G[s \ {Pick(s)}]
          /\ F[s \ {Pick(s)}] <= G[s \ {Pick(s)}]
      BY <1>3, <1>5, <2>1 DEF PartialSum
    <2>3. f[Pick(s)] \in Nat /\ g[Pick(s)] \in Nat /\ f[Pick(s)] <= g[Pick(s)]
      BY <2>1 DEF Numbers
    <2> QED
      BY <2>1, <2>2, <2>3
  <1>6. SUBSET S \subseteq P
    <2> HIDE DEF P
    <2> QED
      BY <1>4, <1>5, SubsetsByInduction
  <1> QED
    BY <1>1, <1>2, <1>6, SumBySolution

\* A change of one summand changes the sum by the same.
LEMMA SumOfOneChange ==
    ASSUME NEW S, IsFiniteSet(S), NEW f, NEW g, Numbers(f, S), Numbers(g, S),
           NEW i \in S, \A x \in S \ {i} : g[x] = f[x]
    PROVE  SumFunctionOnSet(g, S) + f[i] = SumFunctionOnSet(f, S) + g[i]
  <1>1. PICK F \in [SUBSET S -> Nat] : AreSums(f, S, F)
    BY PartialSumsExist
  <1>2. PICK G \in [SUBSET S -> Nat] : AreSums(g, S, G)
    BY PartialSumsExist
  <1>3. \A s \in SUBSET S : F[s] = PartialSum(f, F, s) /\ G[s] = PartialSum(g, G, s)
    BY <1>1, <1>2 DEF AreSums
  <1> DEFINE P == {s \in SUBSET S : IF i \in s THEN G[s] + f[i] = F[s] + g[i] ELSE G[s] = F[s]}
  <1>4. {} \in P
    BY <1>3 DEF PartialSum
  <1>5. ASSUME NEW s \in SUBSET S, s # {}, \A x \in s : s \ {x} \in P PROVE s \in P
    <2> DEFINE p == Pick(s)
               r == s \ {p}
    <2>1. p \in s /\ r \in SUBSET S /\ r \in P
      BY <1>5, PickIn
    <2>2. F[s] = f[p] + F[r] /\ G[s] = g[p] + G[r]
      BY <1>3, <1>5 DEF PartialSum
    <2>3. f[p] \in Nat /\ g[p] \in Nat /\ f[i] \in Nat /\ g[i] \in Nat /\ F[r] \in Nat /\ G[r] \in Nat
      BY <2>1 DEF Numbers
    <2>4. CASE i = p
      <3>1. i \notin r /\ i \in s /\ G[r] = F[r]
        BY <2>1, <2>4
      <3> QED
        BY <2>2, <2>3, <2>4, <3>1
    <2>5. CASE i # p /\ i \in s
      <3>1. i \in r /\ g[p] = f[p] /\ G[r] + f[i] = F[r] + g[i]
        BY <2>1, <2>5
      <3> HIDE DEF p, r
      <3>2. G[s] + f[i] = F[s] + g[i]
        BY <2>2, <2>3, <3>1
      <3> QED
        BY <2>5, <3>2
    <2>6. CASE i # p /\ i \notin s
      <3>1. i \notin r /\ g[p] = f[p] /\ G[r] = F[r]
        BY <2>1, <2>6
      <3> QED
        BY <2>2, <2>6, <3>1
    <2> QED
      BY <2>4, <2>5, <2>6
  <1>6. SUBSET S \subseteq P
    <2> HIDE DEF P
    <2> QED
      BY <1>4, <1>5, SubsetsByInduction
  <1>7. G[S] + f[i] = F[S] + g[i]
    BY <1>6
  <1> QED
    BY <1>1, <1>2, <1>7, SumBySolution

\* A sum of zeros is zero.
LEMMA SumOfZeros ==
    ASSUME NEW S, IsFiniteSet(S), NEW f, \A x \in S : f[x] = 0
    PROVE  SumFunctionOnSet(f, S) = 0
  <1> DEFINE g == [s \in SUBSET S |-> 0]
  <1>1. \A s \in SUBSET S : PartialSum(f, g, s) = 0
    <2> TAKE s \in SUBSET S
    <2>1. s # {} => Pick(s) \in s
      BY PickIn
    <2> QED
      BY <2>1 DEF PartialSum
  <1>2. AreSums(f, S, g)
    BY <1>1 DEF AreSums
  <1> QED
    BY <1>2, SumBySolution

----------------------------------------------------------------------------
(* Sequences.                                                               *)

\* Induction over sequences, by one more element at the end.
LEMMA SequencesByInduction ==
    ASSUME NEW S, NEW P, <<>> \in P,
           \A s \in Seq(S) : \A c \in S : s \in P => Append(s, c) \in P
    PROVE  Seq(S) \subseteq P
  <1> DEFINE Good == {n \in Nat : \A s \in Seq(S) : Len(s) = n => s \in P}
  <1>1. 0 \in Good
    <2>1. \A s \in Seq(S) : Len(s) = 0 => s = <<>>
      OBVIOUS
    <2> QED
      BY <2>1
  <1>2. ASSUME NEW n \in Nat, n \in Good PROVE n + 1 \in Good
    <2> SUFFICES ASSUME NEW s \in Seq(S), Len(s) = n + 1 PROVE s \in P
      OBVIOUS
    <2> DEFINE f == SubSeq(s, 1, n)
               c == s[n + 1]
    <2>1. f \in Seq(S) /\ c \in S /\ Len(f) = n /\ s = Append(f, c)
      OBVIOUS
    <2> HIDE DEF f, c
    <2> QED
      BY <1>2, <2>1
  <1>3. Nat \subseteq Good
    <2> HIDE DEF Good
    <2> QED
      BY <1>1, <1>2, NumbersByInduction
  <1> QED
    BY <1>3

\* The sequences put together one by one, as an equation.
AreFlat(seqs, n, g) == g = [i \in 1..n |-> IF i = 1 THEN seqs[i] ELSE g[i - 1] \o seqs[i]]

LEMMA FlatExists ==
    ASSUME NEW seqs, NEW n \in Nat PROVE \E g : AreFlat(seqs, n, g)
  <1> DEFINE Value(g, i) == IF i = 1 THEN seqs[i] ELSE g[i - 1] \o seqs[i]
             Good == {k \in Nat : \E g : AreFlat(seqs, k, g)}
  <1>A. ASSUME NEW k, NEW g PROVE AreFlat(seqs, k, g) <=> g = [i \in 1..k |-> Value(g, i)]
    BY Zenon DEF AreFlat
  <1>B. ASSUME NEW g, NEW h, NEW i, i = 1 \/ g[i - 1] = h[i - 1] PROVE Value(g, i) = Value(h, i)
    BY <1>B, Zenon
  <1> HIDE DEF Value
  <1>1. 0 \in Good
    <2> DEFINE g == [i \in 1..0 |-> 0]
    <2>1. g = [i \in 1..0 |-> Value(g, i)]
      OBVIOUS
    <2> QED
      BY <2>1, <1>A
  <1>2. ASSUME NEW k \in Nat, k \in Good PROVE k + 1 \in Good
    <2>1. PICK g : AreFlat(seqs, k, g)
      BY <1>2
    <2> DEFINE h == [i \in 1..(k + 1) |-> IF i = k + 1 THEN Value(g, k + 1) ELSE g[i]]
    <2>2. /\ \A i \in 1..(k + 1) : i = k + 1 \/ i \in 1..k
          /\ \A i \in 1..k : i # k + 1 /\ i \in 1..(k + 1)
          /\ \A i \in 1..(k + 1) : i = 1 \/ i - 1 \in 1..k
          /\ k + 1 \in 1..(k + 1)
      OBVIOUS
    <2>3. (\A i \in 1..k : h[i] = g[i]) /\ h[k + 1] = Value(g, k + 1)
      BY <2>2
    <2>4. g = [i \in 1..k |-> Value(g, i)]
      BY <2>1, <1>A
    <2>5. h = [i \in 1..(k + 1) |-> h[i]]
      OBVIOUS
    <2> HIDE DEF h
    <2>6. ASSUME NEW i \in 1..(k + 1) PROVE Value(g, i) = Value(h, i)
      BY <1>B, <2>2, <2>3
    <2>7. ASSUME NEW i \in 1..(k + 1) PROVE h[i] = Value(h, i)
      <3>1. CASE i = k + 1
        BY <2>2, <2>3, <2>6, <3>1, Zenon
      <3>2. CASE i \in 1..k
        BY <2>3, <2>4, <2>6, <3>2, Zenon
      <3> QED
        BY <2>2, <3>1, <3>2, Zenon
    <2>8. h = [i \in 1..(k + 1) |-> Value(h, i)]
      BY <2>5, <2>7, Zenon
    <2> QED
      BY <2>8, <1>A
  <1> HIDE DEF Good
  <1>3. Nat \subseteq Good
    BY <1>1, <1>2, NumbersByInduction
  <1> QED
    BY <1>3 DEF Good

=============================================================================
