----------------------------- MODULE NaturalSets -----------------------------
(* Facts about the least and the greatest element of a set of naturals,    *)
(* induction over one, and sums over a finite set.                         *)
EXTENDS Integers, FiniteSetsExt, FiniteSetTheorems, WellFoundedInduction, TLAPS

\* A non-empty set of naturals has a least element, and Min is it.
LEMMA MinOfNaturals ==
  ASSUME NEW S \in SUBSET Nat, S # {}
  PROVE  Min(S) \in S /\ \A y \in S : Min(S) <= y
<1>1. PICK x \in S : \A y \in S : <<y, x>> \notin OpToRel(<, Nat)
  BY WFMin, NatLessThanWellFounded, Zenon
<1>2. \A y \in S : ~(y < x)
  BY <1>1, Zenon DEF OpToRel
<1>3. \A y \in S : x <= y
  BY <1>2
<1>4. QED
  BY <1>3 DEF Min

\* A non-empty set of naturals up to n has a greatest element, and Max is it.
LEMMA MaxOfInterval ==
  ASSUME NEW n \in Nat, NEW S \in SUBSET (0..n), S # {}
  PROVE  Max(S) \in S /\ \A y \in S : y <= Max(S)
<1>1. PICK T : T = {m \in 0..n : n - m \in S}
  OBVIOUS
<1>2. T \in SUBSET Nat /\ T # {}
  <2>1. PICK s : s \in S
    OBVIOUS
  <2>2. s \in 0..n /\ n - s \in 0..n /\ n - (n - s) = s
    BY <2>1
  <2>3. n - s \in T
    BY <1>1, <2>1, <2>2
  <2>4. QED
    BY <1>1, <2>3
<1>3. Min(T) \in T /\ \A t \in T : Min(T) <= t
  BY <1>2, MinOfNaturals
<1>4. PICK x \in S : Min(T) = n - x /\ x \in 0..n
  <2>1. Min(T) \in 0..n /\ n - Min(T) \in S
    BY <1>1, <1>3
  <2>2. n - Min(T) \in 0..n /\ Min(T) = n - (n - Min(T))
    BY <2>1
  <2>3. QED
    BY <2>1, <2>2
<1>5. ASSUME NEW y \in S PROVE y <= x
  <2>1. y \in 0..n /\ n - y \in 0..n /\ n - (n - y) = y
    OBVIOUS
  <2>2. n - y \in T
    BY <1>1, <2>1
  <2>3. n - x <= n - y
    BY <1>3, <1>4, <2>2
  <2>4. QED
    BY <1>4, <2>1, <2>3
<1>6. QED
  BY <1>5 DEF Max

-----------------------------------------------------------------------------
(* Induction, stated about a set of naturals instead of a predicate: what  *)
(* fails for some natural fails for a least one.                           *)

LEMMA InductionOnSet ==
  ASSUME NEW T, 0 \in T, \A n \in Nat : n \in T => n + 1 \in T
  PROVE  \A n \in Nat : n \in T
<1> SUFFICES ASSUME NEW m \in Nat, m \notin T PROVE FALSE
  OBVIOUS
<1> DEFINE Failing == Nat \ T
<1>1. Failing \in SUBSET Nat /\ Failing # {}
  OBVIOUS
<1>2. PICK least \in Failing : \A y \in Failing : least <= y
  BY <1>1, MinOfNaturals
<1>3. least # 0 /\ least - 1 \in Nat
  OBVIOUS
<1>4. least - 1 \in T
  BY <1>2, <1>3
<1>5. (least - 1) + 1 \in T
  BY <1>3, <1>4
<1>6. QED
  BY <1>3, <1>5

\* In a set of n naturals there is, for every k below n, an element with exactly
\* k smaller ones.
Smaller(S, m) == {x \in S : x < m}
LEMMA RankExists ==
  ASSUME NEW N \in Nat, NEW S \in SUBSET (0..N)
  PROVE  /\ IsFiniteSet(S) /\ Cardinality(S) \in Nat
         /\ \A k \in Nat : k < Cardinality(S) => \E m \in S : Cardinality(Smaller(S, m)) = k
<1> DEFINE Good(U) ==
             \A k \in Nat : k < Cardinality(U) => \E m \in U : Cardinality(Smaller(U, m)) = k
           T == {n \in Nat : \A U \in SUBSET (0..N) : Cardinality(U) = n => Good(U)}
<1>0. \A U \in SUBSET (0..N) : IsFiniteSet(U) /\ Cardinality(U) \in Nat
  <2>1. IsFiniteSet(0..N)
    BY FS_Interval
  <2>2. QED
    BY <2>1, FS_Subset, FS_CardinalityType
<1>1. 0 \in T
  OBVIOUS
<1>2. ASSUME NEW n \in Nat, n \in T PROVE n + 1 \in T
  <2>1. ASSUME NEW U \in SUBSET (0..N), Cardinality(U) = n + 1 PROVE Good(U)
    <3>1. U # {}
      BY <2>1, FS_EmptySet
    <3>2. PICK x \in U : \A y \in U : y <= x
      BY <3>1, MaxOfInterval
    <3>3. PICK R \in SUBSET (0..N) : R = U \ {x}
      OBVIOUS
    <3>4. Cardinality(R) = n
      <4>1. Cardinality(U \ {x}) = Cardinality(U) - 1
        BY <1>0, FS_RemoveElement
      <4>2. QED
        BY <2>1, <3>3, <4>1
    <3>5. Good(R)
      BY <1>2, <3>4
    <3>6. /\ Smaller(U, x) = R
          /\ \A m \in R : Smaller(U, m) = Smaller(R, m)
      <4>1. \A y \in U : y \in Int /\ (y < x <=> y # x)
        BY <3>2
      <4>2. Smaller(U, x) = R
        BY <3>3, <4>1 DEF Smaller
      <4>3. \A m \in R : ~(x < m)
        BY <3>2, <3>3
      <4>4. ASSUME NEW m \in R PROVE Smaller(U, m) = Smaller(R, m)
        BY <3>3, <4>3 DEF Smaller
      <4>5. QED
        BY <4>2, <4>4
    <3>7. ASSUME NEW k \in Nat, k < n + 1
          PROVE  \E m \in U : Cardinality(Smaller(U, m)) = k
      <4>1. CASE k = n
        BY <3>4, <3>6, <4>1
      <4>2. CASE k # n
        <5>1. k < n
          BY <3>7, <4>2
        <5>2. PICK m \in R : Cardinality(Smaller(R, m)) = k
          BY <3>4, <3>5, <5>1
        <5>3. QED
          BY <3>3, <3>6, <5>2
      <4>3. QED
        BY <4>1, <4>2
    <3>8. QED
      BY <2>1, <3>7
  <2> HIDE DEF Good
  <2>2. QED
    BY <2>1
<1>3. \A n \in Nat : n \in T
  <2> HIDE DEF T
  <2>1. QED
    BY <1>1, <1>2, InductionOnSet
<1>4. Good(S)
  <2> HIDE DEF Good
  <2>1. QED
    BY <1>0, <1>3
<1>5. QED
  BY <1>0, <1>4

-----------------------------------------------------------------------------
(* Sums over a finite set, one chosen element after another, as            *)
(* MapThenSumSet computes them.                                            *)

Chosen(s) == CHOOSE x \in s : TRUE
SumStep(f, g, s) == IF s = {} THEN 0 ELSE f[Chosen(s)] + g[s \ {Chosen(s)}]

\* g gives the sum of f over every subset of S.
Sums(f, g, S) == g = [s \in SUBSET S |-> SumStep(f, g, s)]

\* Without its chosen element, a finite set is smaller by one.
LEMMA ChosenRemoved ==
  ASSUME NEW S, IsFiniteSet(S), NEW s \in SUBSET S
  PROVE  /\ IsFiniteSet(s) /\ Cardinality(s) \in Nat /\ Cardinality(s) <= Cardinality(S)
         /\ s # {} => /\ Chosen(s) \in s /\ Chosen(s) \in S /\ s \ {Chosen(s)} \in SUBSET S
                      /\ Cardinality(s \ {Chosen(s)}) = Cardinality(s) - 1
                      /\ Cardinality(s) # 0
<1>1. IsFiniteSet(s) /\ Cardinality(s) \in Nat /\ Cardinality(s) <= Cardinality(S)
  BY FS_Subset, FS_CardinalityType
<1>2. ASSUME s # {}
      PROVE  Chosen(s) \in s /\ Chosen(s) \in S /\ s \ {Chosen(s)} \in SUBSET S
  BY <1>2 DEF Chosen
<1>3. ASSUME s # {}
      PROVE  Cardinality(s \ {Chosen(s)}) = Cardinality(s) - 1 /\ Cardinality(s) # 0
  BY <1>1, <1>2, <1>3, FS_RemoveElement, FS_EmptySet
<1>4. QED
  BY <1>1, <1>2, <1>3

LEMMA SumExists ==
  ASSUME NEW S, IsFiniteSet(S), NEW f
  PROVE  \E g : Sums(f, g, S)
<1> DEFINE UpTo(g, n) ==
             g = [s \in SUBSET S |-> IF Cardinality(s) <= n THEN SumStep(f, g, s) ELSE 0]
           T == {n \in Nat : \E g : UpTo(g, n)}
<1>1. 0 \in T
  <2> DEFINE g == [s \in SUBSET S |-> 0]
  <2>1. ASSUME NEW s \in SUBSET S, Cardinality(s) <= 0 PROVE SumStep(f, g, s) = 0
    <3>1. Cardinality(s) \in Nat /\ (s # {} => Cardinality(s) # 0)
      BY ChosenRemoved
    <3>2. s = {}
      BY <2>1, <3>1
    <3>3. QED
      BY <3>2 DEF SumStep
  <2>2. g = [s \in SUBSET S |-> IF Cardinality(s) <= 0 THEN SumStep(f, g, s) ELSE 0]
    <3> HIDE DEF g
    <3>1. g = [s \in SUBSET S |-> 0]
      BY DEF g
    <3>2. QED
      BY <2>1, <3>1
  <2>3. QED
    BY <2>2
<1>2. ASSUME NEW n \in Nat, n \in T PROVE n + 1 \in T
  <2>1. PICK g : UpTo(g, n)
    BY <1>2
  <2> DEFINE h == [s \in SUBSET S |-> IF Cardinality(s) <= n + 1 THEN SumStep(f, g, s) ELSE 0]
  <2>2. ASSUME NEW s \in SUBSET S, Cardinality(s) <= n + 1
        PROVE  SumStep(f, g, s) = SumStep(f, h, s)
    <3>1. CASE s = {}
      BY <3>1 DEF SumStep
    <3>2. CASE s # {}
      <4> DEFINE r == s \ {Chosen(s)}
      <4>1. r \in SUBSET S /\ Cardinality(r) <= n /\ Cardinality(r) <= n + 1
        BY <2>2, <3>2, ChosenRemoved
      <4> HIDE DEF r
      <4>2. g[r] = SumStep(f, g, r) /\ h[r] = SumStep(f, g, r)
        BY <2>1, <4>1
      <4>3. QED
        BY <3>2, <4>2 DEF SumStep, r
    <3>3. QED
      BY <3>1, <3>2
  <2>3. UpTo(h, n + 1)
    <3>1. h = [s \in SUBSET S |-> IF Cardinality(s) <= n + 1 THEN SumStep(f, g, s) ELSE 0]
      OBVIOUS
    <3> HIDE DEF h
    <3>2. QED
      BY <2>2, <3>1
  <2> HIDE DEF h, UpTo
  <2>4. QED
    BY <2>3
<1>3. \A n \in Nat : n \in T
  <2> HIDE DEF T
  <2>1. QED
    BY <1>1, <1>2, InductionOnSet
<1>4. PICK g : UpTo(g, Cardinality(S))
  BY <1>3, FS_CardinalityType
<1>5. g = [s \in SUBSET S |-> SumStep(f, g, s)]
  BY <1>4, ChosenRemoved
<1>6. QED
  BY <1>5 DEF Sums

\* A sum of naturals is a natural, and where f2 exceeds f1 only at a, the sum of
\* f2 exceeds that of f1 by no more than the difference there.
LEMMA SumGrowth ==
  ASSUME NEW S, IsFiniteSet(S), NEW a \in S,
         NEW f1 \in [S -> Nat], NEW f2 \in [S -> Nat],
         \A x \in S : x # a => f2[x] <= f1[x],
         NEW g1, Sums(f1, g1, S), NEW g2, Sums(f2, g2, S)
  PROVE  /\ g1[S] \in Nat /\ g2[S] \in Nat
         /\ g2[S] <= g1[S] + (f2[a] - f1[a])
<1> DEFINE Good(s) == /\ g1[s] \in Nat /\ g2[s] \in Nat
                      /\ a \notin s => g2[s] <= g1[s]
                      /\ a \in s => g2[s] <= g1[s] + (f2[a] - f1[a])
           T == {n \in Nat : \A s \in SUBSET S : Cardinality(s) = n => Good(s)}
<1>0. \A s \in SUBSET S : g1[s] = SumStep(f1, g1, s) /\ g2[s] = SumStep(f2, g2, s)
  BY DEF Sums
<1>1. 0 \in T
  <2>1. ASSUME NEW s \in SUBSET S, Cardinality(s) = 0 PROVE Good(s)
    <3>1. s = {}
      BY <2>1, ChosenRemoved
    <3>2. g1[s] = 0 /\ g2[s] = 0
      BY <1>0, <3>1 DEF SumStep
    <3>3. QED
      BY <3>1, <3>2
  <2> HIDE DEF Good
  <2>2. QED
    BY <2>1
<1>2. ASSUME NEW n \in Nat, n \in T PROVE n + 1 \in T
  <2>1. ASSUME NEW s \in SUBSET S, Cardinality(s) = n + 1 PROVE Good(s)
    <3> DEFINE c == Chosen(s)
               r == s \ {c}
    <3>1. s # {}
      BY <2>1, FS_EmptySet
    <3>2. c \in s /\ c \in S /\ r \in SUBSET S /\ Cardinality(r) = n /\ c \notin r
      BY <2>1, <3>1, ChosenRemoved
    <3>3. Good(r)
      BY <1>2, <3>2
    <3>4. g1[s] = f1[c] + g1[r] /\ g2[s] = f2[c] + g2[r]
      BY <1>0, <3>1 DEF SumStep
    <3>5. f1[c] \in Nat /\ f2[c] \in Nat /\ f1[a] \in Nat /\ f2[a] \in Nat
      BY <3>2
    <3>6. a \in s <=> a = c \/ a \in r
      BY <3>2
    <3> HIDE DEF c, r
    <3>7. CASE a = c
      BY <3>2, <3>3, <3>4, <3>5, <3>6, <3>7
    <3>8. CASE a # c
      <4>1. f2[c] <= f1[c]
        BY <3>2, <3>8
      <4>2. QED
        BY <3>3, <3>4, <3>5, <3>6, <3>8, <4>1
    <3>9. QED
      BY <3>7, <3>8
  <2> HIDE DEF Good
  <2>2. QED
    BY <2>1
<1>3. \A n \in Nat : n \in T
  <2> HIDE DEF T
  <2>1. QED
    BY <1>1, <1>2, InductionOnSet
<1>4. Good(S)
  <2> HIDE DEF Good
  <2>1. QED
    BY <1>3, FS_CardinalityType
<1>5. QED
  BY <1>4

\* A smaller function has a smaller sum.
LEMMA SumMonotone ==
  ASSUME NEW S, IsFiniteSet(S),
         NEW f1 \in [S -> Nat], NEW f2 \in [S -> Nat],
         \A x \in S : f2[x] <= f1[x],
         NEW g1, Sums(f1, g1, S), NEW g2, Sums(f2, g2, S)
  PROVE  g1[S] \in Nat /\ g2[S] \in Nat /\ g2[S] <= g1[S]
<1>1. CASE S = {}
  <2>1. g1[S] = 0 /\ g2[S] = 0
    BY <1>1 DEF Sums, SumStep
  <2>2. QED
    BY <2>1
<1>2. CASE S # {}
  <2>1. PICK a : a \in S
    BY <1>2
  <2>2. /\ g1[S] \in Nat /\ g2[S] \in Nat
        /\ g2[S] <= g1[S] + (f2[a] - f1[a])
    BY <2>1, SumGrowth
  <2>3. f1[a] \in Nat /\ f2[a] \in Nat /\ f2[a] <= f1[a]
    BY <2>1
  <2>4. QED
    BY <2>2, <2>3
<1>3. QED
  BY <1>1, <1>2

LEMMA SumOfZeros ==
  ASSUME NEW S, IsFiniteSet(S), NEW f, \A x \in S : f[x] = 0,
         NEW g, Sums(f, g, S)
  PROVE  g[S] = 0
<1> DEFINE T == {n \in Nat : \A s \in SUBSET S : Cardinality(s) = n => g[s] = 0}
<1>0. \A s \in SUBSET S : g[s] = SumStep(f, g, s)
  BY DEF Sums
<1>1. 0 \in T
  <2>1. ASSUME NEW s \in SUBSET S, Cardinality(s) = 0 PROVE g[s] = 0
    <3>1. s = {}
      BY <2>1, ChosenRemoved
    <3>2. QED
      BY <1>0, <3>1 DEF SumStep
  <2>2. QED
    BY <2>1
<1>2. ASSUME NEW n \in Nat, n \in T PROVE n + 1 \in T
  <2>1. ASSUME NEW s \in SUBSET S, Cardinality(s) = n + 1 PROVE g[s] = 0
    <3>1. s # {}
      BY <2>1, FS_EmptySet
    <3>2. Chosen(s) \in S /\ g[s \ {Chosen(s)}] = 0
      BY <1>2, <2>1, <3>1, ChosenRemoved
    <3>3. QED
      BY <1>0, <3>1, <3>2 DEF SumStep
  <2>2. QED
    BY <2>1
<1>3. \A n \in Nat : n \in T
  <2> HIDE DEF T
  <2>1. QED
    BY <1>1, <1>2, InductionOnSet
<1>4. QED
  BY <1>3, FS_CardinalityType

=============================================================================
