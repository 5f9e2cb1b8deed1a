------------------------------ MODULE SetLemmas ------------------------------
(***************************************************************************)
(* Facts about finite sets and their extrema that the proofs about the     *)
(* generator and the report need: Max and Min of FiniteSetsExt are defined *)
(* by CHOOSE, and these lemmas say when there is something to choose.      *)
(***************************************************************************)
EXTENDS Integers, FiniteSets, FiniteSetsExt, FiniteSetTheorems, TLAPS

\* A nonempty set of natural numbers has a least element.
LEMMA NatLeast ==
  ASSUME NEW S \in SUBSET Nat, S # {}
  PROVE  \E x \in S : \A y \in S : x <= y
<1>1. \E x \in S : \A y \in S : ~ (<<y, x>> \in OpToRel(<, Nat))
  BY NatLessThanWellFounded, WFMin
<1>2. PICK x \in S : \A y \in S : ~ (<<y, x>> \in OpToRel(<, Nat))
  BY <1>1
<1>3. ASSUME NEW y \in S PROVE x <= y
  <2>1. <<y, x>> \notin OpToRel(<, Nat)
    BY <1>2
  <2> QED
    BY <2>1 DEF OpToRel
<1> QED
  BY <1>3

\* A nonempty set of natural numbers with an upper bound has a greatest element:
\* the least of its bounds.
LEMMA NatGreatest ==
  ASSUME NEW S \in SUBSET Nat, S # {}, NEW b \in Nat, \A x \in S : x <= b
  PROVE  \E x \in S : \A y \in S : y <= x
<1> DEFINE Bounds == {u \in Nat : \A x \in S : x <= u}
<1>1. PICK u \in Bounds : \A v \in Bounds : u <= v
  <2>1. Bounds \in SUBSET Nat /\ Bounds # {}
    OBVIOUS
  <2> HIDE DEF Bounds
  <2> QED
    BY <2>1, NatLeast
<1>2. u \in S
  <2> SUFFICES ASSUME u \notin S
               PROVE  FALSE
    OBVIOUS
  <2>1. \A x \in S : x <= u - 1
    OBVIOUS
  <2>2. u - 1 \in Nat
    <3>1. PICK x \in S : TRUE
      OBVIOUS
    <3> QED
      BY <2>1, <3>1
  <2> QED
    BY <1>1, <2>1, <2>2
<1> QED
  BY <1>2

\* A finite set of natural numbers has an upper bound: a smallest part of it
\* without one could lose an element and still have none.
LEMMA FiniteNatBounded ==
  ASSUME NEW S \in SUBSET Nat, IsFiniteSet(S)
  PROVE  \E b \in Nat : \A x \in S : x <= b
<1> DEFINE Bounded(T) == \E b \in Nat : \A x \in T : x <= b
           Sizes == {Cardinality(T) : T \in {U \in SUBSET S : ~ Bounded(U)}}
<1> SUFFICES ASSUME ~ Bounded(S)
             PROVE  FALSE
  OBVIOUS
<1>1. \A T \in SUBSET S : IsFiniteSet(T) /\ Cardinality(T) \in Nat
  BY FS_Subset, FS_CardinalityType
<1>2. PICK T \in SUBSET S : ~ Bounded(T) /\ \A n \in Sizes : Cardinality(T) <= n
  <2>1. Sizes \in SUBSET Nat /\ Sizes # {}
    BY <1>1
  <2>2. PICK k \in Sizes : \A n \in Sizes : k <= n
    <3> HIDE DEF Sizes
    <3> QED
      BY <2>1, NatLeast
  <2> QED
    BY <2>2
<1>3. PICK x \in T : TRUE
  BY <1>2
<1>4. /\ T \ {x} \in SUBSET S
      /\ Cardinality(T \ {x}) = Cardinality(T) - 1
  BY <1>1, <1>2, <1>3, FS_RemoveElement
<1>5. Bounded(T \ {x})
  <2> SUFFICES ASSUME ~ Bounded(T \ {x})
               PROVE  FALSE
    OBVIOUS
  <2>1. Cardinality(T \ {x}) \in Sizes
    BY <1>4
  <2> HIDE DEF Sizes, Bounded
  <2> QED
    BY <1>1, <1>2, <1>4, <2>1
<1>6. PICK b \in Nat : \A y \in T \ {x} : y <= b
  BY <1>5
<1>7. x \in Nat
  BY <1>3
<1>8. \A y \in T : y <= b + x
  <2> TAKE y \in T
  <2>1. y \in Nat
    OBVIOUS
  <2> QED
    BY <1>6, <1>7, <2>1
<1>9. b + x \in Nat
  BY <1>6, <1>7
<1>10. Bounded(T)
  BY <1>8, <1>9
<1> QED
  BY <1>2, <1>10

\* Max picks the greatest element of a finite set of natural numbers.
LEMMA MaxOfNats ==
  ASSUME NEW S \in SUBSET Nat, S # {}, IsFiniteSet(S)
  PROVE  /\ Max(S) \in S
         /\ \A x \in S : x <= Max(S)
<1>1. PICK b \in Nat : \A x \in S : x <= b
  BY FiniteNatBounded
<1>2. \E x \in S : \A y \in S : y <= x
  BY <1>1, NatGreatest
<1>3. \E x \in S : \A y \in S : x >= y
  BY <1>2
<1>4. Max(S) \in S /\ \A y \in S : Max(S) >= y
  BY <1>3 DEF Max
<1> QED
  BY <1>4

\* Max of two natural numbers is one of them, and as large as the other.
LEMMA MaxOfTwo ==
  ASSUME NEW a \in Nat, NEW b \in Nat
  PROVE  /\ Max({a, b}) \in {a, b}
         /\ a <= Max({a, b}) /\ b <= Max({a, b})
<1>1. \E x \in {a, b} : \A y \in {a, b} : x >= y
  OBVIOUS
<1> QED
  BY <1>1 DEF Max

\* Min picks the least element of a set of natural numbers.
LEMMA MinOfNats ==
  ASSUME NEW S \in SUBSET Nat, S # {}
  PROVE  /\ Min(S) \in S
         /\ \A x \in S : Min(S) <= x
<1>1. \E x \in S : \A y \in S : x <= y
  BY NatLeast
<1> QED
  BY <1>1 DEF Min

\* A set whose elements are put in pens, none of them with more than k, has at most
\* k times as many elements as there are pens: a smallest set of pens that holds
\* more could lose a pen and still hold more.
LEMMA PensBound ==
  ASSUME NEW T, IsFiniteSet(T), NEW N, IsFiniteSet(N), NEW k \in Nat,
         NEW f \in [T -> N],
         \A n \in N : Cardinality({t \in T : f[t] = n}) <= k
  PROVE  Cardinality(T) <= k * Cardinality(N)
<1> DEFINE In(M) == {t \in T : f[t] \in M}
           Full(M) == Cardinality(In(M)) > k * Cardinality(M)
           Sizes == {Cardinality(M) : M \in {P \in SUBSET N : Full(P)}}
<1>1. \A M \in SUBSET N : IsFiniteSet(M) /\ Cardinality(M) \in Nat
  BY FS_Subset, FS_CardinalityType
<1>2. \A M \in SUBSET N : IsFiniteSet(In(M)) /\ Cardinality(In(M)) \in Nat
  <2> TAKE M \in SUBSET N
  <2>1. In(M) \in SUBSET T
    OBVIOUS
  <2> HIDE DEF In
  <2> QED
    BY <2>1, FS_Subset, FS_CardinalityType
<1>3. In(N) = T
  OBVIOUS
<1> SUFFICES ASSUME Full(N)
             PROVE  FALSE
  <2>1. N \in SUBSET N
    OBVIOUS
  <2>2. Cardinality(T) \in Nat /\ k * Cardinality(N) \in Int
    BY <1>1, <1>2, <1>3, <2>1
  <2> QED
    BY <1>3, <2>2
<1>4. PICK M \in SUBSET N : Full(M) /\ \A n \in Sizes : Cardinality(M) <= n
  <2>1. Sizes \in SUBSET Nat /\ Sizes # {}
    BY <1>1
  <2>2. PICK s \in Sizes : \A n \in Sizes : s <= n
    <3> HIDE DEF Sizes
    <3> QED
      BY <2>1, NatLeast
  <2> QED
    BY <2>2
<1>5. PICK n \in M : TRUE
  <2> SUFFICES ASSUME M = {}
               PROVE  FALSE
    OBVIOUS
  <2>1. In(M) = {}
    OBVIOUS
  <2>2. Cardinality(In(M)) = 0 /\ Cardinality(M) = 0
    BY <2>1, FS_EmptySet
  <2>3. ~ Full(M)
    BY <2>2
  <2> HIDE DEF Full
  <2> QED
    BY <1>4, <2>3
<1> DEFINE L == M \ {n}
<1>6. L \in SUBSET N /\ Cardinality(L) = Cardinality(M) - 1
  BY <1>1, <1>4, <1>5, FS_RemoveElement
<1>7. ~ Full(L)
  <2> SUFFICES ASSUME Full(L)
               PROVE  FALSE
    OBVIOUS
  <2>1. Cardinality(L) \in Sizes
    BY <1>6
  <2> HIDE DEF Sizes, Full, L
  <2> QED
    BY <1>1, <1>4, <1>6, <2>1
<1> DEFINE Pen == {t \in T : f[t] = n}
<1>8. In(M) = In(L) \union Pen /\ In(L) \intersect Pen = {}
  BY <1>5
<1>9. IsFiniteSet(Pen) /\ Cardinality(Pen) \in Nat /\ Cardinality(Pen) <= k
  <2>1. Pen \in SUBSET T
    OBVIOUS
  <2>2. n \in N
    BY <1>4, <1>5
  <2>3. Cardinality(Pen) <= k
    BY <2>2
  <2> HIDE DEF Pen
  <2> QED
    BY <2>1, <2>3, FS_Subset, FS_CardinalityType
<1>10. Cardinality(In(M)) = Cardinality(In(L)) + Cardinality(Pen)
  <2>1. IsFiniteSet(In(L)) /\ Cardinality(In(L)) \in Nat
    BY <1>2, <1>6
  <2> HIDE DEF In, Pen, L
  <2>2. Cardinality(In(L) \union Pen)
          = Cardinality(In(L)) + Cardinality(Pen) - Cardinality(In(L) \intersect Pen)
    BY <1>9, <2>1, FS_Union
  <2>3. Cardinality(In(L) \intersect Pen) = 0
    BY <1>8, FS_EmptySet
  <2>4. Cardinality(In(M)) = Cardinality(In(L)) + Cardinality(Pen) - 0
    BY <1>8, <2>2, <2>3
  <2> QED
    BY <1>9, <2>1, <2>4
<1>11. k * Cardinality(M) = k * Cardinality(L) + k
  <2>1. Cardinality(M) \in Nat /\ Cardinality(L) \in Nat
    BY <1>1, <1>4, <1>6
  <2>2. Cardinality(M) = Cardinality(L) + 1
    BY <1>6, <2>1
  <2> HIDE DEF L
  <2> QED
    BY <2>1, <2>2
<1>12. Cardinality(In(M)) \in Nat /\ Cardinality(In(L)) \in Nat
       /\ k * Cardinality(L) \in Int /\ k * Cardinality(M) \in Int
  <2>1. Cardinality(M) \in Nat /\ Cardinality(L) \in Nat
    BY <1>1, <1>6
  <2>2. Cardinality(In(M)) \in Nat /\ Cardinality(In(L)) \in Nat
    BY <1>2, <1>6
  <2> HIDE DEF In, L
  <2> QED
    BY <2>1, <2>2
<1>13. Cardinality(In(L)) <= k * Cardinality(L) /\ Cardinality(In(M)) > k * Cardinality(M)
  BY <1>4, <1>7, <1>12
<1> HIDE DEF In, L, Pen
<1> QED
  BY <1>9, <1>10, <1>11, <1>12, <1>13

=============================================================================
