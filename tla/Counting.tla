------------------------------ MODULE Counting ------------------------------
(* Numbering the elements of a finite set by how many come no later: facts   *)
(* about the ranks by which positions are assigned.                          *)
EXTENDS Naturals, FiniteSets, FiniteSetTheorems, WellFoundedInduction, TLAPS

\* How many elements of S have a key up to that of s.
Rank(S, key, s) == Cardinality({t \in S : key[t] <= key[s]})

\* An interval of numbers has as many elements as its length.
LEMMA CountInterval ==
  ASSUME NEW n \in Nat
  PROVE  IsFiniteSet(1..n) /\ Cardinality(1..n) = n
  BY FS_Interval

\* A set of numbers has a least element.
LEMMA LeastNumber ==
  ASSUME NEW T, T \subseteq Nat, T # {}
  PROVE  \E x \in T : \A y \in T : x <= y
<1>1. PICK x \in T : \A y \in T : ~ (<<y, x>> \in OpToRel(<, Nat))
  BY WFMin, NatLessThanWellFounded
<1>2. \A y \in T : ~ (y < x)
  BY <1>1 DEF OpToRel
<1> QED
  BY <1>2

\* A bounded one has a greatest.
LEMMA GreatestNumber ==
  ASSUME NEW n \in Nat, NEW T, T \subseteq 0..n, T # {}
  PROVE  \E x \in T : \A y \in T : x >= y
<1> DEFINE Bounds == {b \in Nat : \A y \in T : y <= b}
<1>1. PICK x \in Bounds : \A y \in Bounds : x <= y
  <2>1. n \in Bounds
    OBVIOUS
  <2> HIDE DEF Bounds
  <2>2. Bounds \subseteq Nat
    BY DEF Bounds
  <2> QED
    BY <2>1, <2>2, LeastNumber
<1>2. ASSUME x \notin T PROVE FALSE
  <2>1. \A y \in T : y \in Nat /\ y <= x /\ y # x
    BY <1>2
  <2>2. x - 1 \in Nat
    <3>1. PICK y \in T : TRUE
      OBVIOUS
    <3>2. x \in Nat /\ y \in Nat /\ y <= x /\ y # x
      BY <2>1
    <3> QED
      BY <3>2
  <2>3. x - 1 \in Bounds
    BY <2>1, <2>2
  <2> QED
    BY <1>1, <2>2, <2>3
<1> QED
  BY <1>2

\* Ranks grow strictly with the keys.
LEMMA RankGrows ==
  ASSUME NEW S, IsFiniteSet(S), NEW key \in [S -> Nat],
         NEW s \in S, NEW u \in S, key[s] < key[u]
  PROVE  /\ Rank(S, key, s) \in Nat /\ Rank(S, key, u) \in Nat
         /\ Rank(S, key, s) < Rank(S, key, u)
<1> DEFINE A == {t \in S : key[t] <= key[s]}
           B == {t \in S : key[t] <= key[u]}
<1>1. A \in SUBSET B /\ B \in SUBSET S /\ u \in B /\ u \notin A
  OBVIOUS
<1>2. IsFiniteSet(B) /\ IsFiniteSet(A)
  BY <1>1, FS_Subset
<1>3. Cardinality(A) \in Nat /\ Cardinality(B) \in Nat
  BY <1>2, FS_CardinalityType
<1>4. Cardinality(A) <= Cardinality(B) /\ Cardinality(A) # Cardinality(B)
  <2> HIDE DEF A, B
  <2> QED
    BY <1>1, <1>2, FS_Subset
<1> QED
  BY <1>3, <1>4 DEF Rank

\* With one element to a key, the ranks number the set from 1 without gaps.
LEMMA RanksNumber ==
  ASSUME NEW S, IsFiniteSet(S), NEW key \in [S -> Nat],
         \A s, t \in S : key[s] = key[t] => s = t
  PROVE  /\ Cardinality(S) \in Nat
         /\ {Rank(S, key, s) : s \in S} = 1..Cardinality(S)
         /\ \A s, t \in S : Rank(S, key, s) = Rank(S, key, t) => s = t
<1> DEFINE n == Cardinality(S)
           f == [s \in S |-> Rank(S, key, s)]
<1>1. n \in Nat
  BY FS_CardinalityType
<1>2. ASSUME NEW s \in S PROVE f[s] \in 1..n
  <2> DEFINE A == {t \in S : key[t] <= key[s]}
  <2>1. A \in SUBSET S /\ s \in A
    OBVIOUS
  <2>2. IsFiniteSet(A) /\ Cardinality(A) <= n /\ Cardinality(A) \in Nat
    BY <2>1, FS_Subset, FS_CardinalityType
  <2>3. Cardinality(A) # 0
    BY <2>1, <2>2, FS_EmptySet
  <2>4. f[s] = Cardinality(A)
    BY DEF Rank
  <2> HIDE DEF A, f
  <2> QED
    BY <1>1, <2>2, <2>3, <2>4
<1>3. \A s, t \in S : f[s] = f[t] => s = t
  <2> SUFFICES ASSUME NEW s \in S, NEW t \in S, s # t PROVE f[s] # f[t]
    OBVIOUS
  <2>1. key[s] \in Nat /\ key[t] \in Nat /\ key[s] # key[t]
    OBVIOUS
  <2>2. CASE key[s] < key[t]
    BY <2>2, RankGrows
  <2>3. CASE key[t] < key[s]
    BY <2>3, RankGrows
  <2> QED
    BY <2>1, <2>2, <2>3
<1>4. f \in [S -> 1..n] /\ DOMAIN f = S
  BY <1>2
<1>5. Cardinality(1..n) = Cardinality(S) /\ IsFiniteSet(1..n)
  BY <1>1, CountInterval
<1> HIDE DEF n, f
<1>6. f \in Injection(S, 1..n)
  BY <1>3, <1>4 DEF Injection, IsInjective
<1>7. f \in Surjection(S, 1..n)
  BY <1>5, <1>6, FS_Injection
<1>8. \A k \in 1..n : \E s \in S : f[s] = k
  BY <1>7 DEF Surjection
<1>9. {f[s] : s \in S} = 1..n
  BY <1>4, <1>8
<1> QED
  BY <1>1, <1>3, <1>9 DEF f, n
=============================================================================
