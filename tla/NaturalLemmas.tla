--------------------------- MODULE NaturalLemmas ----------------------------
(***************************************************************************)
(* What the proofs need of the natural numbers and the provers do not know: *)
(* induction, stated for a set instead of a predicate so that it can be     *)
(* cited, and the powers of two, by which natpmp.c grows its retry delays.  *)
(***************************************************************************)
EXTENDS Integers, FiniteSetTheorems, TLAPS

\* A set of naturals with 0 in it, closed under + 1, holds them all: induction
\* without a predicate as a parameter.
LEMMA SetInduction ==
    ASSUME NEW S, 0 \in S, \A n \in Nat : n \in S => n + 1 \in S
    PROVE  Nat \subseteq S
<1> DEFINE T == {I \in SUBSET Nat : \E n \in Nat : I = 0 .. n /\ n \notin S}
<1>1. T \subseteq FiniteSubsetsOf(Nat)
  <2> SUFFICES ASSUME NEW n \in Nat PROVE 0 .. n \in FiniteSubsetsOf(Nat)
    OBVIOUS
  <2>1. IsFiniteSet(0 .. n) 
    BY FS_Interval
  <2>2. 0 .. n \subseteq Nat
    OBVIOUS
  <2> QED BY <2>1, <2>2 DEF FiniteSubsetsOf
<1> SUFFICES ASSUME NEW k \in Nat, k \notin S PROVE FALSE
  OBVIOUS
<1>2. T # {}
  <2>2. 0 .. k \subseteq Nat
    OBVIOUS
  <2> QED BY <2>2
<1>3. IsWellFoundedOn(StrictSubsetOrdering(Nat), FiniteSubsetsOf(Nat))
  BY FS_StrictSubsetOrderingWellFounded
<1>4. PICK I \in T : \A J \in T : <<J, I>> \notin StrictSubsetOrdering(Nat)
  <2> HIDE DEF T
  <2> QED BY <1>1, <1>2, <1>3, WFMin
<1>5. PICK n \in Nat : I = 0 .. n /\ n \notin S
  OBVIOUS
<1>6. n # 0
  BY <1>5
<1>7. n - 1 \in Nat /\ n - 1 + 1 = n
  BY <1>6
<1>8. n - 1 \notin S
  BY <1>5, <1>7
<1> DEFINE J == 0 .. (n - 1)
<1>9. J \in T
  <2>2. J \subseteq Nat
    BY <1>7
  <2> QED BY <2>2, <1>7, <1>8
<1>10. J \subseteq I /\ J # I
  <2>1. n \in I /\ n \notin J
    BY <1>5, <1>7
  <2> QED BY <1>5, <1>7, <2>1
<1>11. <<J, I>> \in StrictSubsetOrdering(Nat)
  <2>1. J \in SUBSET Nat /\ I \in SUBSET Nat
    BY <1>7
  <2> HIDE DEF J, T
  <2> QED BY <1>10, <2>1 DEF StrictSubsetOrdering
<1> HIDE DEF J, T
<1> QED BY <1>4, <1>9, <1>11

\* A power of two is the number of subsets of a set.
LEMMA PowerIsCount ==
    ASSUME NEW n \in Nat
    PROVE  2 ^ n \in Nat /\ IsFiniteSet(SUBSET (1 .. n)) /\ Cardinality(SUBSET (1 .. n)) = 2 ^ n
<1>1. IsFiniteSet(1 .. n) /\ Cardinality(1 .. n) = n
  BY FS_Interval
<1>2. IsFiniteSet(SUBSET (1 .. n)) /\ Cardinality(SUBSET (1 .. n)) = 2 ^ n
  BY <1>1, FS_SUBSET
<1>3. Cardinality(SUBSET (1 .. n)) \in Nat
  BY <1>2, FS_CardinalityType
<1> QED BY <1>2, <1>3

LEMMA PowerNat == \A n \in Nat : 2 ^ n \in Nat
  BY PowerIsCount

\* With one element more there are twice as many subsets.
LEMMA PowerDoubles ==
    ASSUME NEW n \in Nat
    PROVE  2 ^ (n + 1) = 2 * 2 ^ n
<1> DEFINE A == SUBSET (1 .. n)
           B == {T \cup {n + 1} : T \in A}
           f == [T \in A |-> T \cup {n + 1}]
<1>1. IsFiniteSet(A) /\ Cardinality(A) = 2 ^ n /\ 2 ^ n \in Nat
  BY PowerIsCount
<1>2. \A T \in A : n + 1 \notin T
  OBVIOUS
<1>3. f \in Bijection(A, B)
  <2>1. f \in [A -> B]
    OBVIOUS
  <2>2. ASSUME NEW T \in A, NEW U \in A, f[T] = f[U] PROVE T = U
    <3>1. T \cup {n + 1} = U \cup {n + 1}
      BY <2>2
    <3> QED BY <1>2, <3>1
  <2>3. \A b \in B : \E T \in A : f[T] = b
    OBVIOUS
  <2> HIDE DEF A, B, f
  <2> QED BY <2>1, <2>2, <2>3 DEF Bijection, Injection, Surjection, IsInjective
<1>4. IsFiniteSet(B) /\ Cardinality(B) = 2 ^ n
  <2> HIDE DEF A, B, f
  <2>1. ExistsBijection(A, B)
    BY <1>3 DEF ExistsBijection
  <2> QED BY <1>1, <2>1, FS_Bijection
<1>5. A \cap B = {}
  BY <1>2
<1>6. A \cup B = SUBSET (1 .. (n + 1))
  <2>1. 1 .. (n + 1) = (1 .. n) \cup {n + 1}
    OBVIOUS
  <2>2. A \cup B \subseteq SUBSET (1 .. (n + 1))
    BY <2>1
  <2>3. ASSUME NEW U \in SUBSET (1 .. (n + 1)) PROVE U \in A \cup B
    <3>1. U \ {n + 1} \in A
      BY <2>1
    <3>2. U = U \ {n + 1} \/ U = (U \ {n + 1}) \cup {n + 1}
      OBVIOUS
    <3> QED BY <3>1, <3>2
  <2> QED BY <2>2, <2>3
<1>7. Cardinality(A \cup B) = 2 ^ n + 2 ^ n - 0
  <2> HIDE DEF A, B, f
  <2> QED BY <1>1, <1>4, <1>5, FS_Union, FS_EmptySet
<1>8. Cardinality(SUBSET (1 .. (n + 1))) = 2 ^ (n + 1) /\ 2 ^ (n + 1) \in Nat
  <2> HIDE DEF A, B, f
  <2>1. n + 1 \in Nat
    OBVIOUS
  <2> QED BY <2>1, PowerIsCount
<1>9. \A p, q \in Nat : q = p + p - 0 => q = 2 * p
  OBVIOUS
<1> QED 
  <2> HIDE DEF A, B, f
  <2>1. 2 ^ (n + 1) = 2 ^ n + 2 ^ n - 0
    BY <1>6, <1>7, <1>8
  <2> QED BY <1>1, <1>8, <1>9, <2>1

\* With more elements there are not fewer subsets.
LEMMA PowerMonotone ==
    ASSUME NEW n \in Nat, NEW m \in Nat, n <= m
    PROVE  2 ^ n <= 2 ^ m
<1>1. (1 .. n) \subseteq (1 .. m)
  OBVIOUS
<1> DEFINE S == SUBSET (1 .. m)
           T == SUBSET (1 .. n)
<1>2. T \in SUBSET S
  BY <1>1
<1>3. IsFiniteSet(S) /\ Cardinality(S) = 2 ^ m /\ Cardinality(T) = 2 ^ n
  BY PowerIsCount
<1> HIDE DEF S, T
<1>4. Cardinality(T) <= Cardinality(S)
  BY <1>2, <1>3, FS_Subset
<1> QED BY <1>3, <1>4
=============================================================================
