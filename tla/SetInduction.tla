----------------------------- MODULE SetInduction -----------------------------
(***************************************************************************)
(* Induction over the naturals, stated for sets: a set that has 0, and     *)
(* with every natural number the next, has them all.  The theorems of      *)
(* NaturalsInduction speak of a predicate, which is an operator; here it   *)
(* is a set, which the provers can instantiate.                            *)
(***************************************************************************)
EXTENDS Naturals, Integers, FiniteSets, FiniteSetTheorems, TLAPS

\* A set of natural numbers that is not empty has a least element: the initial
\* segments below its elements are finite sets, and inclusion is well founded
\* among those.
LEMMA LeastElement ==
  ASSUME NEW T \in SUBSET Nat, T # {}
  PROVE  \E m \in T : \A k \in T : m <= k
PROOF
<1> DEFINE Below(n) == 0..(n - 1)
           D == {Below(n) : n \in T}
           R == StrictSubsetOrdering(Nat)
           F == FiniteSubsetsOf(Nat)
<1>1. IsWellFoundedOn(R, F) BY FS_StrictSubsetOrderingWellFounded
<1>2. ASSUME NEW n \in T
      PROVE  Below(n) \in SUBSET Nat /\ IsFiniteSet(Below(n))
  <2>1. 0 \in Int /\ n - 1 \in Int OBVIOUS
  <2>2. QED BY <2>1, FS_Interval
<1>3. D \subseteq F /\ D # {} BY <1>2 DEF FiniteSubsetsOf
<1> HIDE DEF R, F, D
<1>4. PICK x \in D : \A y \in D : ~(<<y, x>> \in R) BY <1>1, <1>3, WFMin
<1>5. PICK m \in T : x = Below(m) BY <1>4 DEF D
<1>6. ASSUME NEW k \in T, ~(m <= k) PROVE FALSE
  <2>1. Below(k) \subseteq Below(m) /\ k \in Below(m) /\ k \notin Below(k) BY <1>6
  <2>2. Below(k) \in D BY DEF D
  <2>3. <<Below(k), Below(m)>> \in R BY <2>1, <1>2 DEF R, StrictSubsetOrdering
  <2>4. QED BY <2>2, <2>3, <1>4, <1>5
<1>7. QED BY <1>6

\* Induction: the least number outside the set would be 0 or follow one inside.
LEMMA SetInduction ==
  ASSUME NEW T, 0 \in T, \A n \in Nat : n \in T => n + 1 \in T
  PROVE  Nat \subseteq T
PROOF
<1> SUFFICES ASSUME NEW n0 \in Nat, n0 \notin T PROVE FALSE OBVIOUS
<1> DEFINE X == Nat \ T
<1>1. X \in SUBSET Nat /\ X # {} OBVIOUS
<1>2. PICK m \in X : \A k \in X : m <= k BY <1>1, LeastElement
<1>3. m # 0 /\ m - 1 \in Nat /\ (m - 1) + 1 = m BY <1>2
<1>4. m - 1 \in T BY <1>2, <1>3
<1>5. QED BY <1>2, <1>3, <1>4

=============================================================================
