---------------------------- MODULE Bounds_proofs ----------------------------
(***************************************************************************)
(* The largest element of a set of natural numbers, which the models take  *)
(* for the last revision of some units, the last submission of one, and    *)
(* the state of the counters.                                              *)
(***************************************************************************)
EXTENDS Integers, FiniteSetTheorems, TLAPS

\* A set of natural numbers that is bounded has a largest element: one with the
\* least set of numbers above it.
LEMMA BoundedHasLargest ==
  ASSUME NEW n \in Nat, NEW S \in SUBSET (0..n), S # {}
  PROVE  \E m \in S : \A x \in S : x <= m
<1>. DEFINE above(x) == {y \in S : y > x}
            T == {above(x) : x \in S}
            R == StrictSubsetOrdering(S)
<1>1. IsFiniteSet(S)
  <2>1. IsFiniteSet(0..n)
    BY FS_Interval, 0 \in Int, n \in Int
  <2>. QED BY <2>1, FS_Subset
<1>2. T \subseteq FiniteSubsetsOf(S)
  <2>1. ASSUME NEW A \in T PROVE IsFiniteSet(A) /\ A \in SUBSET S
    <3>1. A \in SUBSET S
      OBVIOUS
    <3>. QED BY <1>1, <3>1, FS_Subset
  <2>. QED BY <2>1 DEF FiniteSubsetsOf
<1>3. \E A \in T : \A B \in T : <<B, A>> \notin R
  <2>1. IsWellFoundedOn(R, FiniteSubsetsOf(S)) /\ T # {}
    BY FS_StrictSubsetOrderingWellFounded
  <2>. HIDE DEF T, R
  <2>. QED BY <1>2, <2>1, WFMin
<1>4. PICK m \in S : \A x \in S : <<above(x), above(m)>> \notin R
  BY <1>3
<1>5. ASSUME NEW x \in S, x > m
      PROVE  FALSE
  <2>1. x \in Int /\ m \in Int /\ S \subseteq Int
    BY <1>5
  <2>2. above(x) \subseteq above(m)
    <3>. SUFFICES ASSUME NEW y \in S, y > x PROVE y > m
      OBVIOUS
    <3>. QED BY <1>5, <2>1
  <2>3. x \in above(m) /\ x \notin above(x)
    BY <1>5, <2>1
  <2>4. above(x) \in SUBSET S /\ above(m) \in SUBSET S
    OBVIOUS
  <2>. QED BY <1>4, <2>2, <2>3, <2>4 DEF StrictSubsetOrdering
<1>. QED BY <1>4, <1>5
=============================================================================
