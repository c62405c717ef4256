------------------------------ MODULE Extrema -------------------------------
(* The extrema of sets of naturals, which the proofs of several modules     *)
(* cite: a log has a newest index, a slot that is free is the first one.    *)
EXTENDS Integers, FiniteSetsExt, NaturalsInduction, WellFoundedInduction, TLAPS

LessThan == {pair \in Nat \X Nat : pair[1] < pair[2]}

LEMMA LessThanWellFounded == IsWellFoundedOn(LessThan, Nat)
BY NatLessThanWellFounded, Zenon DEF OpToRel, LessThan

(* A set of naturals that is not empty has a least element: Min is one.     *)
LEMMA MinIs ==
  ASSUME NEW S \in SUBSET Nat, S # {}
  PROVE  Min(S) \in S /\ \A n \in S : Min(S) <= n
<1>1. PICK m \in S : \A y \in S : ~(<<y, m>> \in LessThan)
  BY LessThanWellFounded, WFMin, Zenon
<1>2. ASSUME NEW n \in S PROVE m <= n
  <2>1. <<n, m>> \notin LessThan
    BY <1>1
  <2>2. n \in Nat /\ m \in Nat
    OBVIOUS
  <2>3. ~(n < m)
    BY <2>1, <2>2 DEF LessThan
  <2> QED
    BY <2>2, <2>3
<1> QED
  BY <1>2 DEF Min

(* A bounded one has a greatest element: Max is one.                        *)
LEMMA MaxIs ==
  ASSUME NEW b \in Nat, NEW S \in SUBSET (0 .. b), S # {}
  PROVE  Max(S) \in S /\ \A n \in S : n <= Max(S)
<1> DEFINE T == {b - n : n \in S}
<1>1. \A n \in S : n \in Nat /\ b - n \in Nat
  BY SMT
<1>2. T \in SUBSET Nat /\ T # {}
  BY <1>1
<1> HIDE DEF T
<1>3. Min(T) \in T /\ \A n \in T : Min(T) <= n
  BY <1>2, MinIs
<1>4. PICK m \in S : Min(T) = b - m
  BY <1>3 DEF T
<1>5. ASSUME NEW n \in S PROVE n <= m
  <2>1. b - n \in T
    BY DEF T
  <2>2. b - m <= b - n
    BY <2>1, <1>3, <1>4
  <2> QED
    BY <2>2, <1>1
<1>6. \A n \in S : m >= n
  BY <1>1, <1>5
<1> QED
  <2>1. Max(S) \in S /\ \A n \in S : Max(S) >= n
    BY <1>6 DEF Max
  <2> QED
    BY <2>1, <1>1
=============================================================================
