---------------------------- MODULE NumberLemmas ----------------------------
(* Least and greatest elements of sets of natural numbers.                 *)
EXTENDS FiniteSetsExt, WellFoundedInduction, NaturalsInduction, TLAPS

(* A nonempty set of natural numbers has a minimum.                        *)
LEMMA MinNat ==
    ASSUME NEW S \in SUBSET Nat, S # {}
    PROVE  /\ Min(S) \in S
           /\ \A y \in S : Min(S) <= y
<1> DEFINE R == OpToRel(<, Nat)
<1>0. R = {ss \in Nat \X Nat : ss[1] < ss[2]}
  BY Zenon DEF OpToRel
<1>1. PICK x \in S : \A y \in S : ~(<<y, x>> \in R)
  BY NatLessThanWellFounded, WFMin
<1>2. \A y \in S : ~(<<y, x>> \in {ss \in Nat \X Nat : ss[1] < ss[2]})
  BY <1>0, <1>1, Zenon
<1>3. \A y \in S : x <= y
  <2> SUFFICES ASSUME NEW y \in S PROVE x <= y OBVIOUS
  <2>1. ~(<<y, x>> \in {ss \in Nat \X Nat : ss[1] < ss[2]}) BY <1>2
  <2> QED BY <2>1
<1> QED BY <1>3 DEF Min

(* A nonempty bounded set of natural numbers has a maximum.                *)
LEMMA MaxNat ==
    ASSUME NEW S \in SUBSET Nat, S # {}, NEW b \in Nat, \A x \in S : x <= b
    PROVE  Max(S) \in S /\ \A y \in S : y <= Max(S)
<1> DEFINE T == {n \in Nat : \E x \in S : n = b - x}
<1>0. \A x \in S : b - x \in T
  OBVIOUS
<1>1. T \in SUBSET Nat /\ T # {}
  BY <1>0
<1>2. Min(T) \in T /\ \A y \in T : Min(T) <= y
  <2> HIDE DEF T
  <2> QED BY <1>1, MinNat
<1>3. PICK m \in S : Min(T) = b - m
  BY <1>2
<1>4. \A y \in S : y <= m
  <2> HIDE DEF T
  <2> SUFFICES ASSUME NEW y \in S PROVE y <= m OBVIOUS
  <2>1. b - m <= b - y BY <1>0, <1>2, <1>3
  <2> QED BY <2>1
<1> QED BY <1>4 DEF Max

=============================================================================
