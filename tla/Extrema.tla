------------------------------- MODULE Extrema -------------------------------
(***************************************************************************)
(* The operators Max and Min of FiniteSetsExt, as the trackers use them:   *)
(* on sets of sequence numbers and of documents.                           *)
(***************************************************************************)
EXTENDS Integers, FiniteSetsExt, WellFoundedInduction, TLAPS

(* A non-empty set of natural numbers has a smallest member. *)
LEMMA MinOfNats ==
  ASSUME NEW S \in SUBSET Nat, S # {}
  PROVE  Min(S) \in S /\ \A q \in S : Min(S) <= q
<1>1. PICK d \in S : \A e \in S : d <= e
  <2> DEFINE LT == OpToRel(<, Nat)
  <2>1. IsWellFoundedOn(LT, Nat)
    BY NatLessThanWellFounded
  <2>2. \A x, y \in Nat : x < y => <<x, y>> \in LT
    BY DEF OpToRel
  <2>. HIDE DEF LT
  <2>3. PICK d \in S : \A e \in S : ~ (<<e, d>> \in LT)
    BY <2>1, WFMin
  <2>4. ASSUME NEW e \in S PROVE d <= e
    <3>1. ~ (e < d)
      BY <2>2, <2>3
    <3>. QED BY <3>1
  <2>. QED BY <2>4
<1>. QED BY <1>1 DEF Min

(* A non-empty set of numbers below a bound has a largest member. *)
LEMMA MaxInRange ==
  ASSUME NEW b \in Nat, NEW S \in SUBSET (0 .. b), S # {}
  PROVE  Max(S) \in S /\ \A q \in S : q <= Max(S)
<1> DEFINE Below == {d \in 0 .. b : b - d \in S}
<1>1. Below # {}
  <2>1. PICK q \in S : TRUE
    OBVIOUS
  <2>2. b - q \in Below
    BY <2>1
  <2>. HIDE DEF Below
  <2>. QED BY <2>2
<1>2. Below \subseteq Nat
  OBVIOUS
<1>3. PICK d \in Below : \A e \in Below : d <= e
  <2>. HIDE DEF Below
  <2>. QED BY <1>1, <1>2, MinOfNats
<1>4. b - d \in S
  OBVIOUS
<1>5. ASSUME NEW q \in S PROVE q <= b - d
  <2>1. b - q \in Below
    OBVIOUS
  <2>. QED BY <2>1, <1>3
<1>. QED BY <1>4, <1>5 DEF Max
=============================================================================
