------------------------- MODULE UpdateStateProofs -------------------------
(***************************************************************************)
(* What the operators of UpdateState answer, whatever they are given.      *)
(***************************************************************************)
EXTENDS UpdateState, TLAPS, FiniteSetTheorems, WellFoundedInduction

\* A set of naturals that is not empty has a lowest element, and Lowest is it.
LEMMA LowestIsLowest ==
  ASSUME NEW S \in SUBSET Nat, S # {}
  PROVE  /\ Lowest(S) \in S
         /\ \A x \in S : Lowest(S) <= x
<1> DEFINE Below(x) == 0 .. x
           T == {Below(x) : x \in S}
<1>1. T \subseteq FiniteSubsetsOf(Nat)
  <2>1. ASSUME NEW x \in S PROVE Below(x) \in SUBSET Nat /\ IsFiniteSet(Below(x))
    <3>1. x \in Int /\ 0 \in Int
      OBVIOUS
    <3> QED
      BY <3>1, FS_Interval
  <2> QED
    BY <2>1 DEF FiniteSubsetsOf
<1>2. PICK t \in T : \A u \in T : <<u, t>> \notin StrictSubsetOrdering(Nat)
  <2>1. IsWellFoundedOn(StrictSubsetOrdering(Nat), FiniteSubsetsOf(Nat))
    BY FS_StrictSubsetOrderingWellFounded
  <2>2. T # {}
    OBVIOUS
  <2> HIDE DEF T
  <2> QED
    BY <1>1, <2>1, <2>2, WFMin
<1>3. PICK x \in S : t = Below(x)
  BY <1>2
<1>4. ASSUME NEW y \in S, y < x
      PROVE  FALSE
  <2>1. Below(y) \in SUBSET Nat /\ Below(x) \in SUBSET Nat
    OBVIOUS
  <2>2. Below(y) \subseteq Below(x) /\ Below(y) # Below(x)
    <3>1. x \in Below(x) /\ x \notin Below(y)
      BY <1>4
    <3> QED
      BY <1>4, <3>1
  <2>3. <<Below(y), Below(x)>> \in StrictSubsetOrdering(Nat)
    BY <2>1, <2>2 DEF StrictSubsetOrdering
  <2> QED
    BY <1>2, <1>3, <2>3
<1>5. \A y \in S : x <= y
  BY <1>4
<1> QED
  BY <1>5 DEF Lowest

\* One that is bounded has a highest element, and Highest is it.
LEMMA HighestIsHighest ==
  ASSUME NEW S \in SUBSET Nat, S # {}, NEW n \in Nat, \A x \in S : x <= n
  PROVE  /\ Highest(S) \in S
         /\ \A x \in S : x <= Highest(S)
<1> DEFINE Bounds == {m \in Nat : \A x \in S : x <= m}
<1>1. Bounds \in SUBSET Nat /\ Bounds # {}
  OBVIOUS
<1>2. PICK m \in Bounds : \A k \in Bounds : m <= k
  <2> HIDE DEF Bounds
  <2> QED
    BY <1>1, LowestIsLowest
<1>3. m \in Nat /\ \A x \in S : x \in Nat /\ x <= m
  BY <1>2
<1>4. ASSUME m \notin S
      PROVE  FALSE
  <2>1. \A x \in S : x <= m - 1
    BY <1>3, <1>4
  <2>2. PICK x \in S : x \in Nat /\ x <= m - 1
    BY <1>3, <2>1
  <2>3. m - 1 \in Bounds
    BY <1>3, <2>1, <2>2
  <2>4. m <= m - 1
    BY <1>2, <2>3
  <2> QED
    BY <1>3, <2>4
<1> QED
  BY <1>3, <1>4 DEF Highest
=============================================================================
