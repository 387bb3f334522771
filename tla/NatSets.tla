------------------------------ MODULE NatSets -------------------------------
(***************************************************************************)
(* Least and greatest elements of sets of natural numbers, for the proofs  *)
(* about segment numbers and positions in tables.                          *)
(***************************************************************************)
EXTENDS Integers, WellFoundedInduction, TLAPS

\* A nonempty set of naturals has a least element.
LEMMA HasLeast ==
    ASSUME NEW T \in SUBSET Nat, T # {}
    PROVE  \E m \in T : \A t \in T : m <= t
<1> DEFINE R == OpToRel(<, Nat)
<1>1. IsWellFoundedOn(R, Nat)
  BY NatLessThanWellFounded
<1>2. \A x, y \in Nat : <<y, x>> \in R <=> y < x
  BY DEF OpToRel
<1> HIDE DEF R
<1>3. PICK x \in T : \A y \in T : ~ (<<y, x>> \in R)
  BY <1>1, WFMin
<1>4. ASSUME NEW y \in T PROVE x <= y
  <2>1. x \in Nat /\ y \in Nat
    OBVIOUS
  <2>2. ~(y < x)
    BY <1>2, <1>3, <2>1
  <2> QED  BY <2>1, <2>2
<1> QED  BY <1>4

\* A nonempty set of naturals with an upper bound has a greatest element: its
\* least upper bound.
LEMMA HasGreatest ==
    ASSUME NEW n \in Nat, NEW S \in SUBSET (0..n), S # {}
    PROVE  \E g \in S : \A t \in S : t <= g
<1> DEFINE U == {m \in Nat : \A t \in S : t <= m}
<1>1. \A t \in S : t \in Nat /\ t <= n
  OBVIOUS
<1>2. n \in U /\ U \in SUBSET Nat
  BY <1>1
<1>3. PICK m \in U : \A u \in U : m <= u
  BY <1>2, HasLeast
<1>4. m \in S
  <2> SUFFICES ASSUME m \notin S PROVE FALSE
    OBVIOUS
  <2>0. m \in Nat /\ \A t \in S : t \in Nat /\ t <= m /\ t # m
    BY <1>1
  <2>1. \A t \in S : t \in Nat /\ t <= m - 1
    BY ONLY <2>0
  <2>2. PICK s \in S : s \in Nat /\ s <= m - 1
    BY <2>1
  <2>3. m - 1 \in Nat
    BY ONLY <2>0, <2>2
  <2>4. m - 1 \in U
    BY <2>1, <2>3
  <2>5. m <= m - 1
    BY <1>3, <2>4
  <2> QED  BY ONLY <2>0, <2>5
<1> QED  BY <1>4
=============================================================================
