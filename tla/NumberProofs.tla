---------------------------- MODULE NumberProofs ----------------------------
(***************************************************************************)
(* Sets of natural numbers have a least member: what the proofs use of the *)
(* order of descriptors, of positions and of channels.                     *)
(***************************************************************************)
EXTENDS Integers, FiniteSetsExt, FiniteSetTheorems, TLAPS

\* A set of natural numbers has a least member.
LEMMA LeastNumber ==
  ASSUME NEW T, T \subseteq Nat, T # {}
  PROVE  \E x \in T : \A y \in T : x <= y
<1> DEFINE Before == OpToRel(<, Nat)
<1>1. \E x \in T : \A y \in T : <<y, x>> \notin Before
  <2>1. IsWellFoundedOn(Before, Nat)
    BY NatLessThanWellFounded
  <2> HIDE DEF Before
  <2> QED
    BY <2>1, WFMin
<1>2. PICK x \in T : \A y \in T : <<y, x>> \notin Before
  BY <1>1
<1>3. ASSUME NEW y \in T PROVE x <= y
  <2>1. x \in Nat /\ y \in Nat
    OBVIOUS
  <2>2. ~(y < x)
    BY <1>2, <2>1 DEF OpToRel
  <2> QED
    BY <2>1, <2>2
<1> QED
  BY <1>3

\* Min finds it.
LEMMA MinIsLeast ==
  ASSUME NEW T, T \subseteq Nat, T # {}
  PROVE  Min(T) \in T /\ \A y \in T : Min(T) <= y
<1>1. \E x \in T : \A y \in T : x <= y
  BY LeastNumber
<1> QED
  BY <1>1, Zenon DEF Min

\* What is in the set and not below any member is what Max finds.
LEMMA MaxIs ==
  ASSUME NEW T, T \subseteq Nat, NEW m \in T, \A x \in T : x <= m
  PROVE  Max(T) = m
<1>1. Max(T) \in T /\ \A x \in T : x <= Max(T)
  <2>1. \E y \in T : \A x \in T : y >= x
    OBVIOUS
  <2>2. Max(T) \in T /\ \A x \in T : Max(T) >= x
    BY <2>1, Zenon DEF Max
  <2> QED
    BY <2>2
<1>2. Max(T) <= m /\ m <= Max(T) /\ Max(T) \in Nat
  BY <1>1
<1> QED
  BY <1>2
=============================================================================
