------------------------------ MODULE Induction -------------------------------
(***************************************************************************)
(* Facts about natural numbers that the proofs need and that the theorems  *)
(* of the library, which take an operator, do not give here: each follows  *)
(* from the order of the numbers being well-founded.                       *)
(***************************************************************************)
EXTENDS Naturals, Integers, FiniteSetsExt, WellFoundedInduction, TLAPS

(* The order of the natural numbers, as a set of pairs.                     *)
Below == {p \in Nat \X Nat : p[1] < p[2]}

LEMMA BelowIsWellFounded == IsWellFoundedOn(Below, Nat)
BY NatLessThanWellFounded DEF OpToRel, Below

(* A set of natural numbers that is not empty has a least member.           *)
LEMMA LeastNumber ==
    ASSUME NEW T, T \subseteq Nat, T # {}
    PROVE  \E x \in T : \A y \in T : x <= y
<1>1. PICK x \in T : \A y \in T : ~(<<y, x>> \in Below)
  BY BelowIsWellFounded, WFMin
<1>2. ASSUME NEW y \in T
      PROVE  x <= y
  <2>1. ~(y < x)
    BY <1>1 DEF Below
  <2>2. QED
    BY <2>1
<1>3. QED
  BY <1>2

(* The maximum of a set of numbers up to N that is not empty is one of      *)
(* them.                                                                    *)
LEMMA GreatestIsMember ==
    ASSUME NEW N \in Nat, NEW S, S \subseteq 1..N, S # {}
    PROVE  Max(S) \in S
<1> DEFINE T == {m \in Nat : N - m \in S}
<1>1. PICK s \in S : TRUE
  OBVIOUS
<1>2. N - s \in T
  OBVIOUS
<1>3. PICK t \in T : \A m \in T : t <= m
  <2>1. T \subseteq Nat /\ T # {}
    BY <1>2
  <2>2. QED
    BY <2>1, LeastNumber
<1>4. ASSUME NEW y \in S
      PROVE  N - t >= y
  <2>1. N - y \in T
    OBVIOUS
  <2>2. t <= N - y
    BY <2>1, <1>3
  <2>3. QED
    BY <2>2, <1>3
<1>5. QED
  BY <1>3, <1>4 DEF Max

(* What holds of 0, and of n + 1 whenever it holds of n, holds of every     *)
(* natural number.                                                          *)
LEMMA Induct ==
    ASSUME NEW S, 0 \in S, \A n \in Nat : n \in S => n + 1 \in S
    PROVE  \A n \in Nat : n \in S
<1> DEFINE T == {n \in Nat : n \notin S}
<1> SUFFICES ASSUME T # {}
             PROVE  FALSE
  OBVIOUS
<1>1. PICK x \in T : \A y \in T : x <= y
  <2> HIDE DEF T
  <2>1. T \subseteq Nat
    BY DEF T
  <2>2. QED
    BY LeastNumber, <2>1
<1>2. x # 0 /\ x \in Nat
  OBVIOUS
<1>3. x - 1 \in Nat
  BY <1>2
<1>4. x - 1 \in S
  <2>1. x - 1 < x
    BY <1>2
  <2>2. CASE x - 1 \notin S
    <3>1. x - 1 \in T
      BY <2>2, <1>3
    <3>2. x <= x - 1
      BY <3>1, <1>1
    <3>3. QED
      BY <3>2, <2>1, <1>2
  <2>3. QED
    BY <2>2
<1>5. (x - 1) + 1 \in S
  BY <1>4, <1>3
<1>6. QED
  BY <1>5, <1>2
===============================================================================
