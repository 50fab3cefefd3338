----------------------------- MODULE Induction -----------------------------
(***************************************************************************)
(* Induction over the natural numbers, for a set of numbers.  The library  *)
(* states it for a predicate that is a parameter, which the provers cannot *)
(* instantiate; for a set it follows from the well-foundedness of <.       *)
(***************************************************************************)
EXTENDS Integers, WellFoundedInduction, TLAPS

(* A set of numbers that is not empty has a least one.                     *)
LEMMA LeastNat ==
  ASSUME NEW T \in SUBSET Nat, T # {}
  PROVE  \E n \in T : \A m \in T : n <= m
<1> DEFINE R == {ss \in Nat \X Nat : ss[1] < ss[2]}
<1>1. IsWellFoundedOn(R, Nat)
  BY NatLessThanWellFounded DEF OpToRel
<1>2. \A m, n \in T : m < n => <<m, n>> \in R
  OBVIOUS
<1> HIDE DEF R
<1>3. PICK n \in T : \A m \in T : ~(<<m, n>> \in R)
  BY <1>1, WFMin
<1>4. n \in Nat /\ \A m \in T : m \in Nat /\ ~(m < n)
  BY <1>2, <1>3
<1> QED  BY <1>4, SMT

(* What holds of a and of the next number, as long as it is below b, holds *)
(* from a to b.                                                            *)
LEMMA UpTo ==
  ASSUME NEW a \in Nat, NEW b \in Nat, NEW T, a \in T,
         \A k \in a..b : k \in T /\ k < b => k + 1 \in T
  PROVE  \A k \in a..b : k \in T
<1> DEFINE bad == {k \in a..b : k \notin T}
<1>1. SUFFICES ASSUME bad # {}  PROVE FALSE
  OBVIOUS
<1>2. bad \in SUBSET Nat
  OBVIOUS
<1>3. PICK n \in bad : \A m \in bad : n <= m
  BY <1>1, <1>2, LeastNat
<1>4. n \in a..b /\ n \notin T /\ n # a
  BY <1>3
<1>5. n - 1 \in a..b /\ n - 1 < b /\ (n - 1) + 1 = n /\ ~(n <= n - 1)
  BY <1>4
<1>6. n - 1 \in T
  BY <1>3, <1>5
<1> QED  BY <1>4, <1>5, <1>6
=============================================================================
