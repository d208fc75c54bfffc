----------------------------- MODULE MCCheckout -----------------------------
(***************************************************************************)
(* Instances of Checkout for TLC.                                          *)
(***************************************************************************)
EXTENDS Checkout, TLC

CONSTANTS a1, a2, a3

Symmetry == Permutations(Confirms)
AddSymmetry     == Permutations(Adds)
SessionSymmetry == Permutations(Confirms) \cup Permutations(Users) \cup Permutations(Stores)

\* With MaxInt = 3 the two amounts, 6 and 2, overflow the total.
Quantity  == [t \in Adds |-> IF t = a1 THEN 3 ELSE 1]
UnitPrice == [t \in Adds |-> 2]
AllOne    == [t \in Adds |-> 1]
=============================================================================
