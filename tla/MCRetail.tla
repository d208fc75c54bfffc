------------------------------ MODULE MCRetail ------------------------------
(***************************************************************************)
(* Instances of Retail for TLC.                                            *)
(***************************************************************************)
EXTENDS Retail, TLC

CONSTANTS i1, i2, w1, s1

Symmetry == Permutations(Requests) \cup Permutations(Clicks) \cup Permutations(Confirms)

\* One of each item in the only warehouse, and a cart that asks for both.
OneWarehouse == s1 :> w1
OneEach      == <<w1, i1>> :> 1 @@ <<w1, i2>> :> 1
BothItems    == << [item |-> i1, qty |-> 1, price |-> 1], [item |-> i2, qty |-> 1, price |-> 1] >>
SmallNumbers == -3 .. 3
=============================================================================
