---------------------------- MODULE MCPurchasing ----------------------------
(***************************************************************************)
(* Instances of Purchasing for TLC.                                        *)
(***************************************************************************)
EXTENDS Purchasing, TLC

Symmetry == Permutations(Clicks) \cup Permutations(OrderIds) \cup Permutations(Items)
=============================================================================
