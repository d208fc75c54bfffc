--------------------------- MODULE OrderLifecycle ---------------------------
(***************************************************************************)
(* What the application promises of an order, seen by a store: while it is *)
(* open, that is being placed, nothing; once it is settled, it is          *)
(* completed at most once and stays complete, it can be emptied only as a  *)
(* whole, an empty order never gains a line nor becomes complete, and it   *)
(* goes away only when it is empty.                                        *)
(***************************************************************************)
CONSTANT Orders
VARIABLE phase

Init == phase \in [Orders -> {"open", "placed", "empty"}]

Move(o, from, to) == phase[o] \in from /\ phase' = [phase EXCEPT ![o] = to]

Settle(o)   == \E to \in {"placed", "complete", "empty", "gone"} : Move(o, {"open"}, to)
Complete(o) == Move(o, {"placed"}, "complete")
Withdraw(o) == Move(o, {"placed", "complete"}, "empty")
Drop(o)     == Move(o, {"empty"}, "gone")

Next == \E o \in Orders : Settle(o) \/ Complete(o) \/ Withdraw(o) \/ Drop(o)

Spec == Init /\ [][Next]_phase
=============================================================================
