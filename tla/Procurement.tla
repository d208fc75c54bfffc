----------------------------- MODULE Procurement -----------------------------
(***************************************************************************)
(* What purchasing promises the stores: it buys for an order only if some  *)
(* warehouse asked, and calls the order settled only once it has bought    *)
(* for it.  It does not promise to buy once: an order that was bought for  *)
(* may be bought for again, settled or not.                                *)
(***************************************************************************)
EXTENDS Naturals

CONSTANT Orders
VARIABLES wanted,   \* the orders a warehouse asks goods for
          bought    \* how many times each order was bought for

Init == wanted = {} /\ bought = [o \in Orders |-> 0]

Ask(o) == wanted' = wanted \cup {o} /\ UNCHANGED bought

Buy(o) == /\ o \in wanted \/ bought[o] > 0
          /\ bought' = [bought EXCEPT ![o] = @ + 1]
          /\ UNCHANGED wanted

Settle(o) == /\ bought[o] > 0
             /\ wanted' = wanted \ {o}
             /\ UNCHANGED bought

Next == \E o \in Orders : Ask(o) \/ Buy(o) \/ Settle(o)

Spec == Init /\ [][Next]_<<wanted, bought>>
=============================================================================
