---------------------------- MODULE MCFulfilment ----------------------------
(***************************************************************************)
(* Instances of Fulfilment for TLC.                                        *)
(***************************************************************************)
EXTENDS Fulfilment, TLC

CONSTANTS o1, o2, o3, i1, i2, i3, w1, w2, s1, s2, k1, k2, k3, k4

Symmetry == Permutations(Requests)

Placed(s, n) == [store |-> s, total |-> n, status |-> "Order Placed"]
Line(o, i, q) == [order |-> o, item |-> i, qty |-> q]

\* One warehouse for both stores; order o3 was placed from an
\* empty cart and has no line.
OneWarehouse      == [s \in Stores |-> w1]
OneWarehouseStock == <<w1, i1>> :> 2 @@ <<w1, i2>> :> 1
OneWarehouseOrders == o1 :> Placed(s1, 3) @@ o2 :> Placed(s2, 1)
                      @@ o3 :> Placed(s2, 0)
OneWarehouseItems == k1 :> Line(o1, i1, 2) @@ k2 :> Line(o1, i2, 1)
                     @@ k3 :> Line(o2, i1, 1)

\* A second warehouse, which serves no store, stocks i1 as well, and i2 alone;
\* nobody stocks i3.  Order o1 has two lines of i1.
TwoWarehousesStock  == <<w1, i1>> :> 2 @@ <<w2, i1>> :> 1 @@ <<w2, i2>> :> 1
TwoWarehousesOrders == o1 :> Placed(s1, 4) @@ o2 :> Placed(s2, 2) @@ o3 :> Placed(s2, 0)
TwoWarehousesItems  == k1 :> Line(o1, i1, 2) @@ k2 :> Line(o1, i1, 1)
                       @@ k3 :> Line(o1, i3, 1) @@ k4 :> Line(o2, i2, 2)

\* Quantities are typed into a text field and parsed as integers.
SignedQuantities == {-1, 1, 2}
=============================================================================
