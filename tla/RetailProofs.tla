---------------------------- MODULE RetailProofs ----------------------------
(***************************************************************************)
(* Theorems about Retail: what holds of its parts on their own still holds *)
(* when they share the database, and what holds only of the whole.         *)
(***************************************************************************)
EXTENDS Retail, TableProofs, SumProofs, SequenceTheorems

\* The theorems about the parts, for the tables of the whole.
FP == INSTANCE FulfilmentProofs WITH InitOrders <- NoRows, InitItems <- NoRows
PP == INSTANCE PurchasingProofs WITH Quantities <- Int

\* The assumptions of the two components hold here.
LEMMA FulfilmentAssumed == FP!FulfilmentAssumption
BY RetailAssumption DEF FP!FulfilmentAssumption, FP!Stocked, FP!IsTable, FP!OrderRow, FP!ItemRow,
                        NoRows

\* Of Purchasing: NULL is no item and no integer.
LEMMA PurchasingAssumed == PP!PurchasingAssumption
BY RetailAssumption DEF PP!PurchasingAssumption

\* A step of Fulfil is one that Fulfilment knows.
LEMMA FulfilIsStep == ASSUME NEW r \in Requests, Fulfil(r) PROVE FP!Next
<1>1. CASE F!OpenForm(r)
  BY <1>1 DEF F!OpenForm, FP!OpenForm, FP!Next, F!New, FP!New, F!tables, FP!tables, F!Insert, FP!Insert
<1>2. CASE F!Debit(r)
  BY <1>2 DEF F!Debit, FP!Debit, FP!Next, F!At, FP!At, F!Taken, FP!Taken, F!Stocked, FP!Stocked
<1>3. CASE F!Credit(r)
  BY <1>3 DEF F!Credit, FP!Credit, FP!Next, FP!Proceed, F!At, FP!At, F!LinesOf, FP!LinesOf,
     F!Goto, FP!Goto, F!NoteRaises, FP!NoteRaises
<1>4. CASE F!MarkComplete(r)
  BY <1>4 DEF F!MarkComplete, FP!MarkComplete, FP!Next, FP!Proceed, F!At, FP!At, F!LinesOf, FP!LinesOf,
     F!Goto, FP!Goto, F!NothingLeft, FP!NothingLeft
<1>5. CASE F!CheckStock(r)
  BY <1>5 DEF F!CheckStock, FP!CheckStock, FP!Next, FP!Proceed, F!At, FP!At, F!ShelfOf, FP!ShelfOf,
     F!Goto, FP!Goto, F!Empty, FP!Empty, F!Stocked, FP!Stocked, F!tables, FP!tables
<1>6. CASE F!Reorder(r)
  BY <1>6 DEF F!Reorder, FP!Reorder, FP!Next, FP!Proceed, F!At, FP!At, F!Wanted, FP!Wanted,
     F!Goto, FP!Goto, F!HasRoom, FP!HasRoom, F!FreshKey, FP!FreshKey, F!Insert, FP!Insert
<1>7. CASE F!UpdateOrder(r)
  BY <1>7 DEF F!UpdateOrder, FP!UpdateOrder, FP!Next, F!New, FP!New, F!LinesOf, FP!LinesOf,
     F!Insert, FP!Insert, F!NoteRaises, FP!NoteRaises
<1>8. CASE F!DeleteLines(r)
  BY <1>8 DEF F!DeleteLines, FP!DeleteLines, FP!Next, F!New, FP!New, F!Delete, FP!Delete,
     F!Restrict, FP!Restrict, F!Insert, FP!Insert
<1>9. CASE F!DropOrder(r)
  BY <1>9 DEF F!DropOrder, FP!DropOrder, FP!Next, FP!Proceed, F!At, FP!At, F!Delete, FP!Delete,
     F!Restrict, FP!Restrict, F!Goto, FP!Goto
<1>10. CASE F!StopEarly(r)
  BY <1>10 DEF F!StopEarly, FP!StopEarly, FP!Next, F!At, FP!At, F!Goto, FP!Goto, F!tables, FP!tables
<1> QED
  BY <1>1, <1>2, <1>3, <1>4, <1>5, <1>6, <1>7, <1>8, <1>9, <1>10 DEF Fulfil

-----------------------------------------------------------------------------
(* The types.                                                              *)

\* What holds of the variables that neither part knows.
Placing == [at: {"lines", "done", "stopped"}, order: 1 .. lastOrder,
            i: 0 .. size, overtaken: BOOLEAN]
Placement ==
  /\ size \in 0 .. Len(Cart) /\ lastOrder \in 0 .. MaxOrder
  /\ DOMAIN orders \subseteq 1 .. lastOrder
  /\ IsTable(confirm, Confirms, Placing)

\* Both instances of Fulfilment have the same types.
LEMMA TypesOfFulfilment == /\ F!TypeOK <=> FP!TypeOK
                           /\ F!TypeOK' <=> FP!TypeOK'
BY DEF F!TypeOK, FP!TypeOK, F!Stocked, FP!Stocked, F!IsTable, FP!IsTable, F!OrderRow, FP!OrderRow,
       F!ItemRow, FP!ItemRow, F!Shipping, FP!Shipping, F!Editing, FP!Editing,
       F!Statuses, FP!Statuses, F!InFlight, FP!InFlight, F!Ended, FP!Ended

\* The total of a cart is a number.
LEMMA TotalType == size \in 0 .. Len(Cart) => Total \in Int
<1> SUFFICES ASSUME size \in 0 .. Len(Cart) PROVE Total \in Int
  OBVIOUS
<1> DEFINE f == [n \in 1 .. size |-> Cart[n].qty * Cart[n].price]
<1>1. size \in Int /\ IsFiniteSet(1 .. size)
  <2>1. Len(Cart) \in Nat
    BY RetailAssumption
  <2>2. size \in Int
    BY <2>1
  <2> QED
    BY <2>2, FS_Interval
<1>2. ASSUME NEW n \in 1 .. size PROVE f[n] \in Int
  <2>1. n \in 1 .. Len(Cart)
    BY <1>1, LenProperties, RetailAssumption
  <2>2. Cart[n] \in [item: Items, qty: Int, price: Int]
    BY <2>1, ElementOfSeq, RetailAssumption
  <2> QED
    BY <2>2
<1>3. Total = SumFunctionOnSet(f, 1 .. size)
  BY DEF Total, SumFunction
<1> HIDE DEF f
<1> QED
  BY <1>1, <1>2, <1>3, SumType

\* What a step of Confirm_Cart does, for the sets that the types name.
LEMMA PlaceFacts ==
  ASSUME F!TypeOK, Placement, NEW c, PlaceOrder(c)
  PROVE  /\ \E s \in Stores, t \in Int :
              orders' = Insert(orders, lastOrder', [store |-> s, total |-> t,
                                                    status |-> "Order Placed"])
         /\ lastOrder' = lastOrder + 1 /\ lastOrder' \in OrderIds
         /\ lastOrder' \notin DOMAIN orders /\ lastOrder \in Nat
         /\ c \notin DOMAIN confirm
         /\ confirm' = Insert(confirm, c, [at |-> "lines", order |-> lastOrder',
                                           i |-> 0, overtaken |-> FALSE])
<1>0. lastOrder < MaxOrder /\ lastOrder' = lastOrder + 1
  BY DEF PlaceOrder
<1>1. lastOrder \in Nat /\ lastOrder + 1 \in OrderIds
  BY <1>0, RetailAssumption DEF Placement, OrderIds
<1>2. lastOrder' = lastOrder + 1 /\ lastOrder' \notin DOMAIN orders
  <2>1. lastOrder + 1 \notin 1 .. lastOrder
    BY <1>1
  <2> QED
    BY <1>0, <2>1 DEF Placement
<1>3. Total \in Int
  BY TotalType DEF Placement
<1> QED
  BY <1>1, <1>2, <1>3 DEF PlaceOrder

\* What InsertLine does to its row and to the lines.
LEMMA LineFacts ==
  ASSUME F!TypeOK, Placement, NEW c, InsertLine(c)
  PROVE  /\ c \in DOMAIN confirm /\ confirm[c].at = "lines" /\ confirm[c] \in Placing
         /\ \/ items' = items /\ confirm' = [confirm EXCEPT ![c].at = "done"]
            \/ /\ \E k \in RowIds, i \in Items, q \in Int :
                    /\ k \notin DOMAIN items
                    /\ items' = Insert(items, k, [order |-> confirm[c].order, item |-> i, qty |-> q])
               /\ confirm[c].i < size
               /\ confirm' = [confirm EXCEPT ![c].i = @ + 1,
                                             ![c].overtaken = @ \/ BeingDeleted(confirm[c].order)]
<1>1. c \in DOMAIN confirm /\ confirm[c].at = "lines" /\ confirm[c] \in Placing
  BY DEF InsertLine, Placement, IsTable
<1>2. CASE confirm[c].i >= size /\ confirm' = [confirm EXCEPT ![c].at = "done"] /\ items' = items
  BY <1>1, <1>2
<1>3. CASE ~(confirm[c].i >= size /\ confirm' = [confirm EXCEPT ![c].at = "done"] /\ items' = items)
  <2> DEFINE k == FreshKey(items, RowIds)
             l == Cart[confirm[c].i + 1]
  <2>1. /\ confirm[c].i < size /\ HasRoom(items, RowIds)
        /\ items' = Insert(items, k, [order |-> confirm[c].order, item |-> l.item, qty |-> l.qty])
        /\ confirm' = [confirm EXCEPT ![c].i = @ + 1,
                                      ![c].overtaken = @ \/ BeingDeleted(confirm[c].order)]
    BY <1>3 DEF InsertLine
  <2>2. k \in RowIds /\ k \notin DOMAIN items
    BY <2>1, FreshKeyFacts
  <2>3. l \in [item: Items, qty: Int, price: Int]
    <3>1. Len(Cart) \in Nat /\ size \in 0 .. Len(Cart) /\ confirm[c].i \in 0 .. size
      BY <1>1, RetailAssumption DEF Placing, Placement
    <3>2. confirm[c].i + 1 \in 1 .. Len(Cart)
      BY <2>1, <3>1
    <3> QED
      BY <3>2, ElementOfSeq, RetailAssumption
  <2>4. l.item \in Items /\ l.qty \in Int
    BY <2>3
  <2> HIDE DEF k, l
  <2> QED
    BY <1>1, <2>1, <2>2, <2>4
<1> QED
  BY <1>2, <1>3

\* F!TypeOK with the operators of Table as they are here.
OrderRow == [store: Stores, total: Int, status: {"Order Placed", "Complete"}]
ItemRow  == [order: OrderIds, item: Items, qty: Int]
Request  == F!Shipping \cup F!Editing
WellTyped == /\ stock \in [DOMAIN InitStock -> Int]
             /\ IsTable(orders, OrderIds, OrderRow)
             /\ IsTable(items, RowIds, ItemRow)
             /\ IsTable(warehouseOrders, RowIds, ItemRow)
             /\ IsTable(req, Requests, Request)
             /\ raised \subseteq OrderIds
\* The types of Fulfilment, spelled out without the instance.
LEMMA FulfilmentTypes == (F!TypeOK <=> WellTyped) /\ (F!TypeOK' <=> WellTyped')
BY DEF F!TypeOK, F!Stocked, F!IsTable, IsTable, F!OrderRow, OrderRow, F!ItemRow, ItemRow,
       F!Statuses, Request, WellTyped

\* A step of Purchase takes at most rows away from warehouse_order.
LEMMA PurchaseFacts ==
  ASSUME NEW c, Purchase(c)
  PROVE  /\ UNCHANGED <<stock, orders, items, req, raised, size, confirm, lastOrder, accepted, asked>>
         /\ warehouseOrders' = warehouseOrders
              \/ \E K : warehouseOrders' = Delete(warehouseOrders, K)
<1>1. CASE P!ClearRequests(c)
  BY <1>1 DEF Purchase, P!ClearRequests, P!Delete, P!Restrict, Delete, Restrict, fulfilment, placement
<1> QED
  BY <1>1 DEF Purchase, P!ShowPage, P!WrongBox, P!PlacePurchase, P!Proceed, P!InsertLine, P!FillLine,
              P!ClearRequests, P!Stop, fulfilment, placement

\* A step of Fulfil deletes orders, or changes their rows, but adds none.
LEMMA FulfilFacts ==
  ASSUME F!TypeOK, NEW r \in Requests, Fulfil(r)
  PROVE  /\ UNCHANGED <<purchaseOrders, purchaseItems, buy, size, confirm, lastOrder, accepted>>
         /\ F!TypeOK'
         /\ DOMAIN orders' \subseteq DOMAIN orders
<1>1. FP!Next
  BY FulfilIsStep
<1>2. FP!TypeOK
  BY TypesOfFulfilment
<1>3. FP!TypeOK'
  BY <1>1, <1>2, FulfilmentAssumed, FP!TypeInvariant
<1>4. F!TypeOK'
  BY <1>3, TypesOfFulfilment
<1>5. \/ DOMAIN orders' = DOMAIN orders
      \/ \E K : orders' = FP!Delete(orders, K)
  BY <1>1, <1>2, FulfilmentAssumed, FP!OrdersStay
<1>6. DOMAIN orders' \subseteq DOMAIN orders
  BY <1>5 DEF FP!Delete, FP!Restrict
<1> QED
  BY <1>4, <1>6 DEF Fulfil, purchasing, placement

\* InsertLine adds at most one line, of the order being placed.
LEMMA LineRows ==
  ASSUME F!TypeOK, Placement, NEW c, InsertLine(c)
  PROVE  \/ items' = items
         \/ \E k \in RowIds, i \in Items, q \in Int :
              /\ k \notin DOMAIN items
              /\ items' = Insert(items, k, [order |-> confirm[c].order, item |-> i, qty |-> q])
<1> DEFINE A == \E k \in RowIds, i \in Items, q \in Int :
                  /\ k \notin DOMAIN items
                  /\ items' = Insert(items, k, [order |-> confirm[c].order, item |-> i, qty |-> q])
           B == confirm' = [confirm EXCEPT ![c].i = @ + 1,
                              ![c].overtaken = @ \/ BeingDeleted(confirm[c].order)]
           C == confirm' = [confirm EXCEPT ![c].at = "done"]
<1>1. \/ items' = items /\ C
      \/ A /\ confirm[c].i < size /\ B
  BY ONLY F!TypeOK, Placement, InsertLine(c), LineFacts, Zenon
<1> HIDE DEF A, B, C
<1>2. items' = items \/ A
  BY <1>1
<1> QED
  BY <1>2 DEF A

\* Each step keeps the types of Fulfilment and of the placing of orders.
LEMMA StepKeepsFulfilment == F!TypeOK /\ Placement /\ [Next]_vars => F!TypeOK' /\ Placement'
<1> SUFFICES ASSUME F!TypeOK, Placement, [Next]_vars PROVE F!TypeOK' /\ Placement'
  OBVIOUS
<1>t. /\ stock \in [DOMAIN InitStock -> Int]
      /\ IsTable(orders, OrderIds, OrderRow) /\ IsTable(items, RowIds, ItemRow)
      /\ IsTable(warehouseOrders, RowIds, ItemRow) /\ IsTable(req, Requests, Request)
      /\ raised \subseteq OrderIds
  BY FulfilmentTypes DEF WellTyped
<1>n. Len(Cart) \in Nat /\ MaxOrder \in Nat /\ size \in Nat /\ lastOrder \in Nat
  BY LenProperties, RetailAssumption DEF Placement
<1>f. ASSUME stock' = stock, IsTable(orders', OrderIds, OrderRow),
             IsTable(items', RowIds, ItemRow), IsTable(warehouseOrders', RowIds, ItemRow),
             req' = req, raised' = raised
      PROVE  F!TypeOK'
  <2>1. /\ stock' \in [DOMAIN InitStock -> Int]
        /\ IsTable(req', Requests, Request) /\ raised' \subseteq OrderIds
    BY <1>t, <1>f
  <2> QED
    BY <1>f, <2>1, FulfilmentTypes DEF WellTyped
<1>1. CASE AddItem
  <2>1. F!TypeOK'
    BY <1>1, <1>t, <1>f DEF AddItem, fulfilment
  <2>2. UNCHANGED <<orders, confirm, lastOrder>> /\ size < Len(Cart) /\ size' = size + 1
    BY <1>1 DEF AddItem, fulfilment
  <2>3. size' \in 0 .. Len(Cart) /\ 0 .. size \subseteq 0 .. size'
    BY <1>n, <2>2
  <2>4. IsTable(confirm', Confirms, Placing')
    BY <2>2, <2>3 DEF Placement, IsTable, Placing
  <2> QED
    BY <2>1, <2>2, <2>3, <2>4 DEF Placement
<1>2. ASSUME NEW c \in Confirms, PlaceOrder(c) PROVE F!TypeOK' /\ Placement'
  <2>1. PICK s \in Stores, t \in Int :
          orders' = Insert(orders, lastOrder', [store |-> s, total |-> t, status |-> "Order Placed"])
    BY <1>2, PlaceFacts
  <2>2. /\ lastOrder' = lastOrder + 1 /\ lastOrder' \in OrderIds
        /\ confirm' = Insert(confirm, c, [at |-> "lines", order |-> lastOrder',
                                          i |-> 0, overtaken |-> FALSE])
    BY <1>2, PlaceFacts
  <2>3. UNCHANGED <<stock, items, req, raised, warehouseOrders, size>>
    BY <1>2 DEF PlaceOrder
  <2>4. [store |-> s, total |-> t, status |-> "Order Placed"] \in OrderRow
    BY DEF OrderRow
  <2>5. IsTable(orders', OrderIds, OrderRow)
    BY <1>t, <2>1, <2>2, <2>4, InsertIsTable
  <2>6. F!TypeOK'
    BY <1>t, <1>f, <2>3, <2>5
  <2>7. 1 .. lastOrder' = (1 .. lastOrder) \cup {lastOrder'} /\ lastOrder' \in 0 .. MaxOrder
    BY <1>n, <2>2 DEF OrderIds
  <2>8. DOMAIN orders' \subseteq 1 .. lastOrder'
    BY <2>1, <2>7 DEF Placement, Insert
  <2>9. [at |-> "lines", order |-> lastOrder', i |-> 0, overtaken |-> FALSE] \in Placing'
    BY <1>n, <2>3, <2>7 DEF Placing
  <2>10. IsTable(confirm, Confirms, Placing')
    BY <2>3, <2>7 DEF Placement, IsTable, Placing
  <2>11. IsTable(confirm', Confirms, Placing')
    BY <2>2, <2>9, <2>10, InsertIsTable
  <2> QED
    BY <2>3, <2>6, <2>7, <2>8, <2>11 DEF Placement
<1>3. ASSUME NEW c \in Confirms, InsertLine(c) PROVE F!TypeOK' /\ Placement'
  <2>1. c \in DOMAIN confirm /\ confirm[c] \in Placing
    BY <1>3, LineFacts
  <2>2. UNCHANGED <<stock, orders, req, raised, warehouseOrders, size, lastOrder>>
    BY <1>3 DEF InsertLine
  <2>3. IsTable(items', RowIds, ItemRow)
    <3>1. ASSUME NEW k \in RowIds, NEW i \in Items, NEW q \in Int,
                 items' = Insert(items, k, [order |-> confirm[c].order, item |-> i, qty |-> q])
          PROVE  IsTable(items', RowIds, ItemRow)
      <4>1. confirm[c].order \in OrderIds
        BY <1>n, <2>1 DEF Placing, Placement, OrderIds
      <4>2. [order |-> confirm[c].order, item |-> i, qty |-> q] \in ItemRow
        BY <4>1 DEF ItemRow
      <4> QED
        BY <1>t, <3>1, <4>2, InsertIsTable
    <3>2. \/ items' = items
          \/ \E k \in RowIds, i \in Items, q \in Int :
               items' = Insert(items, k, [order |-> confirm[c].order, item |-> i, qty |-> q])
      BY <1>3, LineRows
    <3>3. CASE items' = items
      BY <1>t, <3>3
    <3> QED
      BY <3>1, <3>2, <3>3
  <2>4. F!TypeOK'
    BY <1>t, <1>f, <2>2, <2>3
  <2>5. PICK row \in Placing : confirm' = [confirm EXCEPT ![c] = row]
    <3>1. CASE confirm' = [confirm EXCEPT ![c].at = "done"]
      <4>1. [confirm[c] EXCEPT !.at = "done"] \in Placing
        BY <2>1 DEF Placing
      <4>2. confirm' = [confirm EXCEPT ![c] = [confirm[c] EXCEPT !.at = "done"]]
        BY <3>1
      <4> QED
        BY <4>1, <4>2
    <3>2. CASE /\ confirm[c].i < size
               /\ confirm' = [confirm EXCEPT ![c].i = @ + 1,
                                ![c].overtaken = @ \/ BeingDeleted(confirm[c].order)]
      <4> DEFINE row == [confirm[c] EXCEPT !.i = @ + 1,
                                           !.overtaken = @ \/ BeingDeleted(confirm[c].order)]
      <4>1. row \in Placing
        <5>1. confirm[c].i + 1 \in 0 .. size
          BY <1>n, <2>1, <3>2 DEF Placing
        <5>2. PICK b \in BOOLEAN : b = (confirm[c].overtaken \/ BeingDeleted(confirm[c].order))
          OBVIOUS
        <5>3. [confirm[c] EXCEPT !.i = @ + 1, !.overtaken = b] \in Placing
          BY <2>1, <5>1 DEF Placing
        <5> QED
          BY <5>2, <5>3
      <4>2. confirm' = [confirm EXCEPT ![c] = row]
        BY <3>2
      <4> HIDE DEF row
      <4> QED
        BY <4>1, <4>2
    <3> QED
      BY <1>3, <3>1, <3>2, LineFacts
  <2>6. IsTable(confirm', Confirms, Placing)
    BY <2>1, <2>5, ReplaceIsTable DEF Placement
  <2>7. Placing' = Placing
    BY <2>2 DEF Placing
  <2>8. Placement'
    BY <2>2, <2>6, <2>7 DEF Placement
  <2> QED
    BY <2>4, <2>8
<1>4. ASSUME NEW c \in Confirms, StopPlacing(c) PROVE F!TypeOK' /\ Placement'
  <2>1. c \in DOMAIN confirm /\ confirm' = [confirm EXCEPT ![c].at = "stopped"]
    BY <1>4 DEF StopPlacing
  <2>2. UNCHANGED <<stock, orders, items, req, raised, warehouseOrders, size, lastOrder>>
    BY <1>4 DEF StopPlacing, fulfilment
  <2>3. confirm[c] \in Placing
    BY <2>1 DEF Placement, IsTable
  <2>4. [confirm[c] EXCEPT !.at = "stopped"] \in Placing
    BY <2>3 DEF Placing
  <2>5. PICK row \in Placing : confirm' = [confirm EXCEPT ![c] = row]
    BY <2>1, <2>4
  <2>6. c \in DOMAIN confirm
    BY <2>1
  <2>7. IsTable(confirm', Confirms, Placing)
    BY <2>5, <2>6, ReplaceIsTable DEF Placement
  <2>8. Placing' = Placing
    BY <2>2 DEF Placing
  <2>9. Placement'
    BY <2>2, <2>7, <2>8 DEF Placement
  <2> QED
    BY <1>t, <1>f, <2>2, <2>9
<1>5. ASSUME NEW r \in Requests, Fulfil(r) PROVE F!TypeOK' /\ Placement'
  <2>1. /\ UNCHANGED <<size, confirm, lastOrder>> /\ F!TypeOK'
        /\ DOMAIN orders' \subseteq DOMAIN orders
    BY <1>5, FulfilFacts
  <2> QED
    BY <2>1 DEF Placement, Placing
<1>6. ASSUME NEW c \in Clicks, Purchase(c) PROVE F!TypeOK' /\ Placement'
  <2>1. /\ UNCHANGED <<stock, orders, items, req, raised, size, confirm, lastOrder>>
        /\ warehouseOrders' = warehouseOrders \/ \E K : warehouseOrders' = Delete(warehouseOrders, K)
    BY <1>6, PurchaseFacts
  <2>2. IsTable(warehouseOrders', RowIds, ItemRow)
    BY <1>t, <2>1, DeleteIsTable
  <2>3. Placement'
    BY <2>1 DEF Placement, Placing
  <2> QED
    BY <1>t, <1>f, <2>1, <2>2, <2>3
<1>7. CASE UNCHANGED vars
  <2>1. UNCHANGED <<stock, orders, items, req, raised, warehouseOrders, size, confirm, lastOrder>>
    BY <1>7 DEF vars, fulfilment, placement
  <2>2. Placement'
    BY <2>1 DEF Placement, Placing
  <2> QED
    BY <1>t, <1>f, <2>1, <2>2
<1> QED
  BY <1>1, <1>2, <1>3, <1>4, <1>5, <1>6, <1>7 DEF Next

\* They hold initially.
LEMMA InitFulfilment == Init => F!TypeOK /\ Placement
<1> SUFFICES ASSUME Init PROVE F!TypeOK /\ Placement
  OBVIOUS
<1>1. WellTyped
  BY RetailAssumption DEF Init, F!Init, P!Init, NoRows, WellTyped, IsTable
<1>2. Len(Cart) \in Nat /\ MaxOrder \in Nat
  BY LenProperties, RetailAssumption
<1>3. Placement
  BY <1>2 DEF Init, F!Init, NoRows, Placement, IsTable
<1> QED
  BY <1>1, <1>3, FulfilmentTypes

\* So they hold in every reachable state.
LEMMA FulfilmentHolds == Spec => [](F!TypeOK /\ Placement)
BY InitFulfilment, StepKeepsFulfilment, PTL DEF Spec

-----------------------------------------------------------------------------
(* Purchasing among the others.                                            *)

\* What purchasing sees of a step of the others is a row of some quantity that
\* arrives, or nothing.
RowArrives ==
  /\ P!HasRoom(warehouseOrders, RowIds)
  /\ \E row \in [order: OrderIds, item: Items, qty: Int] :
       /\ warehouseOrders' = P!Insert(warehouseOrders, P!FreshKey(warehouseOrders, RowIds), row)
       /\ asked' = asked \cup {row.order}
  /\ UNCHANGED <<purchaseOrders, purchaseItems, buy>>

\* To purchasing, a step of shipping or editing is a row that arrives, or nothing.
LEMMA FulfilArrives ==
  ASSUME F!TypeOK, NEW r \in Requests, Fulfil(r)
  PROVE  RowArrives \/ UNCHANGED P!vars
<1>1. CASE F!Reorder(r) /\ asked' = asked \cup {req[r].order}
  <2>1. req[r] \in F!Shipping
    BY <1>1 DEF F!Reorder, F!At, F!TypeOK, F!IsTable, F!Shipping, F!Editing
  <2> DEFINE row == F!Wanted(req[r])
  <2>2. row \in [order: OrderIds, item: Items, qty: Int] /\ row.order = req[r].order
    BY <2>1 DEF F!Wanted, F!Shipping
  <2>3. /\ P!HasRoom(warehouseOrders, RowIds)
        /\ warehouseOrders' = P!Insert(warehouseOrders, P!FreshKey(warehouseOrders, RowIds), row)
    BY <1>1 DEF F!Reorder, F!HasRoom, P!HasRoom, F!Insert, P!Insert, F!FreshKey, P!FreshKey
  <2> HIDE DEF row
  <2>4. UNCHANGED <<purchaseOrders, purchaseItems, buy>>
    BY FulfilFacts
  <2> QED
    BY <1>1, <2>2, <2>3, <2>4 DEF RowArrives
<1>2. CASE ~(F!Reorder(r) /\ asked' = asked \cup {req[r].order})
  <2>1. UNCHANGED <<asked, warehouseOrders>>
    BY <1>2 DEF Fulfil, F!OpenForm, F!Debit, F!Credit, F!MarkComplete, F!CheckStock, F!UpdateOrder,
       F!DeleteLines, F!DropOrder, F!StopEarly, F!tables
  <2> QED
    BY <2>1, FulfilFacts DEF P!vars
<1> QED
  BY <1>1, <1>2

\* A step of a click.
Clicking(c) == P!ShowPage(c) \/ P!WrongBox(c) \/ P!PlacePurchase(c) \/ P!Proceed(c) \/ P!Stop(c)

\* To purchasing, a step of the whole is a row that arrives, a click, or nothing.
LEMMA StepForPurchasing ==
  ASSUME F!TypeOK, [Next]_vars
  PROVE  RowArrives \/ (\E c \in Clicks : Clicking(c)) \/ UNCHANGED P!vars
<1>1. ASSUME NEW r \in Requests, Fulfil(r) PROVE RowArrives \/ UNCHANGED P!vars
  BY <1>1, FulfilArrives
<1>2. ASSUME NEW c \in Clicks, Purchase(c) PROVE Clicking(c)
  BY <1>2 DEF Purchase, Clicking
<1>3. CASE AddItem
  BY <1>3 DEF AddItem, P!vars, purchasing
<1>4. ASSUME NEW c \in Confirms, PlaceOrder(c) \/ InsertLine(c) \/ StopPlacing(c)
      PROVE  UNCHANGED P!vars
  BY <1>4 DEF PlaceOrder, InsertLine, StopPlacing, P!vars, purchasing
<1>5. CASE UNCHANGED vars
  BY <1>5 DEF vars, P!vars, purchasing
<1> QED
  BY <1>1, <1>2, <1>3, <1>4, <1>5 DEF Next

\* To purchasing, orders that are placed, shipped, edited and deleted by the
\* others are no more than requests that arrive: what is proved of purchasing
\* on its own holds of it here.
THEOREM PurchasingStandsAlone ==
  ASSUME Shippable = Int
  PROVE  Spec => PurchasingIsUndisturbed
<1>1. Init => P!Init
  BY DEF Init
<1>2. ASSUME F!TypeOK, [Next]_vars PROVE [P!Next]_(P!vars)
  <2>1. RowArrives => P!Arrive
    BY DEF RowArrives, P!Arrive, P!WantedRow
  <2>2. \A c \in Clicks : Clicking(c) => P!Next
    BY DEF Clicking, P!Next
  <2> QED
    BY <1>2, <2>1, <2>2, StepForPurchasing DEF P!Next
<1>3. F!TypeOK /\ [Next]_vars => [P!Next]_(P!vars)
  BY <1>2
<1> QED
  BY <1>1, <1>3, FulfilmentHolds, PTL DEF Spec, PurchasingIsUndisturbed, P!Spec

\* Purchasing here is the Purchasing whose theorems are proved, of any
\* quantities.
LEMMA StepOfPurchasing ==
  ASSUME F!TypeOK, [Next]_vars
  PROVE  [PP!Next]_(PP!vars)
<1>1. RowArrives => PP!Arrive
  BY DEF RowArrives, PP!Arrive, P!HasRoom, PP!HasRoom, P!FreshKey, PP!FreshKey, P!Insert, PP!Insert,
         PP!WantedRow
<1>2. ASSUME NEW c \in Clicks
      PROVE  /\ P!ShowPage(c) => PP!ShowPage(c)
             /\ P!WrongBox(c) => PP!WrongBox(c)
             /\ P!Stop(c) => PP!Stop(c)
  BY DEF P!ShowPage, PP!ShowPage, P!WrongBox, PP!WrongBox, P!Stop, PP!Stop, P!At, PP!At,
         P!Goto, PP!Goto, P!Insert, PP!Insert, P!Busy, PP!Busy, P!Running, PP!Running
<1>3. ASSUME NEW c \in Clicks PROVE P!PlacePurchase(c) => PP!PlacePurchase(c)
  BY DEF P!PlacePurchase, PP!PlacePurchase, P!At, PP!At, P!NextPo, PP!NextPo, P!LastPo, PP!LastPo,
         P!Max, PP!Max, P!Busy, PP!Busy, P!Running, PP!Running, P!Insert, PP!Insert
<1>4. ASSUME NEW c \in Clicks PROVE P!InsertLine(c) => PP!InsertLine(c)
  BY DEF P!InsertLine, PP!InsertLine, P!At, PP!At, P!Goto, PP!Goto, P!HasRoom, PP!HasRoom,
         P!FreshKey, PP!FreshKey, P!Insert, PP!Insert, P!NewestPo, PP!NewestPo, P!LastPo, PP!LastPo,
         P!Max, PP!Max
<1>5. ASSUME NEW c \in Clicks PROVE P!FillLine(c) => PP!FillLine(c)
  BY DEF P!FillLine, PP!FillLine, P!At, PP!At, P!Goto, PP!Goto, P!NewestLines, PP!NewestLines,
         P!NewestPo, PP!NewestPo, P!LastPo, PP!LastPo, P!Max, PP!Max, P!Filled, PP!Filled
<1>6. ASSUME NEW c \in Clicks PROVE P!ClearRequests(c) => PP!ClearRequests(c)
  BY DEF P!ClearRequests, PP!ClearRequests, P!At, PP!At, P!Goto, PP!Goto, P!Delete, PP!Delete,
         P!Restrict, PP!Restrict, P!Dropped, PP!Dropped
<1>7. \A c \in Clicks : Clicking(c) => PP!Next
  BY <1>2, <1>3, <1>4, <1>5, <1>6 DEF Clicking, PP!Next, P!Proceed, PP!Proceed
<1>8. UNCHANGED P!vars => UNCHANGED PP!vars
  BY DEF P!vars, PP!vars
<1> QED
  BY <1>1, <1>7, <1>8, StepForPurchasing DEF PP!Next

\* The types of an int hold for the quantities of an instance, if those are the ints.
LEMMA TypesOfPurchasing == ASSUME Shippable = Int PROVE PP!TypeOK => P!TypeOK
BY DEF PP!TypeOK, P!TypeOK, PP!IsTable, P!IsTable, PP!WantedRow, P!WantedRow, PP!LineRow, P!LineRow,
       PP!Click, P!Click, PP!Running, P!Running

\* What PurchasingProofs shows of purchasing alone holds of it here.
LEMMA PurchasingHolds == Spec => [](PP!Sound /\ PP!NoRequestVanishes)
<1>1. Init => PP!Sound /\ PP!NoRequestVanishes
  <2>1. Init => PP!Init
    BY DEF Init, P!Init, PP!Init
  <2>2. PP!Init => PP!NoRequestVanishes
    BY DEF PP!Init, PP!NoRequestVanishes
  <2> QED
    BY <2>1, <2>2, PurchasingAssumed, PP!InitSound
<1>2. F!TypeOK /\ [Next]_vars => [PP!Next]_(PP!vars)
  BY StepOfPurchasing
<1>3. /\ PP!Sound /\ [PP!Next]_(PP!vars) => PP!Sound'
      /\ PP!Sound /\ PP!NoRequestVanishes /\ [PP!Next]_(PP!vars) => PP!NoRequestVanishes'
  BY PurchasingAssumed, PP!StepSound, PP!StepKeepsRequests
<1> QED
  BY <1>1, <1>2, <1>3, FulfilmentHolds, PTL DEF Spec

\* In the whole program, too, no order's requests vanish unbought, a click that
\* nobody overlapped buys what its row asked for, the newest purchase order has
\* an item once it is filled in, overtaken lines stay, and the four statements
\* implement Procurement: the theorems about Purchasing, whose warehouses may
\* ask for anything, are about these steps.
THEOREM PurchasingKeepsItsWord ==
  Spec => /\ []PP!NoRequestVanishes
          /\ []PP!AlonePurchaseMatches
          /\ []PP!NewestIsFilled
          /\ PP!OldLinesAreFinal
          /\ PP!FollowsProcurement
<1>1. Init => PP!Init
  BY DEF Init, P!Init, PP!Init
<1>2. F!TypeOK /\ [Next]_vars => [PP!Next]_(PP!vars)
  BY StepOfPurchasing
<1>3. Spec => PP!Spec
  BY <1>1, <1>2, FulfilmentHolds, PTL DEF Spec, PP!Spec
<1>4. /\ PP!Spec => []PP!NoRequestVanishes
      /\ PP!Spec => []PP!AlonePurchaseMatches
      /\ PP!Spec => []PP!NewestIsFilled
      /\ PP!Spec => PP!OldLinesAreFinal
      /\ PP!Spec => PP!FollowsProcurement
  BY PurchasingAssumed, PP!RequestsAreKept, PP!AloneBuysItsRow, PP!NewestHasItem,
     PP!OvertakenLinesStay, PP!ImplementsProcurement
<1> QED
  BY <1>3, <1>4

\* All tables of the program keep the types of their columns, and everything
\* that runs is at a statement of its servlet, when all of it shares one
\* database and every order is placed, shipped, edited, deleted and bought for
\* under the others' hands.
THEOREM TypeCorrect ==
  ASSUME Shippable = Int
  PROVE  Spec => []TypeOK
<1>1. F!TypeOK /\ Placement /\ PP!Sound => TypeOK
  BY TypesOfPurchasing DEF PP!Sound, TypeOK, Placement, Placing
<1> QED
  BY <1>1, FulfilmentHolds, PurchasingHolds, PTL

-----------------------------------------------------------------------------
(* Lines without an order.                                                 *)

\* A Confirm_Cart of order o has inserted a line after the order was deleted.
CutShort(o) == \E c \in DOMAIN confirm : confirm[c].order = o /\ confirm[c].overtaken

\* The lines that a DeleteOrder is about to leave behind are of such an order.
DropsAreCutShort ==
  \A r \in DOMAIN req : req[r].at = "drop" =>
    \A k \in DOMAIN items : items[k].order = req[r].order => CutShort(req[r].order)

\* What a step of Fulfil does to lines, orders and deletes under way.
LEMMA FulfilMoves ==
  ASSUME F!TypeOK, NEW r \in Requests, Fulfil(r)
  PROVE  /\ DOMAIN items' \subseteq DOMAIN items
         /\ \A k \in DOMAIN items' : items'[k].order = items[k].order
         /\ \/ DOMAIN orders' = DOMAIN orders
            \/ \E d \in DOMAIN req : /\ req[d].at = "drop"
                                     /\ DOMAIN orders' = DOMAIN orders \ {req[d].order}
         /\ \A d \in DOMAIN req' : req'[d].at = "drop" =>
              \/ d \in DOMAIN req /\ req[d].at = "drop" /\ req'[d].order = req[d].order
              \/ \A k \in DOMAIN items' : items'[k].order # req'[d].order
<1>1. FP!Next /\ FP!TypeOK
  BY FulfilIsStep, TypesOfFulfilment
<1>2. FP!LinesStay
  BY <1>1, FulfilmentAssumed, FP!StepKeepsLines
<1>3. \/ DOMAIN orders' = DOMAIN orders
      \/ \E d \in DOMAIN req : /\ req[d].at = "drop"
                               /\ orders' = FP!Delete(orders, {req[d].order})
  BY <1>1, FulfilmentAssumed, FP!OrdersStay
<1>4. \A d \in DOMAIN req' : req'[d].at = "drop" =>
        \/ d \in DOMAIN req /\ req[d].at = "drop" /\ req'[d].order = req[d].order
        \/ \A k \in DOMAIN items' : items'[k].order # req'[d].order
  BY <1>1, FulfilmentAssumed, FP!DropsStart
<1> QED
  BY <1>2, <1>3, <1>4 DEF FP!LinesStay, FP!Delete, FP!Restrict

\* An order that was cut short stays so.
LEMMA CutShortStays ==
  ASSUME F!TypeOK, Placement, [Next]_vars, NEW o, CutShort(o)
  PROVE  CutShort(o)'
<1>1. PICK c \in DOMAIN confirm : confirm[c].order = o /\ confirm[c].overtaken
  BY DEF CutShort
<1>2. confirm[c] \in Placing
  BY DEF Placement, IsTable
<1>3. ASSUME c \in DOMAIN confirm', confirm'[c].order = o, confirm'[c].overtaken
      PROVE  CutShort(o)'
  BY <1>3 DEF CutShort
<1>4. CASE UNCHANGED confirm
  BY <1>1, <1>3, <1>4
<1>5. ASSUME NEW d \in Confirms, PlaceOrder(d) PROVE CutShort(o)'
  <2>1. PICK row : d \notin DOMAIN confirm /\ confirm' = Insert(confirm, d, row)
    BY <1>5, PlaceFacts
  <2> QED
    BY <1>1, <1>3, <2>1 DEF Insert
<1>6. ASSUME NEW d \in Confirms, StopPlacing(d) PROVE CutShort(o)'
  <2>1. confirm' = [confirm EXCEPT ![d].at = "stopped"]
    BY <1>6 DEF StopPlacing
  <2>2. c \in DOMAIN confirm' /\ confirm'[c].order = o /\ confirm'[c].overtaken
    BY <1>1, <1>2, <2>1 DEF Placing
  <2> QED
    BY <1>3, <2>2
<1>7. ASSUME NEW d \in Confirms, InsertLine(d) PROVE CutShort(o)'
  <2>1. \/ confirm' = [confirm EXCEPT ![d].at = "done"]
        \/ confirm' = [confirm EXCEPT ![d].i = @ + 1,
                         ![d].overtaken = @ \/ BeingDeleted(confirm[d].order)]
    BY <1>7 DEF InsertLine
  <2>2. CASE confirm' = [confirm EXCEPT ![d].at = "done"]
    BY <1>1, <1>2, <1>3, <2>2 DEF Placing
  <2>3. CASE confirm' = [confirm EXCEPT ![d].i = @ + 1,
                           ![d].overtaken = @ \/ BeingDeleted(confirm[d].order)]
    <3>1. c \in DOMAIN confirm' /\ (c # d => confirm'[c] = confirm[c])
      BY <2>3
    <3>2. CASE c = d
      <4>1. confirm'[c] = [confirm[c] EXCEPT !.i = @ + 1,
                             !.overtaken = @ \/ BeingDeleted(confirm[c].order)]
        BY <2>3, <3>2
      <4>2. confirm'[c].order = o /\ confirm'[c].overtaken
        BY <1>1, <1>2, <4>1 DEF Placing
      <4> QED
        BY <1>3, <3>1, <4>2
    <3> QED
      BY <1>1, <1>3, <3>1, <3>2
  <2> QED
    BY <2>1, <2>2, <2>3
<1>8. ASSUME NEW r \in Requests, Fulfil(r) PROVE CutShort(o)'
  BY <1>4, <1>8 DEF Fulfil, placement
<1>9. ASSUME NEW b \in Clicks, Purchase(b) PROVE CutShort(o)'
  BY <1>4, <1>9 DEF Purchase, placement
<1>10. UNCHANGED vars => UNCHANGED confirm
  BY DEF vars, placement
<1>11. AddItem => UNCHANGED confirm
  BY DEF AddItem
<1> QED
  BY <1>4, <1>5, <1>6, <1>7, <1>8, <1>9, <1>10, <1>11 DEF Next

\* A line inserted under the hands of a delete is one that cuts its order short.
LEMMA LateLineCutsShort ==
  ASSUME F!TypeOK, Placement, NEW c, InsertLine(c), items' # items,
         NEW o, o = confirm[c].order, BeingDeleted(o)
  PROVE  CutShort(o)'
<1>1. c \in DOMAIN confirm /\ confirm[c] \in Placing
  BY LineFacts
<1>2. confirm' = [confirm EXCEPT ![c].i = @ + 1,
                    ![c].overtaken = @ \/ BeingDeleted(confirm[c].order)]
  BY DEF InsertLine
<1>3. confirm'[c] = [confirm[c] EXCEPT !.i = @ + 1,
                       !.overtaken = @ \/ BeingDeleted(confirm[c].order)]
  BY <1>1, <1>2
<1>4. c \in DOMAIN confirm' /\ confirm'[c].order = confirm[c].order /\ confirm'[c].overtaken
  BY <1>1, <1>2, <1>3 DEF Placing
<1> QED
  BY <1>4 DEF CutShort

\* Each step keeps lines without orders to those whose order was overtaken.
LEMMA StepKeepsOrphans ==
  /\ F!TypeOK /\ Placement /\ DropsAreCutShort /\ OrphansAreCutShort
  /\ [Next]_vars
  => DropsAreCutShort' /\ OrphansAreCutShort'
<1> SUFFICES ASSUME F!TypeOK, Placement, DropsAreCutShort, OrphansAreCutShort, [Next]_vars
             PROVE  DropsAreCutShort' /\ OrphansAreCutShort'
  OBVIOUS
<1>d. \A o : BeingDeleted(o) => \A k \in DOMAIN items : items[k].order = o => CutShort(o)
  BY DEF BeingDeleted, DropsAreCutShort, OrphansAreCutShort, CutShort
<1>k. \A o : CutShort(o) => CutShort(o)'
  BY CutShortStays
<1>g. ASSUME \A o, k : BeingDeleted(o)' /\ k \in DOMAIN items' /\ items'[k].order = o => CutShort(o)'
      PROVE  DropsAreCutShort' /\ OrphansAreCutShort'
  <2>1. ASSUME NEW r \in DOMAIN req', req'[r].at = "drop",
               NEW k \in DOMAIN items', items'[k].order = req'[r].order
        PROVE  CutShort(req[r].order)'
    <3>1. PICK o : o = req'[r].order
      OBVIOUS
    <3>2. BeingDeleted(o)'
      BY <2>1, <3>1 DEF BeingDeleted
    <3>3. CutShort(o)'
      BY <1>g, <2>1, <3>1, <3>2
    <3> QED
      BY <3>1, <3>3 DEF CutShort
  <2>2. ASSUME NEW k \in DOMAIN items', items'[k].order \notin DOMAIN orders'
        PROVE  \E c \in DOMAIN confirm' : confirm'[c].order = items'[k].order /\ confirm'[c].overtaken
    <3>1. PICK o : o = items'[k].order
      OBVIOUS
    <3>2. BeingDeleted(o)'
      BY <2>2, <3>1 DEF BeingDeleted
    <3>3. CutShort(o)'
      BY <1>g, <3>1, <3>2
    <3> QED
      BY <3>1, <3>3 DEF CutShort
  <2> QED
    BY <2>1, <2>2 DEF DropsAreCutShort, OrphansAreCutShort
\* Nothing is deleted that was not being deleted, and no line is new.
<1>q. ASSUME DOMAIN items' \subseteq DOMAIN items,
             \A k \in DOMAIN items' : items'[k].order = items[k].order,
             \A o, k : BeingDeleted(o)' /\ k \in DOMAIN items' /\ items'[k].order = o => BeingDeleted(o)
      PROVE  DropsAreCutShort' /\ OrphansAreCutShort'
  BY <1>q, <1>d, <1>k, <1>g
<1>1. CASE UNCHANGED <<orders, items, req>>
  <2>1. \A o : BeingDeleted(o)' => BeingDeleted(o)
    BY <1>1 DEF BeingDeleted
  <2> QED
    BY <1>1, <2>1, <1>q
<1>2. ASSUME NEW c \in Confirms, PlaceOrder(c) PROVE DropsAreCutShort' /\ OrphansAreCutShort'
  <2>1. PICK row : orders' = Insert(orders, lastOrder', row)
    BY <1>2, PlaceFacts
  <2>2. UNCHANGED <<items, req>> /\ DOMAIN orders \subseteq DOMAIN orders'
    BY <1>2, <2>1 DEF PlaceOrder, Insert
  <2>3. \A o : BeingDeleted(o)' => BeingDeleted(o)
    BY <2>2 DEF BeingDeleted
  <2> QED
    BY <2>2, <2>3, <1>q
<1>3. ASSUME NEW c \in Confirms, InsertLine(c) PROVE DropsAreCutShort' /\ OrphansAreCutShort'
  <2>1. UNCHANGED <<orders, req>>
    BY <1>3 DEF InsertLine
  <2>2. CASE items' = items
    BY <2>1, <2>2, <1>1
  <2>3. CASE items' # items
    <3>1. PICK j, i, q : /\ j \notin DOMAIN items
                         /\ items' = Insert(items, j, [order |-> confirm[c].order, item |-> i, qty |-> q])
      BY <1>3, <2>3, LineRows
    <3>2. PICK p : p = confirm[c].order
      OBVIOUS
    <3>3. /\ DOMAIN items' = DOMAIN items \cup {j} /\ items'[j].order = p
          /\ \A k \in DOMAIN items : items'[k] = items[k]
      BY <3>1, <3>2 DEF Insert
    <3>4. \A o : BeingDeleted(o)' => BeingDeleted(o)
      BY <2>1 DEF BeingDeleted
    <3>5. BeingDeleted(p) => CutShort(p)'
      BY <1>3, <2>3, <3>2, LateLineCutsShort
    <3> QED
      BY <3>3, <3>4, <3>5, <1>d, <1>k, <1>g
  <2> QED
    BY <2>2, <2>3
<1>4. ASSUME NEW r \in Requests, Fulfil(r) PROVE DropsAreCutShort' /\ OrphansAreCutShort'
  <2>1. /\ DOMAIN items' \subseteq DOMAIN items
        /\ \A k \in DOMAIN items' : items'[k].order = items[k].order
        /\ \/ DOMAIN orders' = DOMAIN orders
           \/ \E d \in DOMAIN req : /\ req[d].at = "drop"
                                    /\ DOMAIN orders' = DOMAIN orders \ {req[d].order}
        /\ \A d \in DOMAIN req' : req'[d].at = "drop" =>
             \/ d \in DOMAIN req /\ req[d].at = "drop" /\ req'[d].order = req[d].order
             \/ \A k \in DOMAIN items' : items'[k].order # req'[d].order
    BY <1>4, FulfilMoves
  <2>2. ASSUME NEW o, NEW k \in DOMAIN items', BeingDeleted(o)', items'[k].order = o
        PROVE  BeingDeleted(o)
    <3>1. CASE o \notin DOMAIN orders'
      BY <2>1, <3>1 DEF BeingDeleted
    <3>2. CASE \E d \in DOMAIN req' : req'[d].at = "drop" /\ req'[d].order = o
      BY <2>1, <2>2, <3>2 DEF BeingDeleted
    <3> QED
      BY <2>2, <3>1, <3>2 DEF BeingDeleted
  <2> QED
    BY <2>1, <2>2, <1>q
<1>5. ASSUME AddItem \/ (\E c \in Confirms : StopPlacing(c)) \/ (\E c \in Clicks : Purchase(c))
      PROVE  UNCHANGED <<orders, items, req>>
  BY <1>5 DEF AddItem, StopPlacing, Purchase, fulfilment
<1>6. UNCHANGED vars => UNCHANGED <<orders, items, req>>
  BY DEF vars, fulfilment
<1> QED
  BY <1>1, <1>2, <1>3, <1>4, <1>5, <1>6 DEF Next

\* A line without an order is one that Confirm_Cart inserted behind a delete's
\* back: deletes that stop between their statements, shipments and edits never
\* leave one, in whatever order their statements run.
THEOREM OrphansComeLate == Spec => []OrphansAreCutShort
<1>1. Init => DropsAreCutShort /\ OrphansAreCutShort
  <2>1. Init => DOMAIN items = {}
    BY DEF Init, F!Init, NoRows
  <2> QED
    BY <2>1 DEF DropsAreCutShort, OrphansAreCutShort
<1> QED
  BY <1>1, StepKeepsOrphans, FulfilmentHolds, PTL DEF Spec

-----------------------------------------------------------------------------
(* Where purchases come from.                                              *)

\* What the shipments that ran all their statements asked for.
Shipments == {F!Wanted(req[r]) : r \in {d \in DOMAIN req : Done(d)}}

\* A shipment that is done stays as it is.
LEMMA ShipmentsStay ==
  ASSUME F!TypeOK, [Next]_vars
  PROVE  /\ \A r \in DOMAIN req : Done(r) => r \in DOMAIN req' /\ req'[r] = req[r]
         /\ Shipments \subseteq Shipments'
<1>1. ASSUME NEW d \in DOMAIN req, Done(d) PROVE d \in DOMAIN req' /\ req'[d] = req[d]
  <2>1. CASE UNCHANGED req
    BY <2>1
  <2>2. ASSUME NEW r \in Requests, Fulfil(r) PROVE d \in DOMAIN req' /\ req'[d] = req[d]
    <3>1. req[d].at \in FP!Ended
      BY <1>1 DEF Done, FP!Ended
    <3> QED
      BY <2>2, <3>1, FulfilIsStep, FulfilmentAssumed, FP!EndedStays
  <2>3. \/ UNCHANGED req
        \/ \E r \in Requests : Fulfil(r)
    BY DEF Next, vars, fulfilment, AddItem, PlaceOrder, InsertLine, StopPlacing, Purchase
  <2> QED
    BY <2>1, <2>2, <2>3
<1>2. ASSUME NEW d \in DOMAIN req, Done(d) PROVE F!Wanted(req[d]) \in Shipments'
  BY <1>1, <1>2 DEF Shipments, Done
<1> QED
  BY <1>1, <1>2 DEF Shipments

\* The only rows that arrive in warehouse_order are those of such shipments.
LEMMA RowsAreShipped ==
  ASSUME F!TypeOK, [Next]_vars, NEW k \in DOMAIN warehouseOrders'
  PROVE  \/ k \in DOMAIN warehouseOrders /\ warehouseOrders'[k] = warehouseOrders[k]
         \/ warehouseOrders'[k] \in Shipments'
<1>1. ASSUME NEW r \in Requests, F!Reorder(r)
      PROVE  \/ k \in DOMAIN warehouseOrders /\ warehouseOrders'[k] = warehouseOrders[k]
             \/ warehouseOrders'[k] \in Shipments'
  <2>1. PICK j : warehouseOrders' = F!Insert(warehouseOrders, j, F!Wanted(req[r]))
    BY <1>1 DEF F!Reorder
  <2>2. r \in DOMAIN req /\ req[r].at = "reorder" /\ req' = [req EXCEPT ![r].at = "done"]
    BY <1>1 DEF F!Reorder, F!At, F!Goto
  <2>3. req[r] \in F!Shipping
    BY <2>2 DEF F!TypeOK, F!IsTable, F!Shipping, F!Editing
  <2>4. r \in DOMAIN req' /\ req'[r] = [req[r] EXCEPT !.at = "done"]
    BY <2>2
  <2>5. req'[r].at = "done" /\ F!Wanted(req'[r]) = F!Wanted(req[r])
    BY <2>3, <2>4 DEF F!Shipping, F!Wanted
  <2>6. F!Wanted(req[r]) \in Shipments'
    BY <2>4, <2>5 DEF Shipments, Done
  <2> QED
    BY <2>1, <2>6 DEF F!Insert
<1>2. CASE warehouseOrders' = warehouseOrders
  BY <1>2
<1>3. ASSUME NEW r \in Requests, Fulfil(r), ~F!Reorder(r) PROVE warehouseOrders' = warehouseOrders
  BY <1>3 DEF Fulfil, F!OpenForm, F!Debit, F!Credit, F!MarkComplete, F!CheckStock, F!UpdateOrder,
     F!DeleteLines, F!DropOrder, F!StopEarly, F!tables
<1>4. ASSUME NEW c \in Clicks, Purchase(c)
      PROVE  k \in DOMAIN warehouseOrders /\ warehouseOrders'[k] = warehouseOrders[k]
  <2>1. warehouseOrders' = warehouseOrders \/ \E K : warehouseOrders' = Delete(warehouseOrders, K)
    BY <1>4, PurchaseFacts
  <2> QED
    BY <2>1 DEF Delete, Restrict
<1>5. AddItem => warehouseOrders' = warehouseOrders
  BY DEF AddItem
<1>6. \A c \in Confirms : PlaceOrder(c) \/ InsertLine(c) \/ StopPlacing(c)
                            => warehouseOrders' = warehouseOrders
  BY DEF PlaceOrder, InsertLine, StopPlacing
<1>7. UNCHANGED vars => warehouseOrders' = warehouseOrders
  BY DEF vars
<1> QED
  BY <1>1, <1>2, <1>3, <1>4, <1>5, <1>6, <1>7 DEF Next

\* Every step keeps purchasing to what was shipped.
LEMMA StepKeepsSource ==
  ASSUME F!TypeOK, PP!Sound, PP!From(Shipments), [Next]_vars
  PROVE  PP!From(Shipments)'
<1>1. PICK W : W = Shipments'
  OBVIOUS
<1>2. Shipments \subseteq W
  BY <1>1, ShipmentsStay
<1>3. PP!From(W)
  BY <1>2 DEF PP!From
<1>4. \A k \in DOMAIN warehouseOrders' : warehouseOrders'[k] \in W
  BY <1>1, <1>2, RowsAreShipped DEF PP!From
<1>5. [PP!Next]_(PP!vars)
  BY StepOfPurchasing
<1>6. PP!From(W)'
  BY <1>3, <1>4, <1>5, PurchasingAssumed, PP!FromStays
<1> QED
  BY <1>1, <1>6 DEF PP!From

\* Nothing is bought that was not shipped: an order without a shipment that ran
\* in full gets no purchase order, and no line is filled with anything else
\* than an item and quantity so shipped, whatever clicks overlap, repeat or stop.
THEOREM PurchasesAreOfShipments == Spec => []PurchasesComeFromShipments
<1>1. Init => PP!From(Shipments)
  BY DEF Init, P!Init, PP!From
<1>2. PP!From(Shipments) => PurchasesComeFromShipments
  <2>1. \A w \in Shipments : \E r \in DOMAIN req : /\ Done(r) /\ w.order = req[r].order
                                                   /\ w.item = req[r].item /\ w.qty = req[r].qty
    BY DEF Shipments, F!Wanted
  <2> QED
    BY <2>1 DEF PP!From, PurchasesComeFromShipments
<1> QED
  BY <1>1, <1>2, StepKeepsSource, FulfilmentHolds, PurchasingHolds, PTL DEF Spec

-----------------------------------------------------------------------------
(* Empty shelves.                                                          *)

\* A shipment of item i is done and its order has a purchase order.
BoughtFor(i) == \E r \in DOMAIN req : /\ Done(r) /\ req[r].item = i
                                      /\ \E p \in DOMAIN purchaseOrders :
                                           purchaseOrders[p] = req[r].order
Reached(i) == FP!Asked(i) \/ FP!Excuses(i) # {} \/ BoughtFor(i)

\* ZeroReachesPurchasing in those words.
EmptiedAreReached ==
  \A wi \in DOMAIN InitStock :
    (\A s \in Stores : WarehouseOf[s] = wi[1]) /\ stock[wi] = 0 /\ InitStock[wi] # 0
      => Reached(wi[2])

\* Purchase orders and the shipments that are done stay, so what was bought for
\* stays so.
LEMMA BoughtForStays ==
  ASSUME F!TypeOK, PP!Sound, [Next]_vars, NEW i, BoughtFor(i)
  PROVE  BoughtFor(i)'
<1>1. PICK r \in DOMAIN req : Done(r) /\ req[r].item = i
                               /\ \E p \in DOMAIN purchaseOrders : purchaseOrders[p] = req[r].order
  BY DEF BoughtFor
<1>2. PICK p \in DOMAIN purchaseOrders : purchaseOrders[p] = req[r].order
  BY <1>1
<1>3. r \in DOMAIN req' /\ req'[r] = req[r]
  BY <1>1, ShipmentsStay
<1>4. p \in DOMAIN purchaseOrders' /\ purchaseOrders'[p] = purchaseOrders[p]
  BY StepOfPurchasing, PurchasingAssumed, PP!OrdersPersist DEF PP!Sound
<1> QED
  BY <1>1, <1>2, <1>3, <1>4 DEF BoughtFor, Done

\* Fulfilment keeps an emptied shelf reached as it does on its own.
LEMMA FulfilReaches ==
  ASSUME F!TypeOK, PP!Sound, EmptiedAreReached,
         NEW r \in Requests, Fulfil(r)
  PROVE  EmptiedAreReached'
<1> SUFFICES ASSUME NEW wi \in DOMAIN InitStock, \A s \in Stores : WarehouseOf[s] = wi[1],
                    stock'[wi] = 0, InitStock[wi] # 0, ~FP!Asked(wi[2])', ~BoughtFor(wi[2])'
             PROVE  FP!Excuses(wi[2])' # {}
  BY DEF EmptiedAreReached, Reached
<1>1. FP!Next /\ FP!TypeOK /\ FP!FulfilmentAssumption /\ wi \in FP!Stocked
  BY FulfilIsStep, TypesOfFulfilment, FulfilmentAssumed DEF FP!Stocked
<1>2. [Next]_vars
  BY DEF Next
<1>3. ~FP!Asked(wi[2])
  BY <1>1, FP!AskedStays
<1>4. ~BoughtFor(wi[2])
  BY <1>2, BoughtForStays
<1>5. stock[wi] = 0 => FP!Excuses(wi[2]) # {}
  BY <1>3, <1>4 DEF EmptiedAreReached, Reached
<1> QED
  BY <1>1, <1>5, FP!ExcusesMove

\* The rows that purchasing drops are of an order that it has just bought for,
\* whose shipments are done.
LEMMA PurchaseReaches ==
  ASSUME F!TypeOK, PP!Sound, PP!From(Shipments), EmptiedAreReached,
         NEW c \in Clicks, Purchase(c)
  PROVE  EmptiedAreReached'
<1> SUFFICES ASSUME NEW wi \in DOMAIN InitStock, \A s \in Stores : WarehouseOf[s] = wi[1],
                    stock'[wi] = 0, InitStock[wi] # 0
             PROVE  Reached(wi[2])'
  BY DEF EmptiedAreReached
<1>1. [Next]_vars
  BY DEF Next
<1>2. UNCHANGED <<stock, req>>
  BY PurchaseFacts
<1>3. Reached(wi[2])
  BY <1>2 DEF EmptiedAreReached
<1>4. CASE FP!Excuses(wi[2]) # {}
  BY <1>2, <1>4 DEF Reached, FP!Excuses
<1>5. CASE BoughtFor(wi[2])
  BY <1>1, <1>5, BoughtForStays DEF Reached
<1>6. CASE FP!Asked(wi[2])
  <2>1. PICK k \in DOMAIN warehouseOrders : warehouseOrders[k].item = wi[2]
    BY <1>6 DEF FP!Asked
  <2>2. CASE k \in DOMAIN warehouseOrders' /\ warehouseOrders'[k] = warehouseOrders[k]
    BY <2>1, <2>2 DEF Reached, FP!Asked
  <2>3. CASE ~(k \in DOMAIN warehouseOrders' /\ warehouseOrders'[k] = warehouseOrders[k])
    <3>1. P!ClearRequests(c)
      BY <2>3, <2>1 DEF Purchase, P!ShowPage, P!WrongBox, P!PlacePurchase, P!Proceed, P!InsertLine,
                        P!FillLine, P!Stop
    <3>2. c \in DOMAIN buy /\ buy[c].at = "clear" /\ warehouseOrders[k].order = buy[c].row.order
      BY <2>1, <2>3, <3>1 DEF P!ClearRequests, P!At, P!Delete, P!Restrict, P!Dropped
    <3>3. /\ buy[c].po \in DOMAIN purchaseOrders
          /\ purchaseOrders[buy[c].po] = buy[c].row.order
      BY <3>2 DEF PP!Sound, PP!Placed, PP!Running
    <3>4. PICK r \in DOMAIN req : Done(r) /\ warehouseOrders[k] = F!Wanted(req[r])
      BY <2>1 DEF PP!From, Shipments
    <3>5. req[r].item = wi[2] /\ req[r].order = buy[c].row.order
      BY <2>1, <3>2, <3>4 DEF F!Wanted
    <3>6. BoughtFor(wi[2])
      BY <3>3, <3>4, <3>5 DEF BoughtFor
    <3> QED
      BY <1>5, <3>6
  <2> QED
    BY <2>2, <2>3
<1> QED
  BY <1>3, <1>4, <1>5, <1>6 DEF Reached

\* Each step keeps an emptied shelf on its way to purchasing, or excused.
LEMMA StepKeepsReached ==
  ASSUME F!TypeOK, PP!Sound, PP!From(Shipments), EmptiedAreReached, [Next]_vars
  PROVE  EmptiedAreReached'
<1>1. CASE UNCHANGED <<stock, req, warehouseOrders, purchaseOrders>>
  BY <1>1 DEF EmptiedAreReached, Reached, FP!Asked, FP!Excuses, BoughtFor, Done
<1>2. AddItem \/ UNCHANGED vars => UNCHANGED <<stock, req, warehouseOrders, purchaseOrders>>
  BY DEF AddItem, vars, fulfilment, purchasing
<1>3. \A c \in Confirms : PlaceOrder(c) \/ InsertLine(c) \/ StopPlacing(c)
        => UNCHANGED <<stock, req, warehouseOrders, purchaseOrders>>
  BY DEF PlaceOrder, InsertLine, StopPlacing, fulfilment, purchasing
<1> QED
  BY <1>1, <1>2, <1>3, FulfilReaches, PurchaseReaches DEF Next

\* With one warehouse for all stores, an emptied shelf reaches purchasing: its
\* request is under way or has failed, waits in warehouse_order, or was dropped
\* from there only when an order it was shipped for had been bought for.
THEOREM EmptiedShelvesReachPurchasing == Spec => []ZeroReachesPurchasing
<1>1. Init => PP!From(Shipments) /\ EmptiedAreReached
  BY DEF Init, F!Init, P!Init, PP!From, EmptiedAreReached
<1>2. EmptiedAreReached => ZeroReachesPurchasing
  <2>1. \A i : Reached(i) =>
          \/ \E k \in DOMAIN warehouseOrders : warehouseOrders[k].item = i
          \/ \E r \in DOMAIN req :
               /\ req[r].at \in F!InFlight \cup (F!Ended \ {"void"})
               /\ req[r].item = i
               /\ \/ req[r].at # "done"
                  \/ \E p \in DOMAIN purchaseOrders : purchaseOrders[p] = req[r].order
    BY DEF Reached, BoughtFor, Done, FP!Asked, FP!Excuses, FP!InFlight, F!InFlight, F!Ended
  <2> QED
    BY <2>1 DEF EmptiedAreReached, ZeroReachesPurchasing
<1> QED
  BY <1>1, <1>2, StepKeepsSource, StepKeepsReached, FulfilmentHolds, PurchasingHolds, PTL DEF Spec

-----------------------------------------------------------------------------
(* The life of an order.                                                   *)

Sees(o)   == IF Open(o) THEN "open" ELSE F!Phase(o)
SeenPhases == [o \in OrderIds |-> Sees(o)]

\* What the lifecycle allows one order to do while the others stand still.
LEMMA OneOrderMoves ==
  ASSUME NEW o \in OrderIds,
         \A p \in OrderIds : p # o => Sees(p)' = Sees(p),
         \/ Sees(o)' = Sees(o)
         \/ Sees(o) = "open" /\ Sees(o)' \in {"placed", "complete", "empty", "gone"}
         \/ Sees(o) = "placed" /\ Sees(o)' = "complete"
         \/ Sees(o) \in {"placed", "complete"} /\ Sees(o)' = "empty"
         \/ Sees(o) = "empty" /\ Sees(o)' = "gone"
  PROVE  Lifecycle!Next \/ SeenPhases' = SeenPhases
<1>1. CASE Sees(o)' = Sees(o)
  BY <1>1 DEF SeenPhases
<1>2. \A to : Sees(o)' = to => SeenPhases' = [SeenPhases EXCEPT ![o] = to]
  BY DEF SeenPhases
<1>3. SeenPhases[o] = Sees(o)
  BY DEF SeenPhases
<1>4. ASSUME NEW from, Sees(o) \in from, NEW to, Sees(o)' = to PROVE Lifecycle!Move(o, from, to)
  BY <1>2, <1>3, <1>4 DEF SeenPhases, Sees, Lifecycle!Move
<1>5. CASE Sees(o) = "open" /\ Sees(o)' \in {"placed", "complete", "empty", "gone"}
  BY <1>4, <1>5 DEF Lifecycle!Next, Lifecycle!Settle
<1>6. CASE Sees(o) = "placed" /\ Sees(o)' = "complete"
  BY <1>4, <1>6 DEF Lifecycle!Next, Lifecycle!Complete
<1>7. CASE Sees(o) \in {"placed", "complete"} /\ Sees(o)' = "empty"
  BY <1>4, <1>7 DEF Lifecycle!Next, Lifecycle!Withdraw
<1>8. CASE Sees(o) = "empty" /\ Sees(o)' = "gone"
  BY <1>4, <1>8 DEF Lifecycle!Next, Lifecycle!Drop
<1> QED
  BY <1>1, <1>5, <1>6, <1>7, <1>8

\* What an order is seen as does not change when nothing of it does.
LEMMA SeenTheSame ==
  ASSUME NEW o, Open(o)' <=> Open(o), F!Phase(o)' = F!Phase(o)
  PROVE  Sees(o)' = Sees(o)
BY DEF Sees

\* Confirm_Cart works on one order, which is open until it is through with it.
LEMMA PlacingMoves ==
  ASSUME F!TypeOK, Placement, NEW c, InsertLine(c) \/ StopPlacing(c)
  PROVE  \E o \in OrderIds : /\ Open(o)
                             /\ \A p \in OrderIds : p # o => Sees(p)' = Sees(p)
<1>1. c \in DOMAIN confirm /\ confirm[c].at = "lines" /\ confirm[c] \in Placing
  BY DEF InsertLine, StopPlacing, Placement, IsTable
<1>2. PICK o : o = confirm[c].order
  OBVIOUS
<1>3. o \in OrderIds /\ Open(o)
  <2>1. MaxOrder \in Nat /\ lastOrder \in 0 .. MaxOrder
    BY RetailAssumption DEF Placement
  <2>2. o \in 1 .. lastOrder
    BY <1>1, <1>2 DEF Placing
  <2> QED
    BY <1>1, <1>2, <2>1, <2>2 DEF OrderIds, Open
<1>4. UNCHANGED <<orders, lastOrder>>
  BY DEF InsertLine, StopPlacing, fulfilment
<1>5. ASSUME NEW row, row.order = o, confirm' = [confirm EXCEPT ![c] = row]
      PROVE  /\ DOMAIN confirm' = DOMAIN confirm /\ confirm'[c].order = o
             /\ \A d \in DOMAIN confirm : d # c => confirm'[d] = confirm[d]
  BY <1>1, <1>5
<1>6. /\ DOMAIN confirm' = DOMAIN confirm /\ confirm'[c].order = o
      /\ \A d \in DOMAIN confirm : d # c => confirm'[d] = confirm[d]
  <2>1. ASSUME NEW at, confirm' = [confirm EXCEPT ![c].at = at]
        PROVE  \E row : row.order = o /\ confirm' = [confirm EXCEPT ![c] = row]
    <3>1. [confirm[c] EXCEPT !.at = at].order = o
      BY <1>1, <1>2 DEF Placing
    <3>2. confirm' = [confirm EXCEPT ![c] = [confirm[c] EXCEPT !.at = at]]
      BY <2>1
    <3> QED
      BY <3>1, <3>2
  <2>2. ASSUME confirm' = [confirm EXCEPT ![c].i = @ + 1,
                             ![c].overtaken = @ \/ BeingDeleted(confirm[c].order)]
        PROVE  \E row : row.order = o /\ confirm' = [confirm EXCEPT ![c] = row]
    <3> DEFINE row == [confirm[c] EXCEPT !.i = @ + 1,
                                         !.overtaken = @ \/ BeingDeleted(confirm[c].order)]
    <3>1. row.order = o
      BY <1>1, <1>2 DEF Placing
    <3>2. confirm' = [confirm EXCEPT ![c] = row]
      BY <2>2
    <3> QED
      BY <3>1, <3>2
  <2>3. \E row : row.order = o /\ confirm' = [confirm EXCEPT ![c] = row]
    BY <2>1, <2>2 DEF InsertLine, StopPlacing
  <2> QED
    BY <1>5, <2>3
<1>7. ASSUME NEW p, p # o PROVE Open(p)' <=> Open(p)
  <2>1. \A d \in DOMAIN confirm : confirm[d].order = p \/ confirm'[d].order = p
                                    => confirm'[d] = confirm[d]
    BY <1>2, <1>7, <1>6
  <2> QED
    BY <1>4, <1>7, <1>6, <2>1 DEF Open
<1>8. ASSUME NEW p, p # o PROVE F!Phase(p)' = F!Phase(p)
  <2>1. (\E k \in DOMAIN items' : items'[k].order = p) <=> (\E k \in DOMAIN items : items[k].order = p)
    <3>1. CASE items' = items
      BY <3>1
    <3>2. CASE items' # items
      <4>1. InsertLine(c)
        BY <3>2 DEF StopPlacing, fulfilment
      <4>2. PICK k, i, q : /\ k \notin DOMAIN items
                           /\ items' = Insert(items, k, [order |-> confirm[c].order, item |-> i, qty |-> q])
        BY <3>2, <4>1, LineRows
      <4> QED
        BY <1>2, <1>8, <4>2 DEF Insert
    <3> QED
      BY <3>1, <3>2
  <2> QED
    BY <1>4, <2>1 DEF F!Phase
<1> QED
  BY <1>3, <1>7, <1>8, SeenTheSame

\* Every step of the whole is one of the lifecycle, or leaves it where it is.
LEMMA StepFollowsLifecycle ==
  ASSUME F!TypeOK, Placement, DropsAreCutShort, [Next]_vars
  PROVE  Lifecycle!Next \/ SeenPhases' = SeenPhases
<1>p. \A o : F!Phase(o) \in {"placed", "complete", "empty", "gone"}
             /\ F!Phase(o)' \in {"placed", "complete", "empty", "gone"}
  BY DEF F!Phase
<1>1. CASE UNCHANGED <<orders, items, confirm, lastOrder>>
  <2>1. \A o : (Open(o)' <=> Open(o)) /\ F!Phase(o)' = F!Phase(o)
    BY <1>1 DEF Open, F!Phase
  <2>2. \A o : Sees(o)' = Sees(o)
    BY <2>1, SeenTheSame
  <2> QED
    BY <2>2 DEF SeenPhases
<1>2. ASSUME NEW c \in Confirms, PlaceOrder(c) PROVE SeenPhases' = SeenPhases
  <2>1. PICK o : o = lastOrder'
    OBVIOUS
  <2>2. PICK row : orders' = Insert(orders, o, row)
    BY <1>2, <2>1, PlaceFacts
  <2>3. /\ o = lastOrder + 1 /\ lastOrder \in Nat /\ o \notin DOMAIN orders
        /\ c \notin DOMAIN confirm
        /\ confirm' = Insert(confirm, c, [at |-> "lines", order |-> o, i |-> 0, overtaken |-> FALSE])
    BY <1>2, <2>1, PlaceFacts
  <2>4. items' = items
    BY <1>2 DEF PlaceOrder
  <2>5. Open(o) /\ Open(o)'
    BY <2>1, <2>3 DEF Open, Insert
  <2>6. ASSUME NEW p \in OrderIds, p # o PROVE Sees(p)' = Sees(p)
    <3>1. F!Phase(p)' = F!Phase(p)
      BY <2>2, <2>4, <2>6 DEF F!Phase, Insert
    <3>2. p > lastOrder' <=> p > lastOrder
      BY <2>1, <2>3, <2>6 DEF OrderIds
    <3>3. /\ DOMAIN confirm' = DOMAIN confirm \cup {c} /\ confirm'[c].order = o
          /\ \A d \in DOMAIN confirm : confirm'[d] = confirm[d]
      BY <2>3 DEF Insert
    <3>4. Open(p)' <=> Open(p)
      BY <2>6, <3>2, <3>3 DEF Open
    <3> QED
      BY <3>1, <3>4, SeenTheSame
  <2> QED
    BY <2>5, <2>6 DEF SeenPhases, Sees
<1>3. ASSUME NEW c \in Confirms, InsertLine(c) \/ StopPlacing(c)
      PROVE  Lifecycle!Next \/ SeenPhases' = SeenPhases
  <2>1. PICK o \in OrderIds : /\ Open(o)
                              /\ \A p \in OrderIds : p # o => Sees(p)' = Sees(p)
    BY <1>3, PlacingMoves
  <2>2. Sees(o) = "open" /\ Sees(o)' \in {"open", "placed", "complete", "empty", "gone"}
    BY <1>p, <2>1 DEF Sees
  <2> QED
    BY <2>1, <2>2, OneOrderMoves
<1>4. ASSUME NEW r \in Requests, Fulfil(r) PROVE Lifecycle!Next \/ SeenPhases' = SeenPhases
  <2>0. \A o : F!Phase(o) = FP!Phase(o) /\ F!Phase(o)' = FP!Phase(o)'
    BY DEF F!Phase, FP!Phase
  <2>1. \A o : Open(o)' <=> Open(o)
    BY <1>4, FulfilFacts DEF Open
  <2>2. \/ \A p : FP!Phase(p)' = FP!Phase(p)
        \/ \E o \in DOMAIN orders :
              /\ \A p : p # o => FP!Phase(p)' = FP!Phase(p)
              /\ \/ FP!Phase(o) \in {"placed", "complete"} /\ FP!Phase(o)' = "complete"
                 \/ FP!Phase(o) \in {"placed", "complete", "empty"} /\ FP!Phase(o)' = "empty"
                 \/ /\ \E d \in DOMAIN req : req[d].at = "drop" /\ req[d].order = o
                    /\ FP!HasLine(o) \/ FP!Phase(o) = "empty"
                    /\ FP!Phase(o)' = "gone"
    BY <1>4, FulfilIsStep, TypesOfFulfilment, FulfilmentAssumed, FP!PhaseMoves
  <2>3. CASE \A p : FP!Phase(p)' = FP!Phase(p)
    <3>1. \A p : Sees(p)' = Sees(p)
      BY <2>0, <2>1, <2>3, SeenTheSame
    <3> QED
      BY <3>1 DEF SeenPhases
  <2>4. ASSUME NEW o \in DOMAIN orders,
               \A p : p # o => FP!Phase(p)' = FP!Phase(p),
               \/ FP!Phase(o) \in {"placed", "complete"} /\ FP!Phase(o)' = "complete"
               \/ FP!Phase(o) \in {"placed", "complete", "empty"} /\ FP!Phase(o)' = "empty"
               \/ /\ \E d \in DOMAIN req : req[d].at = "drop" /\ req[d].order = o
                  /\ FP!HasLine(o) \/ FP!Phase(o) = "empty"
                  /\ FP!Phase(o)' = "gone"
        PROVE  Lifecycle!Next \/ SeenPhases' = SeenPhases
    <3>1. o \in OrderIds
      BY FulfilmentTypes DEF WellTyped, IsTable
    <3>2. \A p : p # o => Sees(p)' = Sees(p)
      BY <2>0, <2>1, <2>4, SeenTheSame
    <3>3. CASE Open(o)
      <4>1. Sees(o)' = Sees(o)
        BY <2>1, <3>3 DEF Sees
      <4> QED
        BY <3>1, <3>2, <4>1, OneOrderMoves
    <3>4. CASE ~Open(o)
      <4>1. Sees(o) = FP!Phase(o) /\ Sees(o)' = FP!Phase(o)'
        BY <2>0, <2>1, <3>4 DEF Sees
      <4>2. (\E d \in DOMAIN req : req[d].at = "drop" /\ req[d].order = o) => ~FP!HasLine(o)
        BY <3>4 DEF DropsAreCutShort, CutShort, Open, FP!HasLine
      <4> QED
        BY <2>4, <3>1, <3>2, <4>1, <4>2, OneOrderMoves
    <3> QED
      BY <3>3, <3>4
  <2> QED
    BY <2>2, <2>3, <2>4
<1>5. ASSUME NEW c \in Clicks, Purchase(c) PROVE UNCHANGED <<orders, items, confirm, lastOrder>>
  BY <1>5, PurchaseFacts
<1>6. AddItem \/ UNCHANGED vars => UNCHANGED <<orders, items, confirm, lastOrder>>
  BY DEF AddItem, vars, fulfilment, placement
<1> QED
  BY <1>1, <1>2, <1>3, <1>4, <1>5, <1>6 DEF Next

\* Once Confirm_Cart is through with an order that no delete overtook, shipping,
\* editing and deleting take it through the life that OrderLifecycle states,
\* while other orders are placed and bought for around it.
THEOREM OrdersLiveTheirLife == Spec => FollowsLifecycle
<1>1. Init => DropsAreCutShort /\ OrphansAreCutShort
  <2>1. Init => DOMAIN items = {}
    BY DEF Init, F!Init, NoRows
  <2> QED
    BY <2>1 DEF DropsAreCutShort, OrphansAreCutShort
<1>2. Init => Lifecycle!Init
  <2> SUFFICES ASSUME Init PROVE SeenPhases \in [OrderIds -> {"open", "placed", "empty"}]
    BY DEF Lifecycle!Init, SeenPhases, Sees
  <2>1. \A o \in OrderIds : Open(o)
    BY RetailAssumption DEF Init, Open, OrderIds
  <2> QED
    BY <2>1 DEF SeenPhases, Sees
<1>3. F!TypeOK /\ Placement /\ DropsAreCutShort /\ [Next]_vars => [Lifecycle!Next]_SeenPhases
  BY StepFollowsLifecycle
<1> QED
  BY <1>1, <1>2, <1>3, StepKeepsOrphans, FulfilmentHolds, PTL
     DEF Spec, FollowsLifecycle, Lifecycle!Spec, SeenPhases, Sees
=============================================================================
