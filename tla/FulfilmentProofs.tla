-------------------------- MODULE FulfilmentProofs --------------------------
(***************************************************************************)
(* Theorems about Fulfilment, for any number of requests, orders, items,   *)
(* stores and warehouses, and for any quantities.                          *)
(***************************************************************************)
EXTENDS Fulfilment, TableProofs, SumProofs

-----------------------------------------------------------------------------
(* The types.                                                              *)

\* A request at a statement of executeQuery is a shipping request, one between
\* the statements of DeleteOrder an editing one.
LEMMA LabelGivesType ==
  ASSUME TypeOK, NEW r \in DOMAIN req
  PROVE  /\ r \in Requests
         /\ req[r].at \in {"form"} \cup InFlight \cup Ended => req[r] \in Shipping
         /\ req[r].at \in {"drop", "served"} => req[r] \in Editing
BY DEF TypeOK, IsTable, Shipping, Editing, InFlight, Ended

\* A shipping request stays one when it moves on.
LEMMA GotoType ==
  ASSUME TypeOK, NEW r \in DOMAIN req,
         NEW label \in {"form"} \cup InFlight \cup Ended, req[r] \in Shipping,
         Goto(r, label)
  PROVE  IsTable(req', Requests, Shipping \cup Editing)
<1>1. [req[r] EXCEPT !.at = label] \in Shipping \cup Editing
  BY DEF Shipping
<1>2. req' = [req EXCEPT ![r] = [req[r] EXCEPT !.at = label]]
  BY DEF Goto, TypeOK, IsTable
<1> QED
  BY <1>1, <1>2, ReplaceIsTable DEF TypeOK

\* The history names orders only.
LEMMA RaisedType ==
  ASSUME TypeOK, NoteRaises
  PROVE  raised' \subseteq OrderIds
<1>1. \A k \in DOMAIN items : items[k].order \in OrderIds
  BY DEF TypeOK, IsTable, ItemRow
<1> QED
  BY <1>1 DEF TypeOK, NoteRaises

\* Every step keeps the types.
LEMMA TypeInvariant == TypeOK /\ [Next]_vars => TypeOK'
<1> SUFFICES ASSUME TypeOK, [Next]_vars PROVE TypeOK'
  OBVIOUS
<1>1. ASSUME NEW r \in Requests, OpenForm(r) PROVE TypeOK'
  <2> PICK k \in DOMAIN items :
        req' = Insert(req, r, [at |-> "form", order |-> items[k].order,
                               item |-> items[k].item, qty |-> items[k].qty])
    BY <1>1 DEF OpenForm
  <2>1. items[k] \in ItemRow
    BY DEF TypeOK, IsTable
  <2>2. [at |-> "form", order |-> items[k].order, item |-> items[k].item,
         qty |-> items[k].qty] \in Shipping \cup Editing
    BY <2>1 DEF Shipping, ItemRow
  <2>3. IsTable(req', Requests, Shipping \cup Editing)
    BY <2>2, InsertIsTable DEF TypeOK
  <2> QED
    BY <2>3, <1>1 DEF OpenForm, TypeOK, tables
<1>2. ASSUME NEW r \in Requests, Debit(r) PROVE TypeOK'
  <2>1. r \in DOMAIN req /\ req[r] \in Shipping /\ req[r].qty \in Int
    BY <1>2, LabelGivesType DEF Debit, At, Shipping
  <2>q. PICK q \in Quantities \cup {req[r].qty} :
        LET hit == {wi \in Stocked : wi[2] = req[r].item}
        IN  /\ stock' = [wi \in Stocked |-> IF wi \in hit THEN Taken(stock[wi], q)
                                                          ELSE stock[wi]]
            /\ req' = [req EXCEPT ![r].at = IF hit = {} THEN "void" ELSE "credit",
                                  ![r].qty = q]
    BY <1>2 DEF Debit
  <2>2. q \in Int
    BY <2>1, <2>q, FulfilmentAssumption
  <2>3. stock' \in [Stocked -> Int]
    <3>1. ASSUME NEW wi \in Stocked PROVE stock[wi] \in Int /\ Taken(stock[wi], q) \in Int
      <4>1. stock[wi] \in Int
        BY DEF TypeOK
      <4>2. \A n \in Int : n - q \in Int
        BY <2>2
      <4> QED
        BY <4>1, <4>2 DEF Taken
    <3>2. PICK hit : stock' = [wi \in Stocked |-> IF wi \in hit THEN Taken(stock[wi], q)
                                                               ELSE stock[wi]]
      BY <2>q
    <3> QED
      BY <3>1, <3>2
  <2>4. PICK label \in InFlight \cup Ended :
          req' = [req EXCEPT ![r].at = label, ![r].qty = q]
    BY <2>q DEF InFlight, Ended
  <2>5. [req[r] EXCEPT !.at = label, !.qty = q] \in Shipping \cup Editing
    BY <2>1, <2>2 DEF Shipping
  <2>6. PICK row \in Shipping \cup Editing : req' = [req EXCEPT ![r] = row]
    BY <2>1, <2>4, <2>5 DEF TypeOK, IsTable
  <2>7. IsTable(req', Requests, Shipping \cup Editing)
    BY <2>1, <2>6, ReplaceIsTable DEF TypeOK
  <2> QED
    BY <2>3, <2>7, <1>2 DEF Debit, TypeOK
<1>3. ASSUME NEW r \in Requests, Credit(r) PROVE TypeOK'
  <2>1. r \in DOMAIN req /\ req[r] \in Shipping /\ req[r].qty \in Int
    BY <1>3, LabelGivesType DEF Credit, At, Shipping, InFlight
  <2>2. PICK label \in {"lost", "status"} : Goto(r, label)
    BY <1>3 DEF Credit
  <2>3. IsTable(req', Requests, Shipping \cup Editing)
    BY <2>1, <2>2, GotoType DEF InFlight, Ended
  <2>4. IsTable(items', RowIds, ItemRow)
    <3>1. ASSUME NEW k \in DOMAIN items
          PROVE  items[k] \in ItemRow /\ [items[k] EXCEPT !.qty = @ - req[r].qty] \in ItemRow
      <4>1. items[k] \in ItemRow
        BY DEF TypeOK, IsTable
      <4>2. items[k].qty - req[r].qty \in Int
        BY <2>1, <4>1 DEF ItemRow
      <4> QED
        BY <4>1, <4>2 DEF ItemRow
    <3>2. PICK hit :
            items' = [k \in DOMAIN items |->
                        IF k \in hit THEN [items[k] EXCEPT !.qty = @ - req[r].qty]
                                     ELSE items[k]]
      BY <1>3 DEF Credit
    <3> QED
      BY <3>1, <3>2 DEF TypeOK, IsTable
  <2> QED
    BY <2>3, <2>4, <1>3, RaisedType DEF Credit, TypeOK
<1>4. ASSUME NEW r \in Requests, MarkComplete(r) PROVE TypeOK'
  <2>1. r \in DOMAIN req /\ req[r] \in Shipping /\ Goto(r, "check")
    BY <1>4, LabelGivesType DEF MarkComplete, At, InFlight
  <2>2. IsTable(req', Requests, Shipping \cup Editing)
    BY <2>1, GotoType DEF InFlight
  <2>3. IsTable(orders', OrderIds, OrderRow)
    BY <1>4 DEF MarkComplete, TypeOK, IsTable, OrderRow, Statuses
  <2> QED
    BY <2>2, <2>3, <1>4 DEF MarkComplete, TypeOK
<1>5. ASSUME NEW r \in Requests, CheckStock(r) PROVE TypeOK'
  <2>1. r \in DOMAIN req /\ req[r] \in Shipping
    BY <1>5, LabelGivesType DEF CheckStock, At, InFlight
  <2>2. PICK label \in {"unchecked", "reorder", "done"} : Goto(r, label)
    BY <1>5 DEF CheckStock
  <2>3. IsTable(req', Requests, Shipping \cup Editing)
    BY <2>1, <2>2, GotoType DEF InFlight, Ended
  <2> QED
    BY <2>3, <1>5 DEF CheckStock, TypeOK, tables
<1>6. ASSUME NEW r \in Requests, Reorder(r) PROVE TypeOK'
  <2>1. r \in DOMAIN req /\ req[r] \in Shipping /\ Goto(r, "done")
    BY <1>6, LabelGivesType DEF Reorder, At, InFlight
  <2>2. IsTable(req', Requests, Shipping \cup Editing)
    BY <2>1, GotoType DEF Ended
  <2>3. Wanted(req[r]) \in ItemRow
    BY <2>1 DEF Wanted, Shipping, ItemRow
  <2>4. IsTable(warehouseOrders', RowIds, ItemRow)
    BY <2>3, <1>6, FreshKeyFacts, InsertIsTable DEF Reorder, TypeOK
  <2> QED
    BY <2>2, <2>4, <1>6 DEF Reorder, TypeOK
<1>7. ASSUME NEW r \in Requests, UpdateOrder(r) PROVE TypeOK'
  <2>1. PICK o \in OrderIds, i \in Items, q \in Quantities :
        /\ items' = [k \in DOMAIN items |->
                       IF k \in LinesOf(o, i) THEN [items[k] EXCEPT !.qty = q]
                                              ELSE items[k]]
        /\ req' = Insert(req, r, [at |-> "served", order |-> o])
    BY <1>7 DEF UpdateOrder
  <2>2. IsTable(items', RowIds, ItemRow)
    <3>1. ASSUME NEW k \in DOMAIN items
          PROVE  items[k] \in ItemRow /\ [items[k] EXCEPT !.qty = q] \in ItemRow
      BY FulfilmentAssumption DEF TypeOK, IsTable, ItemRow
    <3> QED
      BY <2>1, <3>1 DEF TypeOK, IsTable
  <2>3. [at |-> "served", order |-> o] \in Shipping \cup Editing
    BY DEF Editing
  <2>4. IsTable(req', Requests, Shipping \cup Editing)
    BY <2>1, <2>3, InsertIsTable DEF TypeOK
  <2> QED
    BY <2>2, <2>4, <1>7, RaisedType DEF UpdateOrder, TypeOK
<1>8. ASSUME NEW r \in Requests, DeleteLines(r) PROVE TypeOK'
  <2> PICK o \in OrderIds :
        /\ items' = Delete(items, {k \in DOMAIN items : items[k].order = o})
        /\ req' = Insert(req, r, [at |-> "drop", order |-> o])
    BY <1>8 DEF DeleteLines
  <2>1. IsTable(items', RowIds, ItemRow)
    BY DeleteIsTable DEF TypeOK
  <2>2. [at |-> "drop", order |-> o] \in Shipping \cup Editing
    BY DEF Editing
  <2>3. IsTable(req', Requests, Shipping \cup Editing)
    BY <2>2, InsertIsTable DEF TypeOK
  <2> QED
    BY <2>1, <2>3, <1>8 DEF DeleteLines, TypeOK
<1>9. ASSUME NEW r \in Requests, At(r, "drop"), Goto(r, "served")
      PROVE  IsTable(req', Requests, Shipping \cup Editing)
  <2>1. r \in DOMAIN req /\ req[r] \in Editing
    BY <1>9, LabelGivesType DEF At
  <2>2. [req[r] EXCEPT !.at = "served"] \in Shipping \cup Editing
    BY <2>1 DEF Editing
  <2>3. req' = [req EXCEPT ![r] = [req[r] EXCEPT !.at = "served"]]
    BY <1>9, <2>1 DEF Goto, TypeOK, IsTable
  <2> QED
    BY <2>1, <2>2, <2>3, ReplaceIsTable DEF TypeOK
<1>10. ASSUME NEW r \in Requests, DropOrder(r) PROVE TypeOK'
  <2>1. IsTable(req', Requests, Shipping \cup Editing)
    BY <1>9, <1>10 DEF DropOrder
  <2>2. IsTable(orders', OrderIds, OrderRow)
    BY <1>10, DeleteIsTable DEF DropOrder, TypeOK
  <2> QED
    BY <2>1, <2>2, <1>10 DEF DropOrder, TypeOK
<1>11. ASSUME NEW r \in Requests, StopEarly(r) PROVE TypeOK'
  <2>1. IsTable(req', Requests, Shipping \cup Editing)
    <3>1. CASE At(r, "drop")
      BY <3>1, <1>9, <1>11 DEF StopEarly, At
    <3>2. CASE ~At(r, "drop")
      <4>1. PICK label \in {"void", "lost", "unchecked"} :
              /\ r \in DOMAIN req
              /\ req[r].at \in {"form", "credit", "status", "check", "reorder"}
              /\ Goto(r, label)
        BY <3>2, <1>11 DEF StopEarly, At
      <4>2. req[r] \in Shipping
        BY <4>1, LabelGivesType DEF InFlight
      <4> QED
        BY <4>1, <4>2, GotoType DEF Ended
    <3> QED
      BY <3>1, <3>2
  <2> QED
    BY <2>1, <1>11 DEF StopEarly, TypeOK, tables
<1>12. CASE UNCHANGED vars
  BY <1>12 DEF vars, TypeOK
<1>13. CASE Next
  <2> PICK r \in Requests : \/ OpenForm(r) \/ Debit(r) \/ Proceed(r)
                           \/ UpdateOrder(r) \/ DeleteLines(r) \/ StopEarly(r)
    BY <1>13 DEF Next
  <2>1. CASE Proceed(r)
    BY <2>1, <1>3, <1>4, <1>5, <1>6, <1>10 DEF Proceed
  <2> QED
    BY <2>1, <1>1, <1>2, <1>7, <1>8, <1>11
<1> QED
  BY <1>12, <1>13

\* So do the initial tables.
LEMMA InitTypes == Init => TypeOK
<1> SUFFICES ASSUME Init PROVE TypeOK
  OBVIOUS
<1>1. IsTable(orders, OrderIds, OrderRow) /\ IsTable(items, RowIds, ItemRow)
  BY FulfilmentAssumption DEF Init
<1>2. IsTable(warehouseOrders, RowIds, ItemRow)
  BY DEF Init, IsTable
<1>3. IsTable(req, Requests, Shipping \cup Editing)
  BY DEF Init, IsTable
<1> QED
  BY <1>1, <1>2, <1>3, FulfilmentAssumption DEF Init, TypeOK

\* Tables, requests and history keep their types, whatever requests arrive,
\* interleave and fail.
THEOREM TypeCorrect == Spec => []TypeOK
BY InitTypes, TypeInvariant, PTL DEF Spec

-----------------------------------------------------------------------------
(* Lines and orders.                                                       *)

\* No step adds a line or moves one to another order or item.
LinesStay == /\ DOMAIN items' \subseteq DOMAIN items
             /\ \A k \in DOMAIN items' : /\ items'[k].order = items[k].order
                                         /\ items'[k].item = items[k].item

\* A step lets no line pass to another order or item.  Only a delete removes one.
LEMMA StepKeepsLines == TypeOK /\ [Next]_vars => LinesStay
<1> SUFFICES ASSUME TypeOK, [Next]_vars PROVE LinesStay
  OBVIOUS
<1>0. \A k \in DOMAIN items : items[k] \in ItemRow
  BY DEF TypeOK, IsTable
<1>1. CASE UNCHANGED items
  BY <1>1 DEF LinesStay
<1>2. ASSUME NEW r \in Requests, Credit(r) PROVE LinesStay
  <2>1. PICK hit : items' = [k \in DOMAIN items |->
                        IF k \in hit THEN [items[k] EXCEPT !.qty = @ - req[r].qty]
                                     ELSE items[k]]
    BY <1>2 DEF Credit
  <2> QED
    BY <2>1, <1>0 DEF LinesStay, ItemRow
<1>3. ASSUME NEW r \in Requests, UpdateOrder(r) PROVE LinesStay
  <2>1. PICK hit, q : items' = [k \in DOMAIN items |->
                        IF k \in hit THEN [items[k] EXCEPT !.qty = q] ELSE items[k]]
    BY <1>3 DEF UpdateOrder
  <2> QED
    BY <2>1, <1>0 DEF LinesStay, ItemRow
<1>4. ASSUME NEW r \in Requests, DeleteLines(r) PROVE LinesStay
  BY <1>4 DEF DeleteLines, LinesStay, Delete, Restrict
<1>5. ASSUME NEW r \in Requests,
             OpenForm(r) \/ Debit(r) \/ MarkComplete(r) \/ CheckStock(r)
               \/ Reorder(r) \/ DropOrder(r) \/ StopEarly(r)
      PROVE  UNCHANGED items
  BY <1>5 DEF OpenForm, Debit, MarkComplete, CheckStock, Reorder, DropOrder,
              StopEarly, tables
<1>6. CASE Next
  <2> PICK r \in Requests : \/ OpenForm(r) \/ Debit(r) \/ Proceed(r)
                           \/ UpdateOrder(r) \/ DeleteLines(r) \/ StopEarly(r)
    BY <1>6 DEF Next
  <2> QED
    BY <1>1, <1>2, <1>3, <1>4, <1>5 DEF Proceed
<1> QED
  BY <1>1, <1>6 DEF vars

\* Between the two statements of DeleteOrder its order has no line.
DropIsEmpty == \A r \in DOMAIN req : req[r].at = "drop" =>
                 \A k \in DOMAIN items : items[k].order # req[r].order

\* A request comes between the two statements of DeleteOrder when it has just
\* deleted the lines of its order.
LEMMA DropsStart ==
  ASSUME TypeOK, [Next]_vars, NEW d \in DOMAIN req', req'[d].at = "drop"
  PROVE  \/ d \in DOMAIN req /\ req[d].at = "drop" /\ req'[d].order = req[d].order
         \/ \A k \in DOMAIN items' : items'[k].order # req'[d].order
<1> SUFFICES ASSUME ~(d \in DOMAIN req /\ req[d].at = "drop" /\ req'[d].order = req[d].order),
                    NEW k \in DOMAIN items'
             PROVE  items'[k].order # req'[d].order
  OBVIOUS
<1>1. k \in DOMAIN items /\ items'[k].order = items[k].order
  BY StepKeepsLines DEF LinesStay
<1>2. CASE d \in DOMAIN req /\ req[d].at = "drop" /\ req'[d].order = req[d].order
  BY <1>2
<1>3. CASE UNCHANGED req
  BY <1>2, <1>3
<1>4. ASSUME NEW r \in Requests, DeleteLines(r) PROVE items'[k].order # req'[d].order
  <2>1. PICK o \in OrderIds :
          /\ items' = Delete(items, {j \in DOMAIN items : items[j].order = o})
          /\ req' = Insert(req, r, [at |-> "drop", order |-> o])
    BY <1>4 DEF DeleteLines
  <2>2. CASE d = r
    BY <2>1, <2>2, <1>1 DEF Delete, Restrict, Insert
  <2>3. CASE d # r
    BY <2>1, <2>3, <1>2 DEF Insert
  <2> QED
    BY <2>2, <2>3
<1>5. ASSUME NEW r \in Requests, OpenForm(r) \/ UpdateOrder(r)
      PROVE  items'[k].order # req'[d].order
  <2>1. CASE OpenForm(r)
    BY <2>1, <1>2 DEF OpenForm, Insert
  <2>2. CASE UpdateOrder(r)
    BY <2>2, <1>2 DEF UpdateOrder, Insert
  <2> QED
    BY <1>5, <2>1, <2>2
<1>6. ASSUME NEW r \in DOMAIN req, NEW label, Goto(r, label), label # "drop"
      PROVE  items'[k].order # req'[d].order
  <2>1. d \in DOMAIN req /\ (d # r => req'[d] = req[d])
    BY <1>6 DEF Goto
  <2>2. d # r
    <3>1. CASE d = r
      <4>1. req[r] \in Shipping \/ req[r] \in Editing
        BY DEF TypeOK, IsTable
      <4>2. req'[r].at = label
        BY <1>6, <4>1 DEF Goto, TypeOK, IsTable, Shipping, Editing
      <4> QED
        BY <3>1, <4>2, <1>6
    <3> QED
      BY <3>1
  <2> QED
    BY <2>1, <2>2, <1>2
<1>7. ASSUME NEW r \in Requests, Debit(r) PROVE items'[k].order # req'[d].order
  <2>1. r \in DOMAIN req /\ req[r] \in Shipping
    BY <1>7, LabelGivesType DEF Debit, At
  <2>2. PICK label \in {"void", "credit"}, q \in Quantities \cup {req[r].qty} :
          req' = [req EXCEPT ![r].at = label, ![r].qty = q]
    BY <1>7 DEF Debit
  <2>3. d \in DOMAIN req /\ (d # r => req'[d] = req[d])
    BY <2>2
  <2>4. req'[r].at = label
    BY <2>1, <2>2 DEF Shipping, TypeOK, IsTable
  <2> QED
    BY <2>2, <2>3, <2>4, <1>2
<1>8. ASSUME NEW r \in Requests, Proceed(r) \/ StopEarly(r)
      PROVE  items'[k].order # req'[d].order
  <2>1. PICK label : r \in DOMAIN req /\ label # "drop" /\ Goto(r, label)
    BY <1>8 DEF Proceed, Credit, MarkComplete, CheckStock, Reorder, DropOrder,
                StopEarly, At
  <2> QED
    BY <2>1, <1>6
<1>9. CASE Next
  <2> PICK r \in Requests : \/ OpenForm(r) \/ Debit(r) \/ Proceed(r)
                           \/ UpdateOrder(r) \/ DeleteLines(r) \/ StopEarly(r)
    BY <1>9 DEF Next
  <2> QED
    BY <1>4, <1>5, <1>7, <1>8
<1> QED
  BY <1>3, <1>9 DEF vars

\* Between the statements of DeleteOrder the order stays without lines.
LEMMA StepKeepsDrop == TypeOK /\ DropIsEmpty /\ [Next]_vars => DropIsEmpty'
<1> SUFFICES ASSUME TypeOK, DropIsEmpty, [Next]_vars,
                    NEW d \in DOMAIN req', req'[d].at = "drop",
                    NEW k \in DOMAIN items'
             PROVE  items'[k].order # req'[d].order
  BY DEF DropIsEmpty
<1>1. k \in DOMAIN items /\ items'[k].order = items[k].order
  BY StepKeepsLines DEF LinesStay
<1>2. CASE d \in DOMAIN req /\ req[d].at = "drop" /\ req'[d].order = req[d].order
  BY <1>1, <1>2 DEF DropIsEmpty
<1> QED
  BY <1>2, DropsStart

\* An order goes away only through DropOrder.
LEMMA OrdersStay ==
  TypeOK /\ [Next]_vars =>
    \/ DOMAIN orders' = DOMAIN orders
    \/ \E r \in DOMAIN req : /\ req[r].at = "drop"
                             /\ orders' = Delete(orders, {req[r].order})
<1> SUFFICES ASSUME TypeOK, Next, DOMAIN orders' # DOMAIN orders
             PROVE  \E r \in DOMAIN req : /\ req[r].at = "drop"
                                          /\ orders' = Delete(orders, {req[r].order})
  BY DEF vars
<1>1. PICK r \in Requests : \/ OpenForm(r) \/ Debit(r) \/ Proceed(r)
                           \/ UpdateOrder(r) \/ DeleteLines(r) \/ StopEarly(r)
  BY DEF Next
<1>2. ~MarkComplete(r)
  BY DEF MarkComplete
<1>3. DropOrder(r)
  BY <1>1, <1>2 DEF OpenForm, Debit, Proceed, Credit, CheckStock, Reorder,
                    UpdateOrder, DeleteLines, StopEarly, tables
<1> QED
  BY <1>3 DEF DropOrder, At

\* No line outlives its order, whatever shipments, edits and deletes interleave
\* and wherever they stop.
THEOREM LinesHaveOrders == Spec => []NoOrphanLines
<1>1. Init => NoOrphanLines /\ DropIsEmpty
  BY FulfilmentAssumption DEF Init, NoOrphanLines, DropIsEmpty
<1>2. TypeOK /\ NoOrphanLines /\ DropIsEmpty /\ [Next]_vars => NoOrphanLines'
  <2> SUFFICES ASSUME TypeOK, NoOrphanLines, DropIsEmpty, [Next]_vars,
                      NEW k \in DOMAIN items'
               PROVE  items'[k].order \in DOMAIN orders'
    BY DEF NoOrphanLines
  <2>1. k \in DOMAIN items /\ items'[k].order = items[k].order
    BY StepKeepsLines DEF LinesStay
  <2>2. items[k].order \in DOMAIN orders
    BY <2>1 DEF NoOrphanLines
  <2>3. CASE \E r \in DOMAIN req : /\ req[r].at = "drop"
                                   /\ orders' = Delete(orders, {req[r].order})
    BY <2>1, <2>2, <2>3 DEF DropIsEmpty, Delete, Restrict
  <2> QED
    BY <2>1, <2>2, <2>3, OrdersStay
<1> QED
  BY <1>1, <1>2, StepKeepsDrop, InitTypes, TypeInvariant, PTL DEF Spec

-----------------------------------------------------------------------------
(* Empty shelves.                                                          *)

\* Moving on changes a shipping request's label and nothing else.
LEMMA GotoFacts ==
  ASSUME TypeOK, NEW r \in DOMAIN req, NEW label, Goto(r, label)
  PROVE  /\ DOMAIN req' = DOMAIN req
         /\ \A d \in DOMAIN req : d # r => req'[d] = req[d]
         /\ req'[r].at = label
         /\ req[r] \in Shipping => req'[r].item = req[r].item
<1>1. req[r] \in Shipping \/ req[r] \in Editing
  BY DEF TypeOK, IsTable
<1>2. req' = [req EXCEPT ![r].at = label]
  BY DEF Goto
<1>3. req'[r].at = label
  BY <1>1, <1>2 DEF Shipping, Editing
<1> QED
  BY <1>2, <1>3 DEF Shipping

\* Nobody deletes a warehouse_order row here, so an item stays asked for.
LEMMA AskedStays ==
  ASSUME TypeOK, [Next]_vars, NEW i, Asked(i)
  PROVE  Asked(i)'
<1>1. CASE UNCHANGED warehouseOrders
  BY <1>1 DEF Asked
<1>2. ASSUME NEW r \in Requests, Reorder(r) PROVE Asked(i)'
  <2>1. FreshKey(warehouseOrders, RowIds) \notin DOMAIN warehouseOrders
    BY <1>2, FreshKeyFacts DEF Reorder
  <2> QED
    BY <2>1, <1>2 DEF Reorder, Asked, Insert
<1>3. CASE Next
  <2> PICK r \in Requests : \/ OpenForm(r) \/ Debit(r) \/ Proceed(r)
                           \/ UpdateOrder(r) \/ DeleteLines(r) \/ StopEarly(r)
    BY <1>3 DEF Next
  <2>1. CASE ~Reorder(r)
    BY <2>1, <1>1 DEF OpenForm, Debit, Proceed, Credit, MarkComplete, CheckStock,
                      DropOrder, UpdateOrder, DeleteLines, StopEarly, tables
  <2> QED
    BY <2>1, <1>2
<1> QED
  BY <1>1, <1>3 DEF vars

\* The requests that excuse an empty shelf with item i.
Excuses(i) == {r \in DOMAIN req : /\ req[r].at \in InFlight \cup {"lost", "unchecked"}
                                 /\ req[r].item = i}

\* A shelf of the one warehouse that is empty after a step is excused after it,
\* unless it was empty before and not excused, or the step asked for the item.
LEMMA ExcusesMove ==
  ASSUME TypeOK, [Next]_vars, NEW wi \in Stocked,
         \A s \in Stores : WarehouseOf[s] = wi[1],
         stock'[wi] = 0, ~Asked(wi[2])',
         stock[wi] = 0 => Excuses(wi[2]) # {}
  PROVE  Excuses(wi[2])' # {}
<1>2. stock[wi] = 0 => Excuses(wi[2]) # {}
  OBVIOUS
<1>3. ASSUME NEW d \in Excuses(wi[2]), d \in DOMAIN req', req'[d] = req[d]
      PROVE  Excuses(wi[2])' # {}
  BY <1>3 DEF Excuses
<1>4. ASSUME stock' = stock, NEW r \in DOMAIN req, NEW label, Goto(r, label),
             \/ r \notin Excuses(wi[2])
             \/ label \in InFlight \cup {"lost", "unchecked"}
      PROVE  Excuses(wi[2])' # {}
  <2>1. PICK d : d \in Excuses(wi[2])
    BY <1>2, <1>4
  <2>2. CASE d # r
    BY <2>1, <2>2, <1>3, <1>4, GotoFacts DEF Excuses
  <2>3. CASE d = r
    <3>1. req[r] \in Shipping
      BY <2>1, <2>3, LabelGivesType DEF Excuses, Ended
    <3>2. req'[r].at = label /\ req'[r].item = wi[2] /\ r \in DOMAIN req'
      BY <2>1, <2>3, <3>1, <1>4, GotoFacts DEF Excuses
    <3> QED
      BY <3>2, <2>1, <2>3, <1>4 DEF Excuses
  <2> QED
    BY <2>2, <2>3
<1>5. ASSUME NEW r \in Requests, OpenForm(r) \/ UpdateOrder(r) \/ DeleteLines(r)
      PROVE  Excuses(wi[2])' # {}
  <2>1. r \notin DOMAIN req /\ stock' = stock
    BY <1>5 DEF OpenForm, UpdateOrder, DeleteLines, New, tables
  <2>2. PICK row : req' = Insert(req, r, row)
    BY <1>5 DEF OpenForm, UpdateOrder, DeleteLines
  <2>3. PICK d : d \in Excuses(wi[2])
    BY <1>2, <2>1
  <2>4. d \in DOMAIN req' /\ req'[d] = req[d]
    BY <2>1, <2>2, <2>3 DEF Insert, Excuses
  <2> QED
    BY <2>3, <2>4, <1>3
<1>6. ASSUME NEW r \in Requests, Debit(r) PROVE Excuses(wi[2])' # {}
  <2>1. r \in DOMAIN req /\ req[r].at = "form" /\ req[r] \in Shipping
    BY <1>6, LabelGivesType DEF Debit, At
  <2>2. PICK q :
          /\ stock' = [x \in Stocked |->
                         IF x \in {y \in Stocked : y[2] = req[r].item}
                           THEN Taken(stock[x], q) ELSE stock[x]]
          /\ req' = [req EXCEPT
               ![r].at = IF {y \in Stocked : y[2] = req[r].item} = {}
                           THEN "void" ELSE "credit",
               ![r].qty = q]
    BY <1>6 DEF Debit
  <2>3. CASE wi[2] = req[r].item
    <3>1. {y \in Stocked : y[2] = req[r].item} # {}
      BY <2>3
    <3>2. req' = [req EXCEPT ![r].at = "credit", ![r].qty = q]
      BY <2>2, <3>1
    <3>3. r \in DOMAIN req' /\ req'[r].at = "credit" /\ req'[r].item = req[r].item
      BY <2>1, <3>2 DEF Shipping
    <3> QED
      BY <2>3, <3>3 DEF Excuses, InFlight
  <2>4. CASE wi[2] # req[r].item
    <3>1. stock'[wi] = stock[wi]
      BY <2>2, <2>4
    <3>2. PICK d : d \in Excuses(wi[2])
      BY <1>2, <3>1
    <3>3. d # r /\ d \in DOMAIN req
      BY <3>2, <2>4 DEF Excuses
    <3>4. d \in DOMAIN req' /\ req'[d] = req[d]
      BY <2>2, <3>3
    <3> QED
      BY <3>2, <3>4, <1>3
  <2> QED
    BY <2>3, <2>4
<1>7. ASSUME NEW r \in Requests, Credit(r) \/ MarkComplete(r)
      PROVE  Excuses(wi[2])' # {}
  <2>1. PICK label \in {"lost", "status", "check"} :
          stock' = stock /\ r \in DOMAIN req /\ Goto(r, label)
    BY <1>7 DEF Credit, MarkComplete, At
  <2> QED
    BY <2>1, <1>4 DEF InFlight
<1>8. ASSUME NEW r \in Requests, CheckStock(r) PROVE Excuses(wi[2])' # {}
  <2> DEFINE o     == req[r].order
             shelf == ShelfOf(o, req[r].item)
             found == o \in DOMAIN orders /\ shelf \in Stocked
  <2>1. r \in DOMAIN req /\ stock' = stock
    BY <1>8 DEF CheckStock, At, tables
  <2>2. CASE ~found
    BY <2>1, <2>2, <1>4, <1>8 DEF CheckStock
  <2>3. CASE found /\ stock[shelf] = 0
    <3>1. Goto(r, "reorder")
      BY <2>3, <1>8 DEF CheckStock, Empty
    <3> QED
      BY <2>1, <3>1, <1>4 DEF InFlight
  <2>4. CASE found /\ stock[shelf] # 0
    <3>1. Goto(r, "done")
      BY <2>4, <1>8 DEF CheckStock, Empty
    <3>2. orders[o].store \in Stores
      BY <2>4 DEF TypeOK, IsTable, OrderRow
    <3>3. shelf[1] = wi[1] /\ shelf[2] = req[r].item /\ shelf = <<shelf[1], shelf[2]>>
      BY <3>2 DEF ShelfOf
    <3>4. wi = <<wi[1], wi[2]>>
      <4>1. wi \in Warehouses \X Items
        BY FulfilmentAssumption
      <4> QED
        BY <4>1
    <3>5. shelf # wi
      BY <2>1, <2>4
    <3>6. req[r].item # wi[2]
      BY <3>3, <3>4, <3>5
    <3> QED
      BY <2>1, <3>1, <3>6, <1>4 DEF Excuses
  <2> QED
    BY <2>2, <2>3, <2>4
<1>9. ASSUME NEW r \in Requests, Reorder(r) PROVE Excuses(wi[2])' # {}
  <2>1. r \in DOMAIN req /\ stock' = stock /\ Goto(r, "done")
    BY <1>9 DEF Reorder, At
  <2>2. PICK k : warehouseOrders' = Insert(warehouseOrders, k, Wanted(req[r]))
    BY <1>9 DEF Reorder
  <2>3. k \in DOMAIN warehouseOrders' /\ warehouseOrders'[k].item = req[r].item
    BY <2>2 DEF Insert, Wanted
  <2>4. req[r].item # wi[2]
    BY <2>3 DEF Asked
  <2>5. r \notin Excuses(wi[2])
    BY <2>4 DEF Excuses
  <2> QED
    BY <2>1, <2>5, <1>4
<1>10. ASSUME NEW r \in Requests, DropOrder(r) \/ StopEarly(r)
       PROVE  Excuses(wi[2])' # {}
  <2>1. PICK label :
          /\ stock' = stock /\ r \in DOMAIN req /\ Goto(r, label)
          /\ req[r].at \in {"form", "drop"} \/ label \in {"lost", "unchecked"}
    BY <1>10 DEF DropOrder, StopEarly, At, tables
  <2> QED
    BY <2>1, <1>4 DEF Excuses, InFlight
<1>11. CASE UNCHANGED vars
  BY <1>2, <1>3, <1>11 DEF vars, Excuses
<1>12. CASE Next
  <2> PICK r \in Requests : \/ OpenForm(r) \/ Debit(r) \/ Proceed(r)
                           \/ UpdateOrder(r) \/ DeleteLines(r) \/ StopEarly(r)
    BY <1>12 DEF Next
  <2> QED
    BY <1>5, <1>6, <1>7, <1>8, <1>9, <1>10 DEF Proceed
<1> QED
  BY <1>11, <1>12

\* Every step keeps the account of the empty shelves.
LEMMA StepKeepsReports == TypeOK /\ ZeroStockReported /\ [Next]_vars => ZeroStockReported'
<1> SUFFICES ASSUME TypeOK, ZeroStockReported, [Next]_vars, NEW wi \in Stocked,
                    \A s \in Stores : WarehouseOf[s] = wi[1],
                    stock'[wi] = 0, InitStock[wi] # 0, ~Asked(wi[2])'
             PROVE  Excuses(wi[2])' # {}
  BY DEF ZeroStockReported, Excuses
<1>1. ~Asked(wi[2])
  BY AskedStays
<1>2. stock[wi] = 0 => Excuses(wi[2]) # {}
  BY <1>1 DEF ZeroStockReported, Excuses
<1> QED
  BY <1>2, ExcusesMove

\* With one warehouse for all stores, a shelf that shipments emptied has been
\* reported to purchasing, or a request that took from it has yet to look at it
\* or has stopped before it could.
THEOREM EmptyShelvesAreReported == Spec => []ZeroStockReported
<1>1. Init => ZeroStockReported
  BY DEF Init, ZeroStockReported
<1> QED
  BY <1>1, StepKeepsReports, InitTypes, TypeInvariant, PTL DEF Spec

-----------------------------------------------------------------------------
(* Completed orders.                                                       *)

\* A line whose order is not in the history has not gone up.
LEMMA NotRaised ==
  ASSUME TypeOK, TypeOK', NoteRaises, NEW k \in DOMAIN items, k \in DOMAIN items',
         items[k].order \notin raised', items[k].qty <= 0
  PROVE  items'[k].qty <= 0
<1>1. ~(items'[k].qty > items[k].qty)
  BY DEF NoteRaises
<1>2. items[k].qty \in Int /\ items'[k].qty \in Int
  BY DEF TypeOK, IsTable, ItemRow
<1> QED
  BY <1>1, <1>2

\* Every step keeps the account of the completed orders.
LEMMA StepKeepsEarned == TypeOK /\ CompleteIsEarned /\ [Next]_vars => CompleteIsEarned'
<1> SUFFICES ASSUME TypeOK, CompleteIsEarned, [Next]_vars, NEW o \in DOMAIN orders',
                    orders'[o].status = "Complete", o \notin raised'
             PROVE  \/ \A k \in DOMAIN items' : items'[k].order # o
                    \/ \E k \in DOMAIN items' : items'[k].order = o /\ items'[k].qty <= 0
  BY DEF CompleteIsEarned
<1> DEFINE Earned == \/ \A k \in DOMAIN items : items[k].order # o
                     \/ \E k \in DOMAIN items : items[k].order = o /\ items[k].qty <= 0
<1>1. TypeOK'
  BY TypeInvariant
<1>2. raised \subseteq raised'
  <2>1. CASE UNCHANGED raised
    BY <2>1
  <2>2. CASE NoteRaises
    BY <2>2 DEF NoteRaises
  <2> QED
    BY <2>1, <2>2 DEF Next, Proceed, vars, OpenForm, Debit, Credit, MarkComplete,
       CheckStock, Reorder, DropOrder, UpdateOrder, DeleteLines, StopEarly
<1>3. o \in DOMAIN orders /\ orders[o].status = "Complete" => Earned
  <2> SUFFICES ASSUME o \in DOMAIN orders, orders[o].status = "Complete" PROVE Earned
    OBVIOUS
  <2> QED
    BY <1>2 DEF CompleteIsEarned
<1>4. ASSUME UNCHANGED items, Earned
      PROVE  Earned'
  BY <1>4
<1>5. ASSUME UNCHANGED <<orders, items>> PROVE Earned'
  BY <1>3, <1>5
<1>6. ASSUME NEW r \in Requests, Credit(r) \/ UpdateOrder(r) PROVE Earned'
  <2>1. Earned
    BY <1>3, <1>6 DEF Credit, UpdateOrder
  <2>2. NoteRaises /\ DOMAIN items' = DOMAIN items
    BY <1>6 DEF Credit, UpdateOrder
  <2>3. \A k \in DOMAIN items : items'[k].order = items[k].order
    BY <2>2, StepKeepsLines DEF LinesStay
  <2>4. CASE \A k \in DOMAIN items : items[k].order # o
    BY <2>2, <2>3, <2>4
  <2>5. CASE \E k \in DOMAIN items : items[k].order = o /\ items[k].qty <= 0
    <3>1. PICK k \in DOMAIN items : items[k].order = o /\ items[k].qty <= 0
      BY <2>5
    <3>2. items'[k].qty <= 0
      BY <1>1, <2>2, <3>1, NotRaised
    <3> QED
      BY <2>2, <2>3, <3>1, <3>2
  <2> QED
    BY <2>1, <2>4, <2>5
<1>7. ASSUME NEW r \in Requests, MarkComplete(r) PROVE Earned'
  <2>1. items' = items
    BY <1>7 DEF MarkComplete
  <2>2. CASE orders' = orders
    BY <2>1, <2>2, <1>5
  <2>3. CASE orders' # orders
    <3>1. /\ \E k \in LinesOf(req[r].order, req[r].item) : items[k].qty = 0
          /\ orders' = [orders EXCEPT ![req[r].order].status = "Complete"]
      BY <2>3, <1>7 DEF MarkComplete, NothingLeft
    <3>2. CASE o = req[r].order
      <4>1. PICK k \in DOMAIN items : items[k].order = o /\ items[k].qty = 0
        BY <3>1, <3>2 DEF LinesOf
      <4> QED
        BY <4>1, <2>1
    <3>3. CASE o # req[r].order
      <4>1. o \in DOMAIN orders /\ orders'[o] = orders[o]
        BY <3>1, <3>3
      <4> QED
        BY <4>1, <2>1, <1>3, <1>4
    <3> QED
      BY <3>2, <3>3
  <2> QED
    BY <2>2, <2>3
<1>8. ASSUME NEW r \in Requests, DeleteLines(r) PROVE Earned'
  <2>1. Earned
    BY <1>3, <1>8 DEF DeleteLines
  <2>2. PICK p : items' = Delete(items, {k \in DOMAIN items : items[k].order = p})
    BY <1>8 DEF DeleteLines
  <2> QED
    BY <2>1, <2>2 DEF Delete, Restrict
<1>9. ASSUME NEW r \in Requests, DropOrder(r) PROVE Earned'
  <2>1. o \in DOMAIN orders /\ orders'[o] = orders[o] /\ items' = items
    BY <1>9 DEF DropOrder, Delete, Restrict
  <2> QED
    BY <2>1, <1>3, <1>4
<1>10. ASSUME NEW r \in Requests,
              OpenForm(r) \/ Debit(r) \/ CheckStock(r) \/ Reorder(r) \/ StopEarly(r)
       PROVE  Earned'
  BY <1>5, <1>10 DEF OpenForm, Debit, CheckStock, Reorder, StopEarly, tables
<1>11. Earned'
  <2>1. CASE UNCHANGED vars
    BY <2>1, <1>5 DEF vars
  <2>2. CASE Next
    <3> PICK r \in Requests : \/ OpenForm(r) \/ Debit(r) \/ Proceed(r)
                             \/ UpdateOrder(r) \/ DeleteLines(r) \/ StopEarly(r)
      BY <2>2 DEF Next
    <3> QED
      BY <1>6, <1>7, <1>8, <1>9, <1>10 DEF Proceed
  <2> QED
    BY <2>1, <2>2
<1> QED
  BY <1>11

\* A complete order has a line with nothing left to ship, unless a line of it
\* was raised meanwhile or its lines are being deleted.
THEOREM CompletionIsEarned == Spec => []CompleteIsEarned
<1>1. Init => CompleteIsEarned
  BY FulfilmentAssumption DEF Init, CompleteIsEarned
<1> QED
  BY <1>1, StepKeepsEarned, InitTypes, TypeInvariant, PTL DEF Spec

-----------------------------------------------------------------------------
(* The abstract order lifecycle.                                           *)

Phases == [o \in DOMAIN InitOrders |-> Phase(o)]
HasLine(o) == \E k \in DOMAIN items : items[k].order = o
OnlyPlacedOrders == DOMAIN orders \subseteq DOMAIN InitOrders

\* No step creates an order here.
LEMMA StepKeepsPlaced == TypeOK /\ OnlyPlacedOrders /\ [Next]_vars => OnlyPlacedOrders'
BY OrdersStay DEF OnlyPlacedOrders, Delete, Restrict

\* An order's phase depends on its row and on whether it has a line.
LEMMA SamePhase ==
  ASSUME NEW o, o \in DOMAIN orders' <=> o \in DOMAIN orders,
         o \in DOMAIN orders => orders'[o] = orders[o],
         HasLine(o)' <=> HasLine(o)
  PROVE  Phase(o)' = Phase(o)
BY DEF Phase, HasLine

\* A step that leaves all phases but one order's alone, and moves that one as
\* the lifecycle allows, is a step of the lifecycle.
LEMMA OnePhaseMoves ==
  ASSUME NEW o \in DOMAIN InitOrders,
         \A p \in DOMAIN InitOrders : p # o => Phase(p)' = Phase(p),
         \/ Phase(o)' = Phase(o)
         \/ Phase(o) = "placed" /\ Phase(o)' = "complete"
         \/ Phase(o) \in {"placed", "complete"} /\ Phase(o)' = "empty"
         \/ Phase(o) = "empty" /\ Phase(o)' = "gone"
  PROVE  Lifecycle!Next \/ Phases' = Phases
<1>1. CASE Phase(o)' = Phase(o)
  BY <1>1 DEF Phases
<1>2. \A to : Phase(o)' = to => Phases' = [Phases EXCEPT ![o] = to]
  BY DEF Phases
<1>3. Phases[o] = Phase(o)
  BY DEF Phases
<1>4. CASE Phase(o) = "placed" /\ Phase(o)' = "complete"
  BY <1>2, <1>3, <1>4 DEF Phases, Lifecycle!Next, Lifecycle!Complete, Lifecycle!Move
<1>5. CASE Phase(o) \in {"placed", "complete"} /\ Phase(o)' = "empty"
  BY <1>2, <1>3, <1>5 DEF Phases, Lifecycle!Next, Lifecycle!Withdraw, Lifecycle!Move
<1>6. CASE Phase(o) = "empty" /\ Phase(o)' = "gone"
  BY <1>2, <1>3, <1>6 DEF Phases, Lifecycle!Next, Lifecycle!Drop, Lifecycle!Move
<1> QED
  BY <1>1, <1>4, <1>5, <1>6

\* What a step does to the phases: nothing, or it moves one order's.
LEMMA PhaseMoves ==
  ASSUME TypeOK, [Next]_vars
  PROVE  \/ \A p : Phase(p)' = Phase(p)
         \/ \E o \in DOMAIN orders :
              /\ \A p : p # o => Phase(p)' = Phase(p)
              /\ \/ Phase(o) \in {"placed", "complete"} /\ Phase(o)' = "complete"
                 \/ Phase(o) \in {"placed", "complete", "empty"} /\ Phase(o)' = "empty"
                 \/ /\ \E r \in DOMAIN req : req[r].at = "drop" /\ req[r].order = o
                    /\ HasLine(o) \/ Phase(o) = "empty"
                    /\ Phase(o)' = "gone"
<1> DEFINE Quiet == \A p : Phase(p)' = Phase(p)
           Moves == \E o \in DOMAIN orders :
              /\ \A p : p # o => Phase(p)' = Phase(p)
              /\ \/ Phase(o) \in {"placed", "complete"} /\ Phase(o)' = "complete"
                 \/ Phase(o) \in {"placed", "complete", "empty"} /\ Phase(o)' = "empty"
                 \/ /\ \E r \in DOMAIN req : req[r].at = "drop" /\ req[r].order = o
                    /\ HasLine(o) \/ Phase(o) = "empty"
                    /\ Phase(o)' = "gone"
<1>1. ASSUME UNCHANGED <<orders, items>> PROVE Quiet
  BY <1>1 DEF Phase
<1>2. ASSUME NEW r \in Requests, Credit(r) \/ UpdateOrder(r) PROVE Quiet
  <2>1. orders' = orders /\ DOMAIN items' = DOMAIN items
    BY <1>2 DEF Credit, UpdateOrder
  <2>2. \A o : HasLine(o)' <=> HasLine(o)
    BY <2>1, StepKeepsLines DEF LinesStay, HasLine
  <2> QED
    BY <2>1, <2>2, SamePhase
<1>3. ASSUME NEW r \in Requests, MarkComplete(r) PROVE Quiet \/ Moves
  <2>1. items' = items
    BY <1>3 DEF MarkComplete
  <2>2. CASE orders' = orders
    BY <2>1, <2>2, <1>1
  <2>3. CASE orders' # orders
    <3>1. PICK o : /\ o \in DOMAIN orders /\ HasLine(o)
                   /\ orders' = [orders EXCEPT ![o].status = "Complete"]
      BY <2>3, <1>3 DEF MarkComplete, LinesOf, HasLine
    <3>2. \A p : p # o => Phase(p)' = Phase(p)
      BY <3>1, <2>1 DEF Phase
    <3>3. Phase(o) \in {"placed", "complete"}
      BY <3>1 DEF Phase, HasLine
    <3>4. o \in DOMAIN orders' /\ orders'[o].status = "Complete"
      BY <3>1 DEF TypeOK, IsTable, OrderRow
    <3>5. Phase(o)' = "complete"
      BY <3>1, <3>4, <2>1 DEF Phase, HasLine
    <3> QED
      BY <3>1, <3>2, <3>3, <3>5
  <2> QED
    BY <2>2, <2>3
<1>4. ASSUME NEW r \in Requests, DeleteLines(r) PROVE Quiet \/ Moves
  <2>1. PICK o : items' = Delete(items, {k \in DOMAIN items : items[k].order = o})
    BY <1>4 DEF DeleteLines
  <2>2. orders' = orders
    BY <1>4 DEF DeleteLines
  <2>3. ~HasLine(o)' /\ \A p : p # o => (HasLine(p)' <=> HasLine(p))
    BY <2>1 DEF Delete, Restrict, HasLine
  <2>4. \A p : p # o => Phase(p)' = Phase(p)
    BY <2>2, <2>3, SamePhase
  <2>5. CASE o \notin DOMAIN orders
    <3>1. Phase(o)' = Phase(o)
      BY <2>2, <2>5 DEF Phase
    <3> QED
      BY <2>4, <3>1
  <2>6. CASE o \in DOMAIN orders
    <3>1. Phase(o)' = "empty" /\ Phase(o) \in {"placed", "complete", "empty"}
      BY <2>2, <2>3, <2>6 DEF Phase, HasLine
    <3> QED
      BY <2>4, <2>6, <3>1
  <2> QED
    BY <2>5, <2>6
<1>5. ASSUME NEW r \in Requests, DropOrder(r) PROVE Quiet \/ Moves
  <2>1. PICK o : /\ o = req[r].order
                 /\ orders' = Delete(orders, {o}) /\ items' = items
    BY <1>5 DEF DropOrder
  <2>2. r \in DOMAIN req /\ req[r].at = "drop"
    BY <1>5 DEF DropOrder, At
  <2>3. \A p : p # o => Phase(p)' = Phase(p)
    BY <2>1 DEF Phase, Delete, Restrict
  <2>4. Phase(o)' = "gone"
    BY <2>1 DEF Phase, Delete, Restrict
  <2>5. CASE o \notin DOMAIN orders
    <3>1. Phase(o) = "gone"
      BY <2>5 DEF Phase
    <3> QED
      BY <2>3, <2>4, <3>1
  <2>6. CASE o \in DOMAIN orders
    <3>1. HasLine(o) \/ Phase(o) = "empty"
      BY <2>6 DEF Phase, HasLine
    <3> QED
      BY <2>1, <2>2, <2>3, <2>4, <2>6, <3>1
  <2> QED
    BY <2>5, <2>6
<1>6. ASSUME NEW r \in Requests,
             OpenForm(r) \/ Debit(r) \/ CheckStock(r) \/ Reorder(r) \/ StopEarly(r)
      PROVE  Quiet
  <2>1. UNCHANGED <<orders, items>>
    BY <1>6 DEF OpenForm, Debit, CheckStock, Reorder, StopEarly, tables
  <2> QED
    BY <1>1, <2>1
<1>7. CASE Next
  <2> PICK r \in Requests : \/ OpenForm(r) \/ Debit(r) \/ Proceed(r)
                           \/ UpdateOrder(r) \/ DeleteLines(r) \/ StopEarly(r)
    BY <1>7 DEF Next
  <2> QED
    BY <1>2, <1>3, <1>4, <1>5, <1>6 DEF Proceed
<1>8. Quiet \/ Moves
  <2>1. UNCHANGED vars => UNCHANGED <<orders, items>>
    BY DEF vars
  <2> QED
    BY <1>1, <1>7, <2>1
<1> QED
  BY <1>8

\* Every step is one of the lifecycle, or leaves it where it is.
LEMMA StepFollowsLifecycle ==
  ASSUME TypeOK, DropIsEmpty, OnlyPlacedOrders, [Next]_vars
  PROVE  Lifecycle!Next \/ Phases' = Phases
<1>1. ASSUME \A p : Phase(p)' = Phase(p) PROVE Phases' = Phases
  BY <1>1 DEF Phases
<1>2. ASSUME NEW o \in DOMAIN orders,
             \A p : p # o => Phase(p)' = Phase(p),
             \/ Phase(o) \in {"placed", "complete"} /\ Phase(o)' = "complete"
             \/ Phase(o) \in {"placed", "complete", "empty"} /\ Phase(o)' = "empty"
             \/ /\ \E r \in DOMAIN req : req[r].at = "drop" /\ req[r].order = o
                /\ HasLine(o) \/ Phase(o) = "empty"
                /\ Phase(o)' = "gone"
      PROVE  Lifecycle!Next \/ Phases' = Phases
  <2>1. o \in DOMAIN InitOrders
    BY DEF OnlyPlacedOrders
  <2>2. (\E r \in DOMAIN req : req[r].at = "drop" /\ req[r].order = o) => ~HasLine(o)
    BY DEF DropIsEmpty, HasLine
  <2> QED
    BY <1>2, <2>1, <2>2, OnePhaseMoves
<1> QED
  BY <1>1, <1>2, PhaseMoves

\* Shipping, editing and deleting, statement by statement, implement the life
\* of an order as OrderLifecycle states it.
THEOREM ImplementsLifecycle == Spec => FollowsLifecycle
<1>1. Init => DropIsEmpty /\ OnlyPlacedOrders
  BY DEF Init, DropIsEmpty, OnlyPlacedOrders
<1>2. Init => Lifecycle!Init
  <2> SUFFICES ASSUME Init PROVE Phases \in [DOMAIN InitOrders -> {"placed", "empty"}]
    BY DEF Lifecycle!Init, Phases
  <2>1. \A o \in DOMAIN InitOrders : Phase(o) \in {"placed", "empty"}
    BY FulfilmentAssumption DEF Init, Phase
  <2> QED
    BY <2>1 DEF Phases
<1>3. TypeOK /\ DropIsEmpty /\ OnlyPlacedOrders /\ [Next]_vars
        => [Lifecycle!Next]_Phases
  BY StepFollowsLifecycle
<1> QED
  BY <1>1, <1>2, <1>3, StepKeepsDrop, StepKeepsPlaced, InitTypes, TypeInvariant, PTL
     DEF Spec, FollowsLifecycle, Lifecycle!Spec, Phases

-----------------------------------------------------------------------------
(* The ledgers.                                                            *)

\* What the requests of R ship together, by the records in q.
Qty(q, R) == SumFunction([r \in R |-> q[r].qty])

\* Shipped is Qty, before and after a step.
LEMMA ShippedIsQty ==
  ASSUME NEW O, NEW i, NEW L
  PROVE  /\ Shipped(For(O, i, L)) = Qty(req, For(O, i, L))
         /\ Shipped(For(O, i, L))' = Qty(req', For(O, i, L)')
BY DEF Shipped, Qty

\* The ledgers add up by SumFunction, the lemmas by SumFunctionOnSet.
LEMMA QtyIsSum ==
  ASSUME NEW q, NEW R
  PROVE  Qty(q, R) = SumFunctionOnSet([r \in R |-> q[r].qty], R)
BY DEF Qty, SumFunction

\* A sum of integer quantities is an integer.
LEMMA QtyType ==
  ASSUME NEW q, NEW R, IsFiniteSet(R), \A r \in R : q[r].qty \in Int
  PROVE  Qty(q, R) \in Int
<1> DEFINE f == [r \in R |-> q[r].qty]
<1>1. \A r \in R : f[r] \in Int
  OBVIOUS
<1> HIDE DEF f
<1>2. SumFunctionOnSet(f, R) \in Int
  BY <1>1, SumType
<1> QED
  BY <1>2, QtyIsSum DEF f

\* Another request adds what it ships.
LEMMA QtyMore ==
  ASSUME NEW q, NEW p, NEW R, IsFiniteSet(R), NEW r, r \notin R,
         \A x \in R : q[x].qty \in Int /\ p[x].qty = q[x].qty, p[r].qty \in Int
  PROVE  Qty(p, R \cup {r}) = p[r].qty + Qty(q, R)
<1> DEFINE T == R \cup {r}
           f == [x \in T |-> p[x].qty]
           g == [x \in R |-> q[x].qty]
<1>1. /\ \A x \in R : f[x] \in Int /\ f[x] = g[x]
      /\ f[r] \in Int /\ f[r] = p[r].qty
  OBVIOUS
<1>2. Qty(p, T) = SumFunctionOnSet(f, T) /\ Qty(q, R) = SumFunctionOnSet(g, R)
  BY QtyIsSum
<1> HIDE DEF f, g
<1>3. SumFunctionOnSet(f, R) = SumFunctionOnSet(g, R)
  BY <1>1, SumSame
<1>4. SumFunctionOnSet(f, R \cup {r}) = f[r] + SumFunctionOnSet(f, R)
  BY <1>1, SumAdd
<1> QED
  BY <1>1, <1>2, <1>3, <1>4

\* A ledger does not change when the same requests count for the same.
LEMMA QtySame ==
  ASSUME NEW q, NEW p, NEW R, \A x \in R : p[x].qty = q[x].qty
  PROVE  Qty(p, R) = Qty(q, R)
<1>1. [x \in R |-> p[x].qty] = [x \in R |-> q[x].qty]
  OBVIOUS
<1> QED
  BY <1>1 DEF Qty

\* The labels at which a request has run executeQuery's first statement, and
\* its second.
Debited  == InFlight \cup (Ended \ {"void"})
Credited == {"status", "check", "reorder", "unchecked", "done"}

\* Requests are finitely many, and those that a ledger counts are shipments.
FinitelyMany == IsFiniteSet(DOMAIN req)

\* What the ledgers need of the types.
LEMMA LedgerTypes ==
  ASSUME TypeOK, FinitelyMany, NEW O, NEW i, NEW L, L \subseteq InFlight \cup Ended
  PROVE  /\ IsFiniteSet(For(O, i, L))
         /\ \A r \in For(O, i, L) : req[r] \in Shipping /\ req[r].qty \in Int
<1>1. For(O, i, L) \subseteq DOMAIN req
  BY DEF For
<1>2. IsFiniteSet(For(O, i, L))
  BY <1>1, FS_Subset DEF FinitelyMany
<1>3. \A r \in For(O, i, L) : req[r] \in Shipping
  BY LabelGivesType DEF For
<1> QED
  BY <1>2, <1>3 DEF Shipping

\* No ledger counts a request that has just arrived.
LEMMA ArrivalKeepsLedgers ==
  ASSUME NEW r, r \notin DOMAIN req, NEW row, req' = Insert(req, r, row),
         NEW O, NEW i, NEW L, row.at \notin L
  PROVE  /\ For(O, i, L)' = For(O, i, L)
         /\ \A x \in For(O, i, L) : req'[x].qty = req[x].qty
<1>1. /\ DOMAIN req' = DOMAIN req \cup {r} /\ req'[r] = row
      /\ \A x \in DOMAIN req : req'[x] = req[x]
  BY DEF Insert
<1> QED
  BY <1>1 DEF For

\* A request that moves on stays in the ledgers that count both statements.
LEMMA MoveKeepsLedgers ==
  ASSUME TypeOK, NEW r \in DOMAIN req, NEW label, Goto(r, label),
         NEW O, NEW i, NEW L, L \subseteq InFlight \cup Ended,
         label \in L <=> req[r].at \in L
  PROVE  /\ For(O, i, L)' = For(O, i, L)
         /\ \A x \in For(O, i, L) : req'[x].qty = req[x].qty
<1>1. /\ DOMAIN req' = DOMAIN req
      /\ \A x \in DOMAIN req : x # r => req'[x] = req[x]
      /\ req'[r].at = label
  BY GotoFacts
<1>2. CASE req[r].at \in L
  <2>1. req[r] \in Shipping
    BY <1>2, LabelGivesType
  <2>2. req'[r] = [req[r] EXCEPT !.at = label]
    BY DEF Goto
  <2>3. /\ req'[r].order = req[r].order
        /\ req'[r].item = req[r].item
        /\ req'[r].qty = req[r].qty
    BY <2>1, <2>2 DEF Shipping
  <2> QED
    BY <1>1, <1>2, <2>3 DEF For
<1>3. CASE req[r].at \notin L
  BY <1>1, <1>3 DEF For
<1> QED
  BY <1>2, <1>3

\* Requests arrive one by one.
LEMMA StepKeepsFinite == FinitelyMany /\ [Next]_vars => FinitelyMany'
<1> SUFFICES ASSUME FinitelyMany, [Next]_vars PROVE FinitelyMany'
  OBVIOUS
<1>1. CASE DOMAIN req' = DOMAIN req
  BY <1>1 DEF FinitelyMany
<1>2. ASSUME NEW r, DOMAIN req' = DOMAIN req \cup {r} PROVE FinitelyMany'
  <2>1. IsFiniteSet(DOMAIN req \cup {r})
    BY FS_AddElement DEF FinitelyMany
  <2> QED
    BY <2>1, <1>2 DEF FinitelyMany
<1>3. CASE Next
  <2> PICK r \in Requests : \/ OpenForm(r) \/ Debit(r) \/ Proceed(r)
                           \/ UpdateOrder(r) \/ DeleteLines(r) \/ StopEarly(r)
    BY <1>3 DEF Next
  <2>1. CASE OpenForm(r) \/ UpdateOrder(r) \/ DeleteLines(r)
    BY <2>1, <1>2 DEF OpenForm, UpdateOrder, DeleteLines, Insert
  <2>2. CASE Debit(r) \/ Proceed(r) \/ StopEarly(r)
    BY <2>2, <1>1 DEF Debit, Proceed, StopEarly, Credit, MarkComplete, CheckStock,
                      Reorder, DropOrder, Goto
  <2> QED
    BY <2>1, <2>2
<1> QED
  BY <1>1, <1>3 DEF vars

\* A debit, on a shelf with the request's item.
LEMMA DebitFacts ==
  ASSUME TypeOK, NEW r, Debit(r)
  PROVE  \E q \in Int :
           /\ r \in DOMAIN req /\ DOMAIN req' = DOMAIN req /\ req[r].at = "form"
           /\ \A x \in DOMAIN req : x # r => req'[x] = req[x]
           /\ req'[r].item = req[r].item /\ req'[r].order = req[r].order
           /\ req'[r].qty = q /\ req[r].order \in OrderIds
           /\ req'[r].at \in {"void", "credit"}
           /\ \A wi \in Stocked :
                IF wi[2] = req[r].item
                  THEN stock'[wi] = stock[wi] - q /\ req'[r].at = "credit"
                  ELSE stock'[wi] = stock[wi]
<1>1. r \in DOMAIN req /\ req[r].at = "form" /\ req[r] \in Shipping
  BY LabelGivesType DEF Debit, At
<1> DEFINE hit == {wi \in Stocked : wi[2] = req[r].item}
<1>2. PICK q \in Quantities \cup {req[r].qty} :
        /\ stock' = [wi \in Stocked |-> IF wi \in hit THEN Taken(stock[wi], q)
                                                      ELSE stock[wi]]
        /\ req' = [req EXCEPT ![r].at = IF hit = {} THEN "void" ELSE "credit",
                              ![r].qty = q]
  BY DEF Debit
<1>3. q \in Int
  BY <1>1, FulfilmentAssumption DEF Shipping
<1>4. /\ DOMAIN req' = DOMAIN req
      /\ \A x \in DOMAIN req : x # r => req'[x] = req[x]
      /\ req'[r] = [req[r] EXCEPT !.at = IF hit = {} THEN "void" ELSE "credit", !.qty = q]
  <2> HIDE DEF hit
  <2> QED
    BY <1>1, <1>2
<1>5. /\ req'[r].item = req[r].item /\ req'[r].order = req[r].order
      /\ req'[r].qty = q /\ req[r].order \in OrderIds
      /\ req'[r].at = IF hit = {} THEN "void" ELSE "credit"
  <2> HIDE DEF hit
  <2> QED
    BY <1>1, <1>4 DEF Shipping
<1>6. ASSUME NEW wi \in Stocked
      PROVE  IF wi[2] = req[r].item
               THEN stock'[wi] = stock[wi] - q /\ req'[r].at = "credit"
               ELSE stock'[wi] = stock[wi]
  BY <1>2, <1>5 DEF Taken
<1> HIDE DEF hit
<1> QED
  BY <1>1, <1>3, <1>4, <1>5, <1>6

\* A request arrives at a form, a served page or between two deletes.
LEMMA ArrivalFacts ==
  ASSUME NEW r, OpenForm(r) \/ UpdateOrder(r) \/ DeleteLines(r)
  PROVE  \E row : row.at \in {"form", "served", "drop"} /\ req' = Insert(req, r, row)
<1>1. CASE OpenForm(r)
  <2>1. PICK k \in DOMAIN items :
          req' = Insert(req, r, [at |-> "form", order |-> items[k].order,
                                 item |-> items[k].item, qty |-> items[k].qty])
    BY <1>1 DEF OpenForm
  <2> DEFINE row == [at |-> "form", order |-> items[k].order,
                     item |-> items[k].item, qty |-> items[k].qty]
  <2>2. row.at = "form"
    OBVIOUS
  <2> HIDE DEF row
  <2> QED
    BY <2>1, <2>2 DEF row
<1>2. CASE UpdateOrder(r)
  <2>1. PICK o : req' = Insert(req, r, [at |-> "served", order |-> o])
    BY <1>2 DEF UpdateOrder
  <2>2. [at |-> "served", order |-> o].at = "served"
    OBVIOUS
  <2> QED
    BY <2>1, <2>2
<1>3. CASE DeleteLines(r)
  <2>1. PICK o : req' = Insert(req, r, [at |-> "drop", order |-> o])
    BY <1>3 DEF DeleteLines
  <2>2. [at |-> "drop", order |-> o].at = "drop"
    OBVIOUS
  <2> QED
    BY <2>1, <2>2
<1> QED
  BY <1>1, <1>2, <1>3

\* Every step keeps the account of the shelves.
LEMMA StepKeepsStockLedger ==
  TypeOK /\ FinitelyMany /\ StockLedger /\ [Next]_vars => StockLedger'
<1> SUFFICES ASSUME TypeOK, FinitelyMany, StockLedger, [Next]_vars, NEW wi \in Stocked
             PROVE  stock'[wi] = InitStock[wi] - Shipped(For(OrderIds, wi[2], Debited))'
  BY DEF StockLedger, Debited
<1> DEFINE S == For(OrderIds, wi[2], Debited)
           T == For(OrderIds, wi[2], Debited)'
           Kept == stock'[wi] = InitStock[wi] - Shipped(For(OrderIds, wi[2], Debited))'
<1>1. Debited \subseteq InFlight \cup Ended
  BY DEF Debited
<1>2. stock[wi] = InitStock[wi] - Qty(req, S)
  BY ShippedIsQty DEF StockLedger, Debited
<1>3. Shipped(For(OrderIds, wi[2], Debited))' = Qty(req', T)
  BY ShippedIsQty
<1>4. IsFiniteSet(S) /\ \A x \in S : req[x] \in Shipping /\ req[x].qty \in Int
  BY <1>1, LedgerTypes
<1>5. ASSUME stock' = stock, T = S, \A x \in S : req'[x].qty = req[x].qty PROVE Kept
  BY <1>2, <1>3, <1>5, QtySame
<1>6. ASSUME NEW r \in Requests, OpenForm(r) \/ UpdateOrder(r) \/ DeleteLines(r)
      PROVE  Kept
  <2>1. r \notin DOMAIN req /\ stock' = stock
    BY <1>6 DEF OpenForm, UpdateOrder, DeleteLines, New, tables
  <2>2. PICK row : row.at \in {"form", "served", "drop"} /\ req' = Insert(req, r, row)
    BY <1>6, ArrivalFacts
  <2>3. row.at \notin Debited
    BY <2>2 DEF Debited, InFlight, Ended
  <2> HIDE DEF Kept
  <2> QED
    BY <2>1, <2>2, <2>3, <1>5, ArrivalKeepsLedgers
<1>7. ASSUME NEW r \in Requests, Proceed(r) \/ StopEarly(r) PROVE Kept
  <2>1. PICK label : /\ r \in DOMAIN req /\ Goto(r, label) /\ stock' = stock
                     /\ label \in Debited <=> req[r].at \in Debited
    BY <1>7 DEF Proceed, StopEarly, Credit, MarkComplete, CheckStock, Reorder, DropOrder,
                At, Debited, InFlight, Ended, tables
  <2> HIDE DEF Kept
  <2> QED
    BY <2>1, <1>1, <1>5, MoveKeepsLedgers
<1>8. ASSUME NEW r \in Requests, Debit(r) PROVE Kept
  <2>1. PICK q \in Int :
           /\ r \in DOMAIN req /\ DOMAIN req' = DOMAIN req /\ req[r].at = "form"
           /\ \A x \in DOMAIN req : x # r => req'[x] = req[x]
           /\ req'[r].item = req[r].item /\ req'[r].order = req[r].order
           /\ req'[r].qty = q /\ req[r].order \in OrderIds
           /\ req'[r].at \in {"void", "credit"}
           /\ IF wi[2] = req[r].item
                THEN stock'[wi] = stock[wi] - q /\ req'[r].at = "credit"
                ELSE stock'[wi] = stock[wi]
    BY <1>8, DebitFacts
  <2>2. r \notin S /\ \A x \in S : req'[x] = req[x]
    BY <2>1 DEF For, Debited, InFlight, Ended
  <2>3. CASE wi[2] = req[r].item
    <3>1. T = S \cup {r}
      BY <2>1, <2>3 DEF For, Debited, InFlight, Ended
    <3>2. Qty(req', T) = q + Qty(req, S)
      <4> HIDE DEF S, T
      <4> QED
        BY <2>1, <2>2, <3>1, <1>4, QtyMore
    <3>3. Qty(req, S) \in Int
      BY <1>4, QtyType
    <3>4. InitStock[wi] \in Int
      BY FulfilmentAssumption
    <3>5. stock'[wi] = stock[wi] - q
      BY <2>1, <2>3
    <3>6. \A a, b \in Int : a - b - q = a - (q + b)
      OBVIOUS
    <3> HIDE DEF S, T
    <3> QED
      BY <1>2, <1>3, <3>2, <3>3, <3>4, <3>5, <3>6
  <2>4. CASE wi[2] # req[r].item
    <3>1. T = S
      BY <2>1, <2>4 DEF For, Debited, InFlight, Ended
    <3>2. Qty(req', S) = Qty(req, S)
      <4> HIDE DEF S
      <4> QED
        BY <2>2, QtySame
    <3> QED
      BY <1>2, <1>3, <2>1, <2>4, <3>1, <3>2
  <2> QED
    BY <2>3, <2>4
<1>9. CASE UNCHANGED vars
  BY <1>5, <1>9 DEF vars, For
<1>10. CASE Next
  <2> PICK r \in Requests : \/ OpenForm(r) \/ Debit(r) \/ Proceed(r)
                           \/ UpdateOrder(r) \/ DeleteLines(r) \/ StopEarly(r)
    BY <1>10 DEF Next
  <2> QED
    BY <1>6, <1>7, <1>8
<1> QED
  BY <1>9, <1>10

\* Every shelf is short of its first stock by what the requests that debited
\* it took, whatever became of them and however they interleaved.
THEOREM ShelvesBalance == Spec => []StockLedger
<1>1. Init => FinitelyMany
  BY FS_EmptySet DEF Init, FinitelyMany
<1>2. Init => StockLedger
  <2> SUFFICES ASSUME Init, NEW wi \in Stocked
               PROVE  stock[wi] = InitStock[wi] - Shipped(For(OrderIds, wi[2], Debited))
    BY DEF StockLedger, Debited
  <2>1. For(OrderIds, wi[2], Debited) = {}
    BY DEF Init, For
  <2>2. Shipped(For(OrderIds, wi[2], Debited)) = 0
    BY <2>1, ShippedIsQty, QtyIsSum, SumEmpty
  <2>3. stock[wi] = InitStock[wi] /\ InitStock[wi] \in Int
    BY FulfilmentAssumption DEF Init
  <2>4. \A n \in Int : n = n - 0
    OBVIOUS
  <2> QED
    BY <2>2, <2>3, <2>4
<1> QED
  BY <1>1, <1>2, StepKeepsFinite, StepKeepsStockLedger, InitTypes, TypeInvariant, PTL
     DEF Spec

\* A request that has ended stays as it is.
LEMMA EndedStays ==
  ASSUME [Next]_vars, NEW r \in DOMAIN req, req[r].at \in Ended \cup {"served"}
  PROVE  r \in DOMAIN req' /\ req'[r] = req[r]
<1>1. ASSUME NEW d \in Requests, d # r,
             \/ \E row : req' = Insert(req, d, row)
             \/ \E row : req' = [req EXCEPT ![d] = row]
      PROVE  r \in DOMAIN req' /\ req'[r] = req[r]
  BY <1>1 DEF Insert
<1>2. ASSUME NEW d \in Requests, OpenForm(d) \/ UpdateOrder(d) \/ DeleteLines(d)
      PROVE  r \in DOMAIN req' /\ req'[r] = req[r]
  <2>1. d # r
    BY <1>2 DEF OpenForm, UpdateOrder, DeleteLines, New
  <2> QED
    BY <1>1, <1>2, <2>1, ArrivalFacts
<1>3. ASSUME NEW d \in Requests, Debit(d) PROVE r \in DOMAIN req' /\ req'[r] = req[r]
  <2>1. d # r
    BY <1>3 DEF Debit, At, Ended
  <2>2. PICK label, q : req' = [req EXCEPT ![d].at = label, ![d].qty = q]
    BY <1>3 DEF Debit
  <2> QED
    BY <2>1, <2>2
<1>4. ASSUME NEW d \in Requests, Proceed(d) \/ StopEarly(d)
      PROVE  r \in DOMAIN req' /\ req'[r] = req[r]
  <2>1. d # r
    BY <1>4 DEF Proceed, Credit, MarkComplete, CheckStock, Reorder, DropOrder, StopEarly, At, Ended
  <2>2. PICK label : Goto(d, label)
    BY <1>4 DEF Proceed, Credit, MarkComplete, CheckStock, Reorder, DropOrder, StopEarly
  <2> QED
    BY <2>1, <2>2 DEF Goto
<1>5. CASE Next
  <2> PICK d \in Requests : \/ OpenForm(d) \/ Debit(d) \/ Proceed(d)
                           \/ UpdateOrder(d) \/ DeleteLines(d) \/ StopEarly(d)
    BY <1>5 DEF Next
  <2> QED
    BY <1>2, <1>3, <1>4
<1> QED
  BY <1>5 DEF vars

\* No line is added to those that the placed orders left.
OnlyPlacedLines == DOMAIN items \subseteq DOMAIN InitItems

\* No line is ever added.
LEMMA StepKeepsPlacedLines ==
  TypeOK /\ OnlyPlacedLines /\ [Next]_vars => OnlyPlacedLines'
BY StepKeepsLines DEF OnlyPlacedLines, LinesStay

\* Every step keeps the account of the lines.
LEMMA StepKeepsOrderLedger ==
  /\ TypeOK /\ FinitelyMany /\ OnlyPlacedLines /\ OrderLedger
  /\ [Next]_vars
  => OrderLedger'
<1> SUFFICES ASSUME TypeOK, FinitelyMany, OnlyPlacedLines, OrderLedger, [Next]_vars,
                    NEW k \in DOMAIN items',
                    \A r \in DOMAIN req' : req'[r].at = "served"
                                             => req'[r].order # items'[k].order
             PROVE  items'[k].qty = InitItems[k].qty -
                      Shipped(For({items[k].order}, items[k].item, Credited))'
  BY DEF OrderLedger, Credited
<1>0. /\ k \in DOMAIN items
      /\ items'[k].order = items[k].order /\ items'[k].item = items[k].item
      /\ items[k].order \in OrderIds /\ items[k].qty \in Int
  BY StepKeepsLines DEF LinesStay, TypeOK, IsTable, ItemRow
<1> PICK o, i : o \in OrderIds /\ o = items[k].order /\ i = items[k].item
  BY <1>0
<1> DEFINE S == For({o}, i, Credited)
           T == For({o}, i, Credited)'
           Kept == items'[k].qty = InitItems[k].qty - Qty(req', T)
<1>1. Credited \subseteq InFlight \cup Ended
  BY DEF Credited, InFlight, Ended
<1>2. items[k].qty = InitItems[k].qty - Qty(req, S)
  <2>1. \A r \in DOMAIN req : req[r].at = "served" => req[r].order # o
    BY <1>0, EndedStays
  <2>2. items[k].qty = InitItems[k].qty - Shipped(For({o}, i, Credited))
    BY <1>0, <2>1 DEF OrderLedger, Credited
  <2> QED
    BY <2>2, ShippedIsQty
<1>3. SUFFICES Kept
  <2>1. For({items[k].order}, items[k].item, Credited)' = T
    BY <1>0 DEF For
  <2>2. Shipped(For({items[k].order}, items[k].item, Credited))' = Qty(req', T)
    BY <2>1 DEF Shipped, Qty
  <2> QED
    BY <2>2
<1>4. IsFiniteSet(S) /\ \A x \in S : req[x] \in Shipping /\ req[x].qty \in Int
  BY <1>1, LedgerTypes
<1>5. ASSUME items'[k].qty = items[k].qty, T = S, \A x \in S : req'[x].qty = req[x].qty
      PROVE  Kept
  <2> HIDE DEF S, T
  <2>1. Qty(req', S) = Qty(req, S)
    BY <1>5, QtySame
  <2> QED
    BY <1>2, <1>5, <2>1
<1>6. ASSUME NEW r \in Requests, OpenForm(r) \/ UpdateOrder(r) \/ DeleteLines(r)
      PROVE  Kept
  <2>1. r \notin DOMAIN req
    BY <1>6 DEF OpenForm, UpdateOrder, DeleteLines, New
  <2>2. PICK row : row.at \in {"form", "served", "drop"} /\ req' = Insert(req, r, row)
    BY <1>6, ArrivalFacts
  <2>3. row.at \notin Credited
    BY <2>2 DEF Credited
  <2>4. items'[k].qty = items[k].qty
    <3>1. CASE OpenForm(r)
      BY <3>1 DEF OpenForm, tables
    <3>2. CASE UpdateOrder(r)
      <4>1. PICK p, j, q : /\ items' = [l \in DOMAIN items |->
                                          IF l \in LinesOf(p, j) THEN [items[l] EXCEPT !.qty = q]
                                                                 ELSE items[l]]
                           /\ req' = Insert(req, r, [at |-> "served", order |-> p])
        BY <3>2 DEF UpdateOrder
      <4>2. r \in DOMAIN req' /\ req'[r].at = "served" /\ req'[r].order = p
        BY <4>1 DEF Insert
      <4>3. k \notin LinesOf(p, j)
        BY <4>2, <1>0 DEF LinesOf
      <4> QED
        BY <4>1, <4>3, <1>0
    <3>3. CASE DeleteLines(r)
      BY <3>3, <1>0 DEF DeleteLines, Delete, Restrict
    <3> QED
      BY <1>6, <3>1, <3>2, <3>3
  <2> HIDE DEF Kept
  <2> QED
    BY <2>1, <2>2, <2>3, <2>4, <1>5, ArrivalKeepsLedgers
<1>7. ASSUME NEW r \in Requests,
             MarkComplete(r) \/ CheckStock(r) \/ Reorder(r) \/ DropOrder(r) \/ StopEarly(r)
      PROVE  Kept
  <2>1. PICK label : /\ r \in DOMAIN req /\ Goto(r, label) /\ items' = items
                     /\ label \in Credited <=> req[r].at \in Credited
    BY <1>7 DEF StopEarly, MarkComplete, CheckStock, Reorder, DropOrder,
                At, Credited, tables
  <2> HIDE DEF Kept
  <2> QED
    BY <2>1, <1>1, <1>5, MoveKeepsLedgers
<1>8. ASSUME NEW r \in Requests, Debit(r) PROVE Kept
  <2>1. /\ DOMAIN req' = DOMAIN req /\ req[r].at = "form" /\ req'[r].at \in {"void", "credit"}
        /\ \A x \in DOMAIN req : x # r => req'[x] = req[x]
    BY <1>8, DebitFacts
  <2>2. T = S /\ \A x \in S : req'[x].qty = req[x].qty
    BY <2>1 DEF For, Credited
  <2>3. items' = items
    BY <1>8 DEF Debit
  <2> HIDE DEF Kept
  <2> QED
    BY <2>2, <2>3, <1>5
<1>9. ASSUME NEW r \in Requests, Credit(r) PROVE Kept
  <2>1. r \in DOMAIN req /\ req[r].at = "credit" /\ req[r] \in Shipping
    BY <1>9, LabelGivesType DEF Credit, At, InFlight
  <2> PICK hit : /\ hit = LinesOf(req[r].order, req[r].item)
                 /\ items' = [l \in DOMAIN items |->
                                IF l \in hit THEN [items[l] EXCEPT !.qty = @ - req[r].qty]
                                             ELSE items[l]]
                 /\ Goto(r, IF hit = {} THEN "lost" ELSE "status")
    BY <1>9 DEF Credit
  <2>2. CASE k \notin hit
    <3>1. items'[k].qty = items[k].qty
      BY <2>2, <1>0
    <3>2. ~(req[r].order = o /\ req[r].item = i)
      BY <2>2, <1>0 DEF LinesOf
    <3>3. /\ DOMAIN req' = DOMAIN req
          /\ \A x \in DOMAIN req : x # r => req'[x] = req[x]
          /\ req'[r].order = req[r].order /\ req'[r].item = req[r].item
      BY <2>1 DEF Goto, Shipping
    <3>4. T = S /\ \A x \in S : req'[x].qty = req[x].qty
      BY <3>2, <3>3, <2>1 DEF For
    <3> HIDE DEF Kept
    <3> QED
      BY <3>1, <3>4, <1>5
  <2>3. CASE k \in hit
    <3>1. Goto(r, "status")
      BY <2>3
    <3>2. /\ DOMAIN req' = DOMAIN req
          /\ \A x \in DOMAIN req : x # r => req'[x] = req[x]
          /\ req'[r].order = o /\ req'[r].item = i /\ req'[r].qty = req[r].qty
          /\ req'[r].at = "status"
      <4>1. req[r].order = o /\ req[r].item = i
        BY <2>3 DEF LinesOf
      <4> QED
        BY <2>1, <3>1, <4>1 DEF Goto, Shipping
    <3>3. T = S \cup {r} /\ r \notin S /\ \A x \in S : req'[x] = req[x]
      BY <2>1, <3>2 DEF For, Credited
    <3>4. req[r].qty \in Int
      BY <2>1 DEF Shipping
    <3>5. Qty(req', T) = req[r].qty + Qty(req, S)
      <4> HIDE DEF S, T
      <4> QED
        BY <3>2, <3>3, <3>4, <1>4, QtyMore
    <3>6. items'[k].qty = items[k].qty - req[r].qty
      <4>1. items[k] \in ItemRow
        BY <1>0 DEF TypeOK, IsTable
      <4> QED
        BY <2>3, <1>0, <4>1 DEF ItemRow
    <3>7. Qty(req, S) \in Int
      BY <1>4, QtyType
    <3>8. InitItems[k].qty \in Int
      BY <1>0, FulfilmentAssumption DEF OnlyPlacedLines, IsTable, ItemRow
    <3>9. \A a, b, c \in Int : (a - b) - c = a - (c + b)
      OBVIOUS
    <3> HIDE DEF S, T
    <3> QED
      BY <1>2, <3>4, <3>5, <3>6, <3>7, <3>8, <3>9
  <2> QED
    BY <2>2, <2>3
<1>10. CASE UNCHANGED vars
  BY <1>5, <1>10 DEF vars, For
<1>11. CASE Next
  <2> PICK r \in Requests : \/ OpenForm(r) \/ Debit(r) \/ Proceed(r)
                           \/ UpdateOrder(r) \/ DeleteLines(r) \/ StopEarly(r)
    BY <1>11 DEF Next
  <2> QED
    BY <1>6, <1>7, <1>8, <1>9 DEF Proceed
<1> QED
  BY <1>10, <1>11

\* A line of an order that no store edited lacks what the requests that
\* credited it shipped, each of them once.
THEOREM LinesBalance == Spec => []OrderLedger
<1>1. Init => FinitelyMany /\ OnlyPlacedLines
  BY FS_EmptySet DEF Init, FinitelyMany, OnlyPlacedLines
<1>2. Init => OrderLedger
  <2> SUFFICES ASSUME Init, NEW k \in DOMAIN items
               PROVE  items[k].qty = InitItems[k].qty -
                        Shipped(For({items[k].order}, items[k].item, Credited))
    BY DEF OrderLedger, Credited
  <2>1. For({items[k].order}, items[k].item, Credited) = {}
    BY DEF Init, For
  <2>2. Shipped({}) = 0
    <3>1. Shipped({}) = Qty(req, {})
      BY DEF Shipped, Qty
    <3> QED
      BY <3>1, QtyIsSum, SumEmpty
  <2>3. items[k].qty = InitItems[k].qty /\ InitItems[k].qty \in Int
    BY FulfilmentAssumption DEF Init, IsTable, ItemRow
  <2>4. \A n \in Int : n = n - 0
    OBVIOUS
  <2> QED
    BY <2>1, <2>2, <2>3, <2>4
<1> QED
  BY <1>1, <1>2, StepKeepsFinite, StepKeepsPlacedLines, StepKeepsOrderLedger,
     InitTypes, TypeInvariant, PTL DEF Spec
=============================================================================
