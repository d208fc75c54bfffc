-------------------------- MODULE PurchasingProofs --------------------------
(***************************************************************************)
(* Theorems about Purchasing, for any number of clicks, orders and items.  *)
(***************************************************************************)
EXTENDS Purchasing, TableProofs, FiniteSetTheorems

-----------------------------------------------------------------------------
(* The ids of purchase orders.                                             *)

\* Purchase orders are numbered without gaps.
Numbered == \E n \in Nat : DOMAIN purchaseOrders = 1 .. n

\* The newest id, and the next, of orders that are numbered 1 to n.
LEMMA PoFacts ==
  ASSUME NEW n \in Nat, DOMAIN purchaseOrders = 1 .. n
  PROVE  /\ n # 0 => LastPo = n
         /\ NextPo = n + 1
<1>1. CASE n = 0
  <2>1. 1 .. 0 = {}
    OBVIOUS
  <2> QED
    BY <1>1, <2>1 DEF NextPo
<1>2. CASE n # 0
  <2>1. n \in 1 .. n /\ \A y \in 1 .. n : n >= y
    BY <1>2
  <2>2. \A x \in 1 .. n : (\A y \in 1 .. n : x >= y) => x = n
    BY <2>1
  <2>3. LastPo = n
    BY <2>1, <2>2 DEF LastPo, Max
  <2> QED
    BY <2>1, <2>3 DEF NextPo
<1> QED
  BY <1>1, <1>2

\* What PlacePurchase does to the table, in terms of the ids.
LEMMA PlaceFacts ==
  ASSUME Numbered, NEW c, PlacePurchase(c)
  PROVE  /\ NextPo \in Nat \ {0}
         /\ NextPo \notin DOMAIN purchaseOrders
         /\ DOMAIN purchaseOrders' = DOMAIN purchaseOrders \cup {NextPo}
         /\ purchaseOrders'[NextPo] = buy[c].row.order
         /\ \A p \in DOMAIN purchaseOrders : purchaseOrders'[p] = purchaseOrders[p]
         /\ Numbered'
         /\ LastPo' = NextPo
<1>1. PICK n \in Nat : DOMAIN purchaseOrders = 1 .. n
  BY DEF Numbered
<1>2. NextPo = n + 1
  BY <1>1, PoFacts
<1>3. purchaseOrders' = Insert(purchaseOrders, NextPo, buy[c].row.order)
  BY DEF PlacePurchase
<1>4. DOMAIN purchaseOrders' = 1 .. (n + 1)
  BY <1>1, <1>2, <1>3 DEF Insert
<1>5. LastPo' = n + 1
  <2>1. n + 1 \in 1 .. (n + 1) /\ \A y \in 1 .. (n + 1) : n + 1 >= y
    OBVIOUS
  <2>2. \A x \in 1 .. (n + 1) : (\A y \in 1 .. (n + 1) : x >= y) => x = n + 1
    BY <2>1
  <2> QED
    BY <1>4, <2>1, <2>2 DEF LastPo, Max
<1> QED
  BY <1>1, <1>2, <1>3, <1>4, <1>5 DEF Insert, Numbered

\* No other step touches a purchase order.
LEMMA OrdersUntouched ==
  ASSUME [Next]_vars, \A c \in Clicks : ~PlacePurchase(c)
  PROVE  purchaseOrders' = purchaseOrders
BY DEF Next, Proceed, Arrive, ShowPage, WrongBox, InsertLine, FillLine,
       ClearRequests, Stop, vars

\* A purchase order is never changed nor deleted.
LEMMA OrdersPersist ==
  ASSUME Numbered, [Next]_vars
  PROVE  \A p \in DOMAIN purchaseOrders : /\ p \in DOMAIN purchaseOrders'
                                          /\ purchaseOrders'[p] = purchaseOrders[p]
<1>1. CASE \E c \in Clicks : PlacePurchase(c)
  BY <1>1, PlaceFacts
<1>2. CASE \A c \in Clicks : ~PlacePurchase(c)
  BY <1>2, OrdersUntouched
<1> QED
  BY <1>1, <1>2

\* The numbering has no gaps after any step.
LEMMA StepKeepsNumbers == Numbered /\ [Next]_vars => Numbered'
<1> SUFFICES ASSUME Numbered, [Next]_vars PROVE Numbered'
  OBVIOUS
<1>1. CASE \E c \in Clicks : PlacePurchase(c)
  BY <1>1, PlaceFacts
<1>2. CASE \A c \in Clicks : ~PlacePurchase(c)
  BY <1>2, OrdersUntouched DEF Numbered
<1> QED
  BY <1>1, <1>2

-----------------------------------------------------------------------------
(* The purchase order a click has placed.                                  *)

\* A click past the first statement has a purchase order for its row's order.
Placed ==
  \A c \in DOMAIN buy :
    buy[c].at \in Running \cup {"done"} => /\ buy[c].po \in DOMAIN purchaseOrders
                                          /\ purchaseOrders[buy[c].po] = buy[c].row.order

\* While a click runs, MAX(po_id) is not null.
LEMMA NewestExists ==
  ASSUME Numbered, Placed, NEW c \in DOMAIN buy, buy[c].at \in Running
  PROVE  LastPo \in Nat /\ LastPo \in DOMAIN purchaseOrders
<1>1. PICK n \in Nat : DOMAIN purchaseOrders = 1 .. n
  BY DEF Numbered
<1>2. buy[c].po \in 1 .. n
  BY <1>1 DEF Placed
<1>3. n # 0
  BY <1>2
<1> QED
  BY <1>1, <1>3, PoFacts

\* Every step keeps the purchase orders that clicks have placed.
LEMMA StepKeepsPlaced == TypeOK /\ Numbered /\ Placed /\ [Next]_vars => Placed'
<1> SUFFICES ASSUME TypeOK, Numbered, Placed, [Next]_vars PROVE Placed'
  OBVIOUS
<1>1. ASSUME NEW c \in Clicks, PlacePurchase(c) PROVE Placed'
  <2>1. c \in DOMAIN buy /\ buy[c] \in Click
    BY <1>1 DEF PlacePurchase, At, TypeOK, IsTable
  <2>2. DOMAIN buy' = DOMAIN buy
    BY <1>1 DEF PlacePurchase
  <2>3. buy'[c].po = NextPo /\ buy'[c].row = buy[c].row
    BY <1>1, <2>1 DEF PlacePurchase, Click
  <2>4. ASSUME NEW d \in DOMAIN buy, d # c
        PROVE  buy'[d].at = buy[d].at /\ buy'[d].po = buy[d].po /\ buy'[d].row = buy[d].row
    <3>1. buy[d] \in Click
      BY DEF TypeOK, IsTable
    <3>2. buy'[d] = buy[d] \/ buy'[d] = [buy[d] EXCEPT !.alone = FALSE]
      BY <1>1, <2>4 DEF PlacePurchase
    <3> QED
      BY <3>1, <3>2 DEF Click
  <2>5. /\ NextPo \in DOMAIN purchaseOrders'
        /\ purchaseOrders'[NextPo] = buy[c].row.order
        /\ \A p \in DOMAIN purchaseOrders : /\ p \in DOMAIN purchaseOrders'
                                            /\ purchaseOrders'[p] = purchaseOrders[p]
    BY <1>1, PlaceFacts
  <2> QED
    BY <2>2, <2>3, <2>4, <2>5 DEF Placed
<1>2. ASSUME NEW c \in Clicks, NEW label,
             c \in DOMAIN buy, purchaseOrders' = purchaseOrders, Goto(c, label),
             buy[c].at \in Running \/ label \notin Running \cup {"done"}
      PROVE  Placed'
  <2>1. buy' = [buy EXCEPT ![c].at = label] /\ buy[c] \in Click
    BY <1>2 DEF Goto, TypeOK, IsTable
  <2>2. DOMAIN buy' = DOMAIN buy /\ \A d \in DOMAIN buy : d # c => buy'[d] = buy[d]
    BY <2>1
  <2>3. buy'[c].at = label /\ buy'[c].po = buy[c].po /\ buy'[c].row = buy[c].row
    BY <1>2, <2>1 DEF Click
  <2> QED
    BY <1>2, <2>2, <2>3 DEF Placed
<1>3. ASSUME NEW c \in Clicks, ShowPage(c) PROVE Placed'
  <2>1. PICK k \in DOMAIN warehouseOrders :
          buy' = Insert(buy, c, [at |-> "page", row |-> warehouseOrders[k],
                                 po |-> 0, alone |-> TRUE])
    BY <1>3 DEF ShowPage
  <2>2. DOMAIN buy' = DOMAIN buy \cup {c} /\ buy'[c].at = "page"
    BY <2>1 DEF Insert
  <2>3. \A d \in DOMAIN buy : d # c => buy'[d] = buy[d]
    BY <2>1 DEF Insert
  <2> QED
    BY <1>3, <2>2, <2>3 DEF ShowPage, Placed, Running
<1>4. ASSUME NEW c \in Clicks, Proceed(c) \/ WrongBox(c) \/ Stop(c) PROVE Placed'
  <2>1. CASE InsertLine(c)
    BY <1>2, <2>1 DEF InsertLine, At, Running
  <2>2. CASE FillLine(c)
    BY <1>2, <2>2 DEF FillLine, At, Running
  <2>3. CASE ClearRequests(c)
    BY <1>2, <2>3 DEF ClearRequests, At, Running
  <2>4. CASE WrongBox(c)
    BY <1>2, <2>4 DEF WrongBox, At, Running
  <2>5. CASE Stop(c)
    BY <1>2, <2>5 DEF Stop, At, Busy, Running
  <2> QED
    BY <1>4, <2>1, <2>2, <2>3, <2>4, <2>5 DEF Proceed
<1>5. CASE Arrive
  BY <1>5 DEF Arrive, Placed
<1>6. CASE UNCHANGED vars
  BY <1>6 DEF vars, Placed
<1>7. CASE Next
  <2>1. CASE \E c \in Clicks : ShowPage(c) \/ WrongBox(c) \/ PlacePurchase(c)
                               \/ Proceed(c) \/ Stop(c)
    BY <2>1, <1>1, <1>3, <1>4
  <2> QED
    BY <1>5, <1>7, <2>1 DEF Next
<1> QED
  BY <1>6, <1>7

-----------------------------------------------------------------------------
(* The types.                                                              *)

\* Moving on changes a click's label and nothing else.
LEMMA GotoFacts ==
  ASSUME TypeOK, NEW c \in DOMAIN buy, Goto(c, "void") \/ Goto(c, "fill") \/ Goto(c, "clear")
                                       \/ Goto(c, "done") \/ Goto(c, "stopped")
  PROVE  IsTable(buy', Clicks, Click)
<1>1. PICK label \in {"void", "fill", "clear", "done", "stopped"} :
        buy' = [buy EXCEPT ![c].at = label]
  BY DEF Goto
<1>2. buy[c] \in Click
  BY DEF TypeOK, IsTable
<1>3. [buy[c] EXCEPT !.at = label] \in Click
  BY <1>2 DEF Click, Running
<1>4. buy' = [buy EXCEPT ![c] = [buy[c] EXCEPT !.at = label]]
  BY <1>1
<1> QED
  BY <1>3, <1>4, ReplaceIsTable DEF TypeOK

\* Every step keeps the types; InsertLine needs a purchase order to exist.
LEMMA TypeInvariant == TypeOK /\ Numbered /\ Placed /\ [Next]_vars => TypeOK'
<1> SUFFICES ASSUME TypeOK, Numbered, Placed, [Next]_vars PROVE TypeOK'
  OBVIOUS
<1>1. CASE Arrive
  <2>1. PICK row \in WantedRow :
          /\ warehouseOrders' = Insert(warehouseOrders, FreshKey(warehouseOrders, RowIds), row)
          /\ asked' = asked \cup {row.order}
    BY <1>1 DEF Arrive
  <2>2. row.order \in OrderIds
    BY DEF WantedRow
  <2>3. IsTable(warehouseOrders', RowIds, WantedRow)
    BY <1>1, <2>1, FreshKeyFacts, InsertIsTable DEF Arrive, TypeOK
  <2> QED
    BY <1>1, <2>1, <2>2, <2>3 DEF Arrive, TypeOK
<1>2. ASSUME NEW c \in Clicks, ShowPage(c) PROVE TypeOK'
  <2>1. PICK k \in DOMAIN warehouseOrders :
          buy' = Insert(buy, c, [at |-> "page", row |-> warehouseOrders[k],
                                 po |-> 0, alone |-> TRUE])
    BY <1>2 DEF ShowPage
  <2>2. [at |-> "page", row |-> warehouseOrders[k], po |-> 0, alone |-> TRUE] \in Click
    BY DEF TypeOK, IsTable, Click
  <2>3. IsTable(buy', Clicks, Click)
    BY <2>1, <2>2, InsertIsTable DEF TypeOK
  <2> QED
    BY <1>2, <2>3 DEF ShowPage, TypeOK
<1>3. ASSUME NEW c \in Clicks, PlacePurchase(c) PROVE TypeOK'
  <2>1. c \in DOMAIN buy /\ buy[c] \in Click
    BY <1>3 DEF PlacePurchase, At, TypeOK, IsTable
  <2>2. buy[c].row.order \in OrderIds /\ NextPo \in Nat \ {0}
    BY <1>3, <2>1, PlaceFacts DEF Click, WantedRow
  <2>3. IsTable(purchaseOrders', Nat \ {0}, OrderIds)
    BY <1>3, <2>2, InsertIsTable DEF PlacePurchase, TypeOK
  <2> DEFINE others == {d \in DOMAIN buy : Busy(d)}
             moved  == [buy[c] EXCEPT !.at = "line", !.po = NextPo, !.alone = (others = {})]
  <2>4. buy' = [d \in DOMAIN buy |->
                  IF d = c THEN moved
                  ELSE IF d \in others THEN [buy[d] EXCEPT !.alone = FALSE] ELSE buy[d]]
    BY <1>3 DEF PlacePurchase
  <2>5. moved \in Click
    <3>1. ASSUME NEW solo \in BOOLEAN
          PROVE  [buy[c] EXCEPT !.at = "line", !.po = NextPo, !.alone = solo] \in Click
      BY <2>1, <2>2 DEF Click, Running
    <3>2. (others = {}) \in BOOLEAN
      OBVIOUS
    <3> QED
      BY <3>1, <3>2
  <2>6. \A d \in DOMAIN buy : buy[d] \in Click /\ [buy[d] EXCEPT !.alone = FALSE] \in Click
    BY DEF TypeOK, IsTable, Click
  <2>7. IsTable(buy', Clicks, Click)
    BY <2>4, <2>5, <2>6 DEF TypeOK, IsTable
  <2> QED
    BY <1>3, <2>3, <2>7 DEF PlacePurchase, TypeOK
<1>4. ASSUME NEW c \in Clicks, InsertLine(c) PROVE TypeOK'
  <2>1. c \in DOMAIN buy /\ buy[c].at \in Running
    BY <1>4 DEF InsertLine, At, Running
  <2>a. LastPo \in Nat
    BY <2>1, NewestExists
  <2>2. [po |-> NewestPo, item |-> None, qty |-> None] \in LineRow
    BY <2>a DEF NewestPo, LineRow
  <2>3. IsTable(purchaseItems', RowIds, LineRow)
    BY <1>4, <2>2, FreshKeyFacts, InsertIsTable DEF InsertLine, TypeOK
  <2> QED
    BY <1>4, <2>1, <2>3, GotoFacts DEF InsertLine, TypeOK
<1>5. ASSUME NEW c \in Clicks, FillLine(c) PROVE TypeOK'
  <2>1. c \in DOMAIN buy /\ buy[c].row \in WantedRow
    BY <1>5 DEF FillLine, At, TypeOK, IsTable, Click
  <2>2. ASSUME NEW k \in DOMAIN purchaseItems
        PROVE  purchaseItems[k] \in LineRow /\ Filled(purchaseItems[k], buy[c].row) \in LineRow
    <3>1. purchaseItems[k] \in LineRow
      BY DEF TypeOK, IsTable
    <3> QED
      BY <3>1, <2>1 DEF Filled, LineRow, WantedRow
  <2>3. PICK hit : purchaseItems' =
          [k \in DOMAIN purchaseItems |->
             IF k \in hit THEN Filled(purchaseItems[k], buy[c].row) ELSE purchaseItems[k]]
    BY <1>5 DEF FillLine
  <2>4. IsTable(purchaseItems', RowIds, LineRow)
    BY <2>2, <2>3 DEF TypeOK, IsTable
  <2> QED
    BY <1>5, <2>1, <2>4, GotoFacts DEF FillLine, TypeOK
<1>6. ASSUME NEW c \in Clicks, ClearRequests(c) PROVE TypeOK'
  <2>1. IsTable(warehouseOrders', RowIds, WantedRow)
    BY <1>6, DeleteIsTable DEF ClearRequests, TypeOK
  <2> QED
    BY <1>6, <2>1, GotoFacts DEF ClearRequests, At, TypeOK
<1>7. ASSUME NEW c \in Clicks, WrongBox(c) \/ Stop(c) PROVE TypeOK'
  <2>1. c \in DOMAIN buy /\ (Goto(c, "void") \/ Goto(c, "stopped"))
    BY <1>7 DEF WrongBox, Stop, At, Busy
  <2> QED
    BY <1>7, <2>1, GotoFacts DEF WrongBox, Stop, TypeOK
<1>8. CASE UNCHANGED vars
  BY <1>8 DEF vars, TypeOK
<1>9. CASE Next
  <2>1. CASE \E c \in Clicks : ShowPage(c) \/ WrongBox(c) \/ PlacePurchase(c)
                               \/ Proceed(c) \/ Stop(c)
    BY <2>1, <1>2, <1>3, <1>4, <1>5, <1>6, <1>7 DEF Proceed
  <2> QED
    BY <1>1, <1>9, <2>1 DEF Next
<1> QED
  BY <1>8, <1>9

\* The three facts about the tables that every step keeps.
Sound == TypeOK /\ Numbered /\ Placed

\* They hold of empty tables.
LEMMA InitSound == Init => Sound
<1> SUFFICES ASSUME Init PROVE Sound
  OBVIOUS
<1>1. TypeOK
  BY DEF Init, TypeOK, IsTable
<1>2. Numbered
  <2>1. 0 \in Nat /\ 1 .. 0 = {}
    OBVIOUS
  <2> QED
    BY <2>1 DEF Init, Numbered
<1>3. Placed
  BY DEF Init, Placed
<1> QED
  BY <1>1, <1>2, <1>3 DEF Sound

\* Every step keeps them.
LEMMA StepSound == Sound /\ [Next]_vars => Sound'
BY TypeInvariant, StepKeepsNumbers, StepKeepsPlaced DEF Sound

\* Every reachable state has well-typed tables: rows have their columns' types
\* although insertPurchase takes a po_id from MAX, which is NULL on an empty
\* table.
THEOREM TypeCorrect == Spec => []TypeOK
<1>1. Sound => TypeOK
  BY DEF Sound
<1> QED
  BY <1>1, InitSound, StepSound, PTL DEF Spec

-----------------------------------------------------------------------------
(* The requests of the warehouses.                                         *)

\* A step keeps every request, or its order has a purchase order.
LEMMA StepKeepsRequests ==
  Sound /\ NoRequestVanishes /\ [Next]_vars => NoRequestVanishes'
<1> SUFFICES ASSUME Sound, NoRequestVanishes, [Next]_vars PROVE NoRequestVanishes'
  OBVIOUS
<1>1. CASE Arrive
  <2>1. PICK row \in WantedRow :
          /\ warehouseOrders' = Insert(warehouseOrders, FreshKey(warehouseOrders, RowIds), row)
          /\ asked' = asked \cup {row.order}
    BY <1>1 DEF Arrive
  <2> DEFINE k0 == FreshKey(warehouseOrders, RowIds)
  <2>2. k0 \notin DOMAIN warehouseOrders
    BY <1>1, FreshKeyFacts DEF Arrive
  <2>3. k0 \in DOMAIN warehouseOrders' /\ warehouseOrders'[k0] = row
    BY <2>1 DEF Insert
  <2>4. \A k \in DOMAIN warehouseOrders : /\ k \in DOMAIN warehouseOrders'
                                          /\ warehouseOrders'[k] = warehouseOrders[k]
    BY <2>1, <2>2 DEF Insert
  <2>5. purchaseOrders' = purchaseOrders
    BY <1>1 DEF Arrive
  <2> HIDE DEF k0
  <2> QED
    BY <2>1, <2>3, <2>4, <2>5 DEF NoRequestVanishes
<1>2. ASSUME NEW c \in Clicks, PlacePurchase(c) PROVE NoRequestVanishes'
  <2>1. \A p \in DOMAIN purchaseOrders : /\ p \in DOMAIN purchaseOrders'
                                         /\ purchaseOrders'[p] = purchaseOrders[p]
    BY <1>2, PlaceFacts DEF Sound
  <2>2. warehouseOrders' = warehouseOrders /\ asked' = asked
    BY <1>2 DEF PlacePurchase
  <2> QED
    BY <2>1, <2>2 DEF NoRequestVanishes
<1>3. ASSUME NEW c \in Clicks, ClearRequests(c) PROVE NoRequestVanishes'
  <2>1. /\ buy[c].po \in DOMAIN purchaseOrders
        /\ purchaseOrders[buy[c].po] = buy[c].row.order
    BY <1>3 DEF ClearRequests, At, Running, Sound, Placed
  <2>2. \A k \in DOMAIN warehouseOrders :
           warehouseOrders[k].order # buy[c].row.order =>
             /\ k \in DOMAIN warehouseOrders'
             /\ warehouseOrders'[k] = warehouseOrders[k]
    BY <1>3 DEF ClearRequests, Dropped, Delete, Restrict
  <2>3. purchaseOrders' = purchaseOrders /\ asked' = asked
    BY <1>3 DEF ClearRequests
  <2> QED
    BY <2>1, <2>2, <2>3 DEF NoRequestVanishes
<1>4. ASSUME NEW c \in Clicks,
             ShowPage(c) \/ WrongBox(c) \/ InsertLine(c) \/ FillLine(c) \/ Stop(c)
      PROVE  NoRequestVanishes'
  BY <1>4 DEF ShowPage, WrongBox, InsertLine, FillLine, Stop, NoRequestVanishes
<1>5. CASE UNCHANGED vars
  BY <1>5 DEF vars, NoRequestVanishes
<1>6. CASE Next
  <2>1. CASE \E c \in Clicks : ShowPage(c) \/ WrongBox(c) \/ PlacePurchase(c)
                               \/ Proceed(c) \/ Stop(c)
    BY <2>1, <1>2, <1>3, <1>4 DEF Proceed
  <2> QED
    BY <1>1, <1>6, <2>1 DEF Next
<1> QED
  BY <1>5, <1>6

\* No request for goods is dropped from warehouse_order before a purchase order
\* for its order exists, wherever a click stops in insertPurchase and whatever
\* other clicks and warehouses do meanwhile.
THEOREM RequestsAreKept == Spec => []NoRequestVanishes
<1>1. Init => NoRequestVanishes
  BY DEF Init, NoRequestVanishes
<1> QED
  BY <1>1, InitSound, StepSound, StepKeepsRequests, PTL DEF Spec

-----------------------------------------------------------------------------
(* Purchasing implements Procurement.                                      *)

\* Rows of warehouse_order, and the rows that pages still show, are of orders
\* for which a warehouse asked.
RowsAsked ==
  /\ \A k \in DOMAIN warehouseOrders : warehouseOrders[k].order \in asked
  /\ \A c \in DOMAIN buy : buy[c].row.order \in asked

\* Every step keeps them so: a page shows a row that is there when it is made.
LEMMA StepKeepsRows == Sound /\ RowsAsked /\ [Next]_vars => RowsAsked'
<1> SUFFICES ASSUME Sound, RowsAsked, [Next]_vars PROVE RowsAsked'
  OBVIOUS
<1>1. CASE Arrive
  <2>1. PICK row \in WantedRow :
          /\ warehouseOrders' = Insert(warehouseOrders, FreshKey(warehouseOrders, RowIds), row)
          /\ asked' = asked \cup {row.order}
    BY <1>1 DEF Arrive
  <2>2. \A k \in DOMAIN warehouseOrders' :
           warehouseOrders'[k] = row \/ (k \in DOMAIN warehouseOrders
                                         /\ warehouseOrders'[k] = warehouseOrders[k])
    BY <2>1 DEF Insert
  <2>3. buy' = buy
    BY <1>1 DEF Arrive
  <2> QED
    BY <2>1, <2>2, <2>3 DEF RowsAsked
<1>2. ASSUME NEW c \in Clicks, ShowPage(c) PROVE RowsAsked'
  <2>1. PICK k \in DOMAIN warehouseOrders :
          buy' = Insert(buy, c, [at |-> "page", row |-> warehouseOrders[k],
                                 po |-> 0, alone |-> TRUE])
    BY <1>2 DEF ShowPage
  <2>2. /\ DOMAIN buy' = DOMAIN buy \cup {c} /\ buy'[c].row = warehouseOrders[k]
        /\ \A d \in DOMAIN buy : d # c => buy'[d] = buy[d]
    BY <2>1 DEF Insert
  <2> QED
    BY <1>2, <2>2 DEF ShowPage, RowsAsked
<1>3. ASSUME NEW c \in Clicks, PlacePurchase(c) PROVE RowsAsked'
  <2>1. c \in DOMAIN buy /\ DOMAIN buy' = DOMAIN buy
    BY <1>3 DEF PlacePurchase, At
  <2>2. ASSUME NEW d \in DOMAIN buy PROVE buy'[d].row = buy[d].row
    <3>1. buy[d] \in Click
      BY DEF Sound, TypeOK, IsTable
    <3>2. CASE d = c
      <4>1. PICK solo : buy'[c] = [buy[c] EXCEPT !.at = "line", !.po = NextPo, !.alone = solo]
        BY <1>3, <2>1 DEF PlacePurchase
      <4> QED
        BY <3>1, <3>2, <4>1 DEF Click
    <3>3. CASE d # c
      <4>1. buy'[d] = buy[d] \/ buy'[d] = [buy[d] EXCEPT !.alone = FALSE]
        BY <1>3, <3>3 DEF PlacePurchase
      <4> QED
        BY <3>1, <4>1 DEF Click
    <3> QED
      BY <3>2, <3>3
  <2>3. warehouseOrders' = warehouseOrders /\ asked' = asked
    BY <1>3 DEF PlacePurchase
  <2> QED
    BY <2>1, <2>2, <2>3 DEF RowsAsked
<1>4. ASSUME NEW c \in DOMAIN buy, NEW label, Goto(c, label), asked' = asked,
             \A k \in DOMAIN warehouseOrders' :
                k \in DOMAIN warehouseOrders /\ warehouseOrders'[k] = warehouseOrders[k]
      PROVE  RowsAsked'
  <2>1. buy' = [buy EXCEPT ![c].at = label] /\ buy[c] \in Click
    BY <1>4 DEF Goto, Sound, TypeOK, IsTable
  <2>2. /\ DOMAIN buy' = DOMAIN buy /\ buy'[c].row = buy[c].row
        /\ \A d \in DOMAIN buy : d # c => buy'[d] = buy[d]
    BY <2>1 DEF Click
  <2> QED
    BY <1>4, <2>2 DEF RowsAsked
<1>5. ASSUME NEW c \in Clicks, InsertLine(c) \/ FillLine(c) \/ WrongBox(c) \/ Stop(c)
      PROVE  RowsAsked'
  BY <1>4, <1>5 DEF InsertLine, FillLine, WrongBox, Stop, At, Busy
<1>6. ASSUME NEW c \in Clicks, ClearRequests(c) PROVE RowsAsked'
  BY <1>4, <1>6 DEF ClearRequests, At, Delete, Restrict
<1>7. CASE UNCHANGED vars
  BY <1>7 DEF vars, RowsAsked
<1>8. CASE Next
  <2>1. CASE \E c \in Clicks : ShowPage(c) \/ WrongBox(c) \/ PlacePurchase(c)
                               \/ Proceed(c) \/ Stop(c)
    BY <2>1, <1>2, <1>3, <1>5, <1>6 DEF Proceed
  <2> QED
    BY <1>1, <1>8, <2>1 DEF Next
<1> QED
  BY <1>7, <1>8

\* What Procurement calls wanted and bought, by the names its instance has here.
Asking == {warehouseOrders[k].order : k \in DOMAIN warehouseOrders}
Counts == [o \in OrderIds |-> Cardinality(Bought(o))]

\* An order has finitely many purchase orders, and is bought for if it has one.
LEMMA BoughtFacts ==
  ASSUME Numbered, NEW o
  PROVE  /\ IsFiniteSet(Bought(o))
         /\ Cardinality(Bought(o)) \in Nat
         /\ Bought(o) # {} => Cardinality(Bought(o)) > 0
<1>1. PICK n \in Nat : DOMAIN purchaseOrders = 1 .. n
  BY DEF Numbered
<1>2. IsFiniteSet(1 .. n)
  BY FS_Interval
<1>3. IsFiniteSet(Bought(o))
  BY <1>1, <1>2, FS_Subset DEF Bought
<1> QED
  BY <1>3, FS_CardinalityType, FS_EmptySet

\* Every step is one that Procurement allows, or it does not notice it.
LEMMA StepFollowsProcurement ==
  ASSUME Sound, RowsAsked, NoRequestVanishes, [Next]_vars
  PROVE  Contract!Next \/ (Asking' = Asking /\ Counts' = Counts)
<1>a. ASSUME purchaseOrders' = purchaseOrders PROVE Counts' = Counts
  BY <1>a DEF Counts, Bought
<1>1. CASE Arrive
  <2>1. PICK row \in WantedRow :
          warehouseOrders' = Insert(warehouseOrders, FreshKey(warehouseOrders, RowIds), row)
    BY <1>1 DEF Arrive
  <2>2. row.order \in OrderIds
    BY DEF WantedRow
  <2> DEFINE k0 == FreshKey(warehouseOrders, RowIds)
  <2>3. k0 \notin DOMAIN warehouseOrders
    BY <1>1, FreshKeyFacts DEF Arrive
  <2>4. /\ DOMAIN warehouseOrders' = DOMAIN warehouseOrders \cup {k0}
        /\ warehouseOrders'[k0] = row
        /\ \A k \in DOMAIN warehouseOrders : warehouseOrders'[k] = warehouseOrders[k]
    BY <2>1, <2>3 DEF Insert
  <2> HIDE DEF k0
  <2>5. Asking' = Asking \cup {row.order}
    BY <2>4 DEF Asking
  <2>6. Counts' = Counts
    BY <1>1, <1>a DEF Arrive
  <2> QED
    BY <2>2, <2>5, <2>6 DEF Asking, Counts, Contract!Next, Contract!Ask
<1>2. ASSUME NEW c \in Clicks, PlacePurchase(c) PROVE Contract!Next
  <2> PICK o : o = buy[c].row.order
    OBVIOUS
  <2>1. c \in DOMAIN buy /\ buy[c] \in Click
    BY <1>2 DEF PlacePurchase, At, Sound, TypeOK, IsTable
  <2>2. o \in OrderIds /\ o \in asked
    BY <2>1 DEF Click, WantedRow, RowsAsked
  <2>3. /\ NextPo \notin DOMAIN purchaseOrders
        /\ DOMAIN purchaseOrders' = DOMAIN purchaseOrders \cup {NextPo}
        /\ purchaseOrders'[NextPo] = o
        /\ \A p \in DOMAIN purchaseOrders : purchaseOrders'[p] = purchaseOrders[p]
    BY <1>2, PlaceFacts DEF Sound
  <2>4. Bought(o)' = Bought(o) \cup {NextPo} /\ NextPo \notin Bought(o)
    BY <2>3 DEF Bought
  <2>5. \A p \in OrderIds : p # o => Bought(p)' = Bought(p)
    BY <2>3 DEF Bought
  <2>6. Cardinality(Bought(o))' = Cardinality(Bought(o)) + 1
    BY <2>4, BoughtFacts, FS_AddElement DEF Sound
  <2>7. o \in Asking \/ Counts[o] > 0
    <3>1. o \in Asking \/ Bought(o) # {}
      BY <2>2 DEF NoRequestVanishes, Asking, Bought
    <3> QED
      BY <2>2, <3>1, BoughtFacts DEF Sound, Counts
  <2>8. Counts' = [Counts EXCEPT ![o] = @ + 1]
    BY <2>2, <2>5, <2>6 DEF Counts
  <2>9. Asking' = Asking
    BY <1>2 DEF PlacePurchase, Asking
  <2> QED
    BY <2>2, <2>7, <2>8, <2>9 DEF Asking, Counts, Contract!Next, Contract!Buy
<1>3. ASSUME NEW c \in Clicks, ClearRequests(c) PROVE Contract!Next
  <2> PICK o : o = buy[c].row.order
    OBVIOUS
  <2>1. /\ c \in DOMAIN buy /\ buy[c] \in Click
        /\ buy[c].po \in DOMAIN purchaseOrders /\ purchaseOrders[buy[c].po] = o
    BY <1>3 DEF ClearRequests, At, Running, Sound, TypeOK, IsTable, Placed
  <2>2. o \in OrderIds
    BY <2>1 DEF Click, WantedRow
  <2>3. Counts[o] > 0
    BY <2>1, <2>2, BoughtFacts DEF Sound, Counts, Bought
  <2>4. Asking' = Asking \ {o}
    BY <1>3 DEF ClearRequests, Dropped, Delete, Restrict, Asking
  <2>5. Counts' = Counts
    BY <1>3, <1>a DEF ClearRequests
  <2> QED
    BY <2>2, <2>3, <2>4, <2>5 DEF Asking, Counts, Contract!Next, Contract!Settle
<1>4. ASSUME NEW c \in Clicks,
             ShowPage(c) \/ WrongBox(c) \/ InsertLine(c) \/ FillLine(c) \/ Stop(c)
      PROVE  Asking' = Asking /\ Counts' = Counts
  <2>1. purchaseOrders' = purchaseOrders /\ warehouseOrders' = warehouseOrders
    BY <1>4 DEF ShowPage, WrongBox, InsertLine, FillLine, Stop
  <2> QED
    BY <2>1, <1>a DEF Asking
<1>5. CASE UNCHANGED vars
  BY <1>5, <1>a DEF vars, Asking
<1>6. CASE Next
  <2>1. CASE \E c \in Clicks : ShowPage(c) \/ WrongBox(c) \/ PlacePurchase(c)
                               \/ Proceed(c) \/ Stop(c)
    BY <2>1, <1>2, <1>3, <1>4 DEF Proceed
  <2> QED
    BY <1>1, <1>6, <2>1 DEF Next
<1> QED
  BY <1>5, <1>6

\* insertPurchase, overlapped, posted twice and stopped anywhere, implements
\* Procurement: it may buy again, but only for an order that is asked for or
\* was bought for, and it settles none before it is bought for.
THEOREM ImplementsProcurement == Spec => FollowsProcurement
<1>1. Init => RowsAsked /\ NoRequestVanishes
  BY DEF Init, RowsAsked, NoRequestVanishes
<1>2. Init => Contract!Init
  <2> SUFFICES ASSUME Init PROVE Asking = {} /\ Counts = [o \in OrderIds |-> 0]
    BY DEF Contract!Init, Asking, Counts
  <2>1. \A o \in OrderIds : Bought(o) = {}
    BY DEF Init, Bought
  <2> QED
    BY <2>1, FS_EmptySet DEF Init, Asking, Counts
<1>3. Sound /\ RowsAsked /\ NoRequestVanishes /\ [Next]_vars
        => [Contract!Next]_<<Asking, Counts>>
  BY StepFollowsProcurement
<1> QED
  BY <1>1, <1>2, <1>3, InitSound, StepSound, StepKeepsRows, StepKeepsRequests, PTL
     DEF Spec, FollowsProcurement, Contract!Spec, Asking, Counts

-----------------------------------------------------------------------------
(* What a click that ran alone has bought.                                 *)

\* Lines are of purchase orders that exist, and so are the ids of clicks.
IdsExist ==
  /\ \A k \in DOMAIN purchaseItems : purchaseItems[k].po \in DOMAIN purchaseOrders
  /\ \A c \in DOMAIN buy : buy[c].po = 0 \/ buy[c].po \in DOMAIN purchaseOrders

\* No click that runs was placed before or beside one that ran alone.
Ahead ==
  \A c, d \in DOMAIN buy :
    c # d /\ buy[c].alone /\ buy[c].po # 0 /\ Busy(d) => /\ ~Busy(c)
                                                         /\ buy[d].po > buy[c].po

\* A click that runs alone has the newest purchase order.
AloneIsNewest == \A c \in DOMAIN buy : Busy(c) /\ buy[c].alone => buy[c].po = LastPo

\* How far a click that ran alone has got with its line.
Bare(c)    == LinesOfPo(buy[c].po) = {}
OneLine(c) == \E k : LinesOfPo(buy[c].po) = {k}
Matched(c) == \A k \in LinesOfPo(buy[c].po) : /\ purchaseItems[k].item = buy[c].row.item
                                              /\ purchaseItems[k].qty = buy[c].row.qty
AloneLines ==
  \A c \in DOMAIN buy : buy[c].alone =>
    /\ buy[c].at = "line" => Bare(c)
    /\ buy[c].at \in {"fill", "clear", "done"} => OneLine(c)
    /\ buy[c].at \in {"clear", "done"} => Matched(c)

\* The newest purchase order has a line once its click has inserted one, with
\* an item once its click has filled it in.
NewestLine ==
  \A c \in DOMAIN buy :
    buy[c].at = "fill" /\ buy[c].po = LastPo => LinesOfPo(LastPo) # {}

\* Moving on changes a click's label, and no other click.
LEMMA GotoMoves ==
  ASSUME TypeOK, NEW c \in DOMAIN buy, NEW label, Goto(c, label)
  PROVE  /\ DOMAIN buy' = DOMAIN buy
         /\ buy'[c].at = label /\ buy'[c].po = buy[c].po
         /\ buy'[c].row = buy[c].row /\ buy'[c].alone = buy[c].alone
         /\ \A d \in DOMAIN buy : d # c => buy'[d] = buy[d]
BY DEF TypeOK, IsTable, Click, Goto

\* Placing makes the clicks that run no longer alone, nor itself if any does.
LEMMA PlaceMoves ==
  ASSUME TypeOK, NEW c, PlacePurchase(c)
  PROVE  /\ c \in DOMAIN buy /\ DOMAIN buy' = DOMAIN buy /\ buy[c].at = "page"
         /\ buy'[c].at = "line" /\ buy'[c].po = NextPo /\ buy'[c].row = buy[c].row
         /\ buy'[c].alone => \A d \in DOMAIN buy : ~Busy(d)
         /\ \A d \in DOMAIN buy : d # c =>
              /\ buy'[d].at = buy[d].at /\ buy'[d].po = buy[d].po /\ buy'[d].row = buy[d].row
              /\ buy'[d].alone => buy[d].alone /\ ~Busy(d)
<1> DEFINE others == {d \in DOMAIN buy : Busy(d)}
<1>1. /\ c \in DOMAIN buy /\ buy[c].at = "page" /\ buy[c] \in Click
      /\ buy' = [d \in DOMAIN buy |->
              IF d = c THEN [buy[c] EXCEPT !.at = "line", !.po = NextPo,
                                           !.alone = (others = {})]
              ELSE IF d \in others THEN [buy[d] EXCEPT !.alone = FALSE]
              ELSE buy[d]]
  BY DEF PlacePurchase, At, TypeOK, IsTable
<1>2. /\ buy'[c].at = "line" /\ buy'[c].po = NextPo /\ buy'[c].row = buy[c].row
      /\ buy'[c].alone = (others = {})
  BY <1>1 DEF Click
<1>3. ASSUME NEW d \in DOMAIN buy, d # c
      PROVE  /\ buy'[d].at = buy[d].at /\ buy'[d].po = buy[d].po /\ buy'[d].row = buy[d].row
             /\ buy'[d].alone => buy[d].alone /\ ~Busy(d)
  <2>1. buy[d] \in Click
    BY DEF TypeOK, IsTable
  <2>2. CASE d \in others
    <3>1. buy'[d] = [buy[d] EXCEPT !.alone = FALSE]
      BY <1>1, <1>3, <2>2
    <3> QED
      BY <2>1, <3>1 DEF Click
  <2>3. CASE d \notin others
    BY <1>1, <1>3, <2>3
  <2> QED
    BY <2>2, <2>3
<1>4. buy'[c].alone => \A d \in DOMAIN buy : ~Busy(d)
  BY <1>2
<1> HIDE DEF others
<1> QED
  BY <1>1, <1>2, <1>3, <1>4

\* No purchase order is newer than the newest.
LEMMA NewestIsLast ==
  ASSUME Numbered, NEW p \in DOMAIN purchaseOrders
  PROVE  LastPo \in Nat /\ p \in Nat /\ p <= LastPo
<1>1. PICK n \in Nat : DOMAIN purchaseOrders = 1 .. n
  BY DEF Numbered
<1> QED
  BY <1>1, PoFacts

\* The next is newer than all.
LEMMA NextIsNewer ==
  ASSUME Numbered
  PROVE  /\ NextPo \in Nat \ {0} /\ NextPo \notin DOMAIN purchaseOrders
         /\ \A p \in DOMAIN purchaseOrders : p \in Nat /\ p < NextPo
<1>1. PICK n \in Nat : DOMAIN purchaseOrders = 1 .. n
  BY DEF Numbered
<1> QED
  BY <1>1, PoFacts

\* How the steps of a running click change the lines.
LEMMA InsertLineFacts ==
  ASSUME NEW c, InsertLine(c)
  PROVE  \E k : /\ k \notin DOMAIN purchaseItems
                /\ DOMAIN purchaseItems' = DOMAIN purchaseItems \cup {k}
                /\ purchaseItems'[k].po = LastPo /\ purchaseItems'[k].item = None
                /\ \A j \in DOMAIN purchaseItems : purchaseItems'[j] = purchaseItems[j]
<1>1. FreshKey(purchaseItems, RowIds) \notin DOMAIN purchaseItems
  BY FreshKeyFacts DEF InsertLine
<1>2. purchaseItems' = Insert(purchaseItems, FreshKey(purchaseItems, RowIds),
                             [po |-> LastPo, item |-> None, qty |-> None])
  BY DEF InsertLine, NewestPo
<1> HIDE DEF FreshKey
<1> QED
  BY <1>1, <1>2 DEF Insert

\* The third statement fills the lines of the newest purchase order, whoever's it is.
LEMMA FillLineFacts ==
  ASSUME TypeOK, NEW c, FillLine(c)
  PROVE  /\ DOMAIN purchaseItems' = DOMAIN purchaseItems
         /\ \A k \in DOMAIN purchaseItems :
              /\ purchaseItems'[k].po = purchaseItems[k].po
              /\ purchaseItems[k].po # LastPo => purchaseItems'[k] = purchaseItems[k]
              /\ purchaseItems[k].po = LastPo =>
                   /\ purchaseItems'[k].item = buy[c].row.item
                   /\ purchaseItems'[k].qty = buy[c].row.qty
<1>1. ASSUME NEW k \in DOMAIN purchaseItems
      PROVE  /\ purchaseItems'[k].po = purchaseItems[k].po
             /\ purchaseItems[k].po # LastPo => purchaseItems'[k] = purchaseItems[k]
             /\ purchaseItems[k].po = LastPo =>
                  /\ purchaseItems'[k].item = buy[c].row.item
                  /\ purchaseItems'[k].qty = buy[c].row.qty
  <2>1. purchaseItems[k] \in LineRow
    BY DEF TypeOK, IsTable
  <2>2. purchaseItems'[k] = IF purchaseItems[k].po = LastPo
                              THEN Filled(purchaseItems[k], buy[c].row)
                              ELSE purchaseItems[k]
    BY DEF FillLine, NewestLines, NewestPo
  <2> QED
    BY <2>1, <2>2 DEF Filled, LineRow
<1> QED
  BY <1>1 DEF FillLine

\* Every step keeps the ids.
LEMMA StepKeepsIds == Sound /\ IdsExist /\ [Next]_vars => IdsExist'
<1> SUFFICES ASSUME TypeOK, Numbered, Placed, IdsExist, [Next]_vars PROVE IdsExist'
  BY DEF Sound
<1>1. CASE Arrive
  BY <1>1 DEF Arrive, IdsExist
<1>2. ASSUME NEW c \in Clicks, ShowPage(c) PROVE IdsExist'
  <2>1. PICK k \in DOMAIN warehouseOrders :
          buy' = Insert(buy, c, [at |-> "page", row |-> warehouseOrders[k],
                                 po |-> 0, alone |-> TRUE])
    BY <1>2 DEF ShowPage
  <2>2. /\ DOMAIN buy' = DOMAIN buy \cup {c} /\ buy'[c].po = 0
        /\ \A d \in DOMAIN buy : d # c => buy'[d] = buy[d]
    BY <2>1 DEF Insert
  <2> QED
    BY <1>2, <2>2 DEF ShowPage, IdsExist
<1>3. ASSUME NEW c \in Clicks, PlacePurchase(c) PROVE IdsExist'
  <2>1. purchaseItems' = purchaseItems
    BY <1>3 DEF PlacePurchase
  <2>2. DOMAIN purchaseOrders' = DOMAIN purchaseOrders \cup {NextPo}
    BY <1>3, PlaceFacts
  <2> QED
    BY <1>3, <2>1, <2>2, PlaceMoves DEF IdsExist
<1>4. ASSUME NEW c \in Clicks, InsertLine(c) PROVE IdsExist'
  <2>1. c \in DOMAIN buy /\ buy[c].at \in Running /\ Goto(c, "fill")
        /\ purchaseOrders' = purchaseOrders
    BY <1>4 DEF InsertLine, At, Running
  <2>2. LastPo \in DOMAIN purchaseOrders
    BY <2>1, NewestExists
  <2>3. \A k \in DOMAIN purchaseItems' : purchaseItems'[k].po \in DOMAIN purchaseOrders
    BY <1>4, <2>2, InsertLineFacts DEF IdsExist
  <2> QED
    BY <2>1, <2>3, GotoMoves DEF IdsExist
<1>5. ASSUME NEW c \in Clicks, FillLine(c) PROVE IdsExist'
  <2>1. c \in DOMAIN buy /\ Goto(c, "clear") /\ purchaseOrders' = purchaseOrders
    BY <1>5 DEF FillLine, At
  <2> QED
    BY <1>5, <2>1, GotoMoves, FillLineFacts DEF IdsExist
<1>6. ASSUME NEW c \in Clicks, ClearRequests(c) \/ WrongBox(c) \/ Stop(c) PROVE IdsExist'
  <2>1. PICK label : /\ c \in DOMAIN buy /\ Goto(c, label)
                     /\ purchaseOrders' = purchaseOrders /\ purchaseItems' = purchaseItems
    BY <1>6 DEF ClearRequests, WrongBox, Stop, At, Busy
  <2> QED
    BY <2>1, GotoMoves DEF IdsExist
<1>7. CASE UNCHANGED vars
  BY <1>7 DEF vars, IdsExist
<1> QED
  BY <1>1, <1>2, <1>3, <1>4, <1>5, <1>6, <1>7 DEF Next, Proceed

\* Every step keeps the order of the clicks: the one that is placed is behind
\* all others, and none that runs beside it is alone.
LEMMA StepKeepsAhead ==
  Sound /\ IdsExist /\ Ahead /\ AloneIsNewest /\ [Next]_vars => Ahead' /\ AloneIsNewest'
<1> SUFFICES ASSUME TypeOK, Numbered, Placed, IdsExist, Ahead, AloneIsNewest, [Next]_vars
             PROVE  Ahead' /\ AloneIsNewest'
  BY DEF Sound
<1>1. ASSUME NEW c \in Clicks, ShowPage(c) PROVE Ahead' /\ AloneIsNewest'
  <2>1. PICK k \in DOMAIN warehouseOrders :
          buy' = Insert(buy, c, [at |-> "page", row |-> warehouseOrders[k],
                                 po |-> 0, alone |-> TRUE])
    BY <1>1 DEF ShowPage
  <2>2. /\ DOMAIN buy' = DOMAIN buy \cup {c} /\ buy'[c].po = 0 /\ buy'[c].at = "page"
        /\ \A d \in DOMAIN buy : d # c => buy'[d] = buy[d]
        /\ purchaseOrders' = purchaseOrders
    BY <1>1, <2>1 DEF Insert, ShowPage
  <2> QED
    BY <1>1, <2>2 DEF ShowPage, Ahead, AloneIsNewest, Busy, Running, LastPo
<1>2. ASSUME NEW c \in Clicks, PlacePurchase(c) PROVE Ahead' /\ AloneIsNewest'
  <2>1. LastPo' = NextPo
    BY <1>2, PlaceFacts
  <2>2. \A d \in DOMAIN buy : d # c => (Busy(d)' <=> Busy(d))
    BY <1>2, PlaceMoves DEF Busy
  <2>3. Busy(c)' /\ ~Busy(c)
    BY <1>2, PlaceMoves DEF Busy, Running
  <2>4. Ahead'
    <3> SUFFICES ASSUME NEW d \in DOMAIN buy, NEW e \in DOMAIN buy, d # e,
                        buy'[d].alone, buy'[d].po # 0, Busy(e)'
                 PROVE  ~Busy(d)' /\ buy'[e].po > buy'[d].po
      BY <1>2, PlaceMoves DEF Ahead
    <3>1. CASE d = c
      BY <1>2, <2>2, <3>1, PlaceMoves
    <3>2. CASE d # c /\ e = c
      <4>1. buy[d].po \in DOMAIN purchaseOrders /\ ~Busy(d)' /\ buy'[d].po = buy[d].po
        BY <1>2, <2>2, <3>2, PlaceMoves DEF IdsExist
      <4> QED
        BY <1>2, <3>2, <4>1, PlaceMoves, NextIsNewer
    <3>3. CASE d # c /\ e # c
      BY <1>2, <2>2, <3>3, PlaceMoves DEF Ahead
    <3> QED
      BY <3>1, <3>2, <3>3
  <2>5. AloneIsNewest'
    BY <1>2, <2>1, <2>2, PlaceMoves DEF AloneIsNewest
  <2> QED
    BY <2>4, <2>5
<1>3. ASSUME NEW c \in DOMAIN buy, NEW label, Goto(c, label), purchaseOrders' = purchaseOrders,
             label \in Running => Busy(c)
      PROVE  Ahead' /\ AloneIsNewest'
  <2>1. LastPo' = LastPo
    BY <1>3 DEF LastPo
  <2>2. \A d \in DOMAIN buy : Busy(d)' => Busy(d)
    BY <1>3, GotoMoves DEF Busy
  <2>3. /\ DOMAIN buy' = DOMAIN buy
        /\ \A d \in DOMAIN buy : buy'[d].po = buy[d].po /\ buy'[d].alone = buy[d].alone
    BY <1>3, GotoMoves
  <2> QED
    BY <2>1, <2>2, <2>3 DEF Ahead, AloneIsNewest, Busy
<1>4. ASSUME NEW c \in Clicks, Proceed(c) \/ WrongBox(c) \/ Stop(c)
      PROVE  Ahead' /\ AloneIsNewest'
  <2>1. /\ c \in DOMAIN buy /\ purchaseOrders' = purchaseOrders
        /\ \E label : Goto(c, label) /\ (label \in Running => Busy(c))
    BY <1>4 DEF Proceed, InsertLine, FillLine, ClearRequests, WrongBox, Stop, At, Busy, Running
  <2> QED
    BY <1>3, <2>1
<1>5. CASE Arrive \/ UNCHANGED vars
  BY <1>5 DEF Arrive, vars, Ahead, AloneIsNewest, Busy, LastPo
<1> QED
  BY <1>1, <1>2, <1>4, <1>5 DEF Next

\* A click that ran alone, and another that runs: the other's purchase order is
\* newer, so the newest is not the first click's.
LEMMA NotMine ==
  ASSUME Sound, IdsExist, Ahead, NEW c \in DOMAIN buy, NEW d \in DOMAIN buy, c # d,
         buy[c].alone, buy[c].at \in Running \cup {"done"}, Busy(d)
  PROVE  ~Busy(c) /\ buy[c].po # LastPo
<1>1. buy[c].po \in DOMAIN purchaseOrders /\ buy[d].po \in DOMAIN purchaseOrders
  BY DEF Sound, Placed, Busy
<1>2. buy[c].po # 0
  BY <1>1 DEF Sound, TypeOK, IsTable
<1>3. ~Busy(c) /\ buy[d].po > buy[c].po
  BY <1>2 DEF Ahead
<1> QED
  BY <1>1, <1>3, NewestIsLast DEF Sound

\* A click keeps what it has bought if its lines stay as they are.
LEMMA SameLines ==
  ASSUME NEW d, buy'[d].po = buy[d].po, buy'[d].row = buy[d].row,
         \A k : k \in DOMAIN purchaseItems' /\ purchaseItems'[k].po = buy[d].po
                  <=> k \in DOMAIN purchaseItems /\ purchaseItems[k].po = buy[d].po
  PROVE  /\ Bare(d) => Bare(d)'
         /\ OneLine(d) => OneLine(d)'
         /\ (\A k \in LinesOfPo(buy[d].po) : purchaseItems'[k] = purchaseItems[k])
              => (Matched(d) => Matched(d)')
<1>1. LinesOfPo(buy[d].po)' = LinesOfPo(buy[d].po)
  BY DEF LinesOfPo
<1>2. Bare(d)' <=> LinesOfPo(buy[d].po) = {}
  BY <1>1 DEF Bare
<1>3. OneLine(d)' <=> \E k : LinesOfPo(buy[d].po) = {k}
  BY <1>1 DEF OneLine
<1>4. Matched(d)' <=> \A k \in LinesOfPo(buy[d].po) :
                         /\ purchaseItems'[k].item = buy[d].row.item
                         /\ purchaseItems'[k].qty = buy[d].row.qty
  BY <1>1 DEF Matched
<1> QED
  BY <1>2, <1>3, <1>4 DEF Bare, OneLine, Matched

\* Every step keeps what clicks that ran alone have bought.
LEMMA StepKeepsAloneLines ==
  Sound /\ IdsExist /\ Ahead /\ AloneIsNewest /\ AloneLines /\ [Next]_vars => AloneLines'
<1> SUFFICES ASSUME Sound, IdsExist, Ahead, AloneIsNewest, AloneLines, [Next]_vars
             PROVE  AloneLines'
  OBVIOUS
<1>t. TypeOK /\ Numbered /\ Placed
  BY DEF Sound
<1>1. ASSUME NEW c \in Clicks, ShowPage(c) PROVE AloneLines'
  <2>1. PICK k \in DOMAIN warehouseOrders :
          buy' = Insert(buy, c, [at |-> "page", row |-> warehouseOrders[k],
                                 po |-> 0, alone |-> TRUE])
    BY <1>1 DEF ShowPage
  <2>2. /\ DOMAIN buy' = DOMAIN buy \cup {c} /\ buy'[c].at = "page"
        /\ \A d \in DOMAIN buy : d # c => buy'[d] = buy[d]
        /\ purchaseItems' = purchaseItems
    BY <1>1, <2>1 DEF Insert, ShowPage
  <2>3. \A d \in DOMAIN buy : d # c => /\ Bare(d) => Bare(d)'
                                       /\ OneLine(d) => OneLine(d)'
                                       /\ Matched(d) => Matched(d)'
    BY <2>2, SameLines
  <2> QED
    BY <1>1, <2>2, <2>3 DEF ShowPage, AloneLines
<1>2. ASSUME NEW c \in Clicks, PlacePurchase(c) PROVE AloneLines'
  <2>1. purchaseItems' = purchaseItems
    BY <1>2 DEF PlacePurchase
  <2>2. Bare(c)'
    BY <1>t, <1>2, <2>1, PlaceMoves, NextIsNewer DEF Bare, LinesOfPo, IdsExist
  <2>3. \A d \in DOMAIN buy : d # c => /\ Bare(d) => Bare(d)'
                                       /\ OneLine(d) => OneLine(d)'
                                       /\ Matched(d) => Matched(d)'
    BY <1>t, <1>2, <2>1, PlaceMoves, SameLines
  <2> QED
    BY <1>t, <1>2, <2>2, <2>3, PlaceMoves DEF AloneLines
<1>3. ASSUME NEW c \in Clicks, InsertLine(c) PROVE AloneLines'
  <2>1. c \in DOMAIN buy /\ buy[c].at = "line" /\ Goto(c, "fill") /\ Busy(c)
    BY <1>3 DEF InsertLine, At, Busy, Running
  <2>2. PICK k : /\ k \notin DOMAIN purchaseItems
                 /\ DOMAIN purchaseItems' = DOMAIN purchaseItems \cup {k}
                 /\ purchaseItems'[k].po = LastPo
                 /\ \A j \in DOMAIN purchaseItems : purchaseItems'[j] = purchaseItems[j]
    BY <1>3, InsertLineFacts
  <2>3. ASSUME NEW d \in DOMAIN buy, d # c, buy[d].alone, buy[d].at \in Running \cup {"done"}
        PROVE  /\ Bare(d) => Bare(d)'
               /\ OneLine(d) => OneLine(d)'
               /\ Matched(d) => Matched(d)'
    <3>1. buy[d].po # LastPo /\ buy'[d] = buy[d]
      BY <1>t, <2>1, <2>3, NotMine, GotoMoves
    <3>2. \A j : j \in DOMAIN purchaseItems' /\ purchaseItems'[j].po = buy[d].po
                   <=> j \in DOMAIN purchaseItems /\ purchaseItems[j].po = buy[d].po
      BY <2>2, <3>1
    <3>3. \A j \in LinesOfPo(buy[d].po) : purchaseItems'[j] = purchaseItems[j]
      BY <2>2 DEF LinesOfPo
    <3> QED
      BY <3>1, <3>2, <3>3, SameLines
  <2>4. buy[c].alone => OneLine(c)'
    <3> SUFFICES ASSUME buy[c].alone PROVE OneLine(c)'
      OBVIOUS
    <3>1. buy[c].po = LastPo /\ LinesOfPo(buy[c].po) = {} /\ buy'[c].po = buy[c].po
      BY <1>t, <2>1, GotoMoves DEF AloneIsNewest, AloneLines, Bare
    <3>2. LinesOfPo(buy[c].po)' = {k}
      BY <2>2, <3>1 DEF LinesOfPo
    <3> QED
      BY <3>2 DEF OneLine
  <2>6. ASSUME NEW d \in DOMAIN buy', buy'[d].alone
        PROVE  /\ buy'[d].at = "line" => Bare(d)'
               /\ buy'[d].at \in {"fill", "clear", "done"} => OneLine(d)'
               /\ buy'[d].at \in {"clear", "done"} => Matched(d)'
    <3>1. CASE d = c
      BY <1>t, <2>1, <2>4, <2>6, <3>1, GotoMoves
    <3>2. CASE d # c
      BY <1>t, <2>1, <2>3, <2>6, <3>2, GotoMoves DEF AloneLines, Running
    <3> QED
      BY <3>1, <3>2
  <2> QED
    BY <2>6 DEF AloneLines
<1>4. ASSUME NEW c \in Clicks, FillLine(c) PROVE AloneLines'
  <2>1. c \in DOMAIN buy /\ buy[c].at = "fill" /\ Goto(c, "clear") /\ Busy(c)
    BY <1>4 DEF FillLine, At, Busy, Running
  <2>2. \A p : LinesOfPo(p)' = LinesOfPo(p)
    BY <1>t, <1>4, FillLineFacts DEF LinesOfPo
  <2>3. ASSUME NEW d \in DOMAIN buy, d # c, buy[d].alone, buy[d].at \in Running \cup {"done"},
               Matched(d)
        PROVE  Matched(d)'
    <3>1. buy[d].po # LastPo /\ buy'[d] = buy[d]
      BY <1>t, <2>1, <2>3, NotMine, GotoMoves
    <3>2. \A k \in LinesOfPo(buy[d].po) : purchaseItems'[k] = purchaseItems[k]
      BY <1>t, <1>4, <3>1, FillLineFacts DEF LinesOfPo
    <3>3. \A k \in LinesOfPo(buy[d].po)' : /\ purchaseItems'[k].item = buy'[d].row.item
                                           /\ purchaseItems'[k].qty = buy'[d].row.qty
      BY <2>2, <2>3, <3>1, <3>2 DEF Matched
    <3> QED
      BY <3>1, <3>3 DEF Matched, LinesOfPo
  <2>4. buy[c].alone => Matched(c)'
    <3> SUFFICES ASSUME buy[c].alone PROVE Matched(c)'
      OBVIOUS
    <3>1. buy[c].po = LastPo /\ buy'[c].po = buy[c].po /\ buy'[c].row = buy[c].row
      BY <1>t, <2>1, GotoMoves DEF AloneIsNewest
    <3>2. \A k \in LinesOfPo(LastPo) : /\ purchaseItems'[k].item = buy[c].row.item
                                       /\ purchaseItems'[k].qty = buy[c].row.qty
      BY <1>t, <1>4, FillLineFacts DEF LinesOfPo
    <3>3. \A k \in DOMAIN purchaseItems' : purchaseItems'[k].po = buy'[c].po => k \in LinesOfPo(LastPo)
      BY <1>t, <1>4, <3>1, FillLineFacts DEF LinesOfPo
    <3> QED
      BY <3>1, <3>2, <3>3 DEF Matched, LinesOfPo
  <2>5. \A d \in DOMAIN buy : (Bare(d) => Bare(d)') /\ (OneLine(d) => OneLine(d)')
    <3>1. \A d \in DOMAIN buy : buy'[d].po = buy[d].po /\ buy'[d].row = buy[d].row
      BY <1>t, <2>1, GotoMoves
    <3>2. \A p, k : k \in DOMAIN purchaseItems' /\ purchaseItems'[k].po = p
                      <=> k \in DOMAIN purchaseItems /\ purchaseItems[k].po = p
      BY <1>t, <1>4, FillLineFacts
    <3> QED
      BY <3>1, <3>2, SameLines
  <2>6. ASSUME NEW d \in DOMAIN buy', buy'[d].alone
        PROVE  /\ buy'[d].at = "line" => Bare(d)'
               /\ buy'[d].at \in {"fill", "clear", "done"} => OneLine(d)'
               /\ buy'[d].at \in {"clear", "done"} => Matched(d)'
    <3>1. CASE d = c
      BY <1>t, <2>1, <2>4, <2>5, <2>6, <3>1, GotoMoves DEF AloneLines
    <3>2. CASE d # c
      BY <1>t, <2>1, <2>3, <2>5, <2>6, <3>2, GotoMoves DEF AloneLines, Running
    <3> QED
      BY <3>1, <3>2
  <2> QED
    BY <2>6 DEF AloneLines
<1>5. ASSUME NEW c \in Clicks, ClearRequests(c) \/ WrongBox(c) \/ Stop(c) PROVE AloneLines'
  <2>1. PICK label : /\ c \in DOMAIN buy /\ Goto(c, label) /\ purchaseItems' = purchaseItems
                     /\ \/ label \in {"void", "stopped"}
                        \/ label = "done" /\ buy[c].at = "clear"
    BY <1>5 DEF ClearRequests, WrongBox, Stop, At, Busy
  <2>2. \A d \in DOMAIN buy : /\ Bare(d) => Bare(d)'
                              /\ OneLine(d) => OneLine(d)'
                              /\ Matched(d) => Matched(d)'
    <3>1. \A d \in DOMAIN buy : buy'[d].po = buy[d].po /\ buy'[d].row = buy[d].row
      BY <1>t, <2>1, GotoMoves
    <3> QED
      BY <2>1, <3>1, SameLines
  <2> QED
    BY <1>t, <2>1, <2>2, GotoMoves DEF AloneLines
<1>6. CASE Arrive \/ UNCHANGED vars
  BY <1>6 DEF Arrive, vars, AloneLines, Bare, OneLine, Matched, LinesOfPo
<1> QED
  BY <1>1, <1>2, <1>3, <1>4, <1>5, <1>6 DEF Next, Proceed

\* Every click has the line it should have, alone or not, as long as its
\* purchase order is the newest.
LEMMA StepKeepsNewestLine ==
  Sound /\ NewestLine /\ NewestIsFilled /\ [Next]_vars => NewestLine' /\ NewestIsFilled'
<1> SUFFICES ASSUME Sound, NewestLine, NewestIsFilled, [Next]_vars
             PROVE  NewestLine' /\ NewestIsFilled'
  OBVIOUS
<1>t. TypeOK /\ Numbered /\ Placed
  BY DEF Sound
<1>1. ASSUME NEW c \in Clicks, ShowPage(c) PROVE NewestLine' /\ NewestIsFilled'
  <2>1. PICK k \in DOMAIN warehouseOrders :
          buy' = Insert(buy, c, [at |-> "page", row |-> warehouseOrders[k],
                                 po |-> 0, alone |-> TRUE])
    BY <1>1 DEF ShowPage
  <2>2. /\ DOMAIN buy' = DOMAIN buy \cup {c} /\ buy'[c].at = "page"
        /\ \A d \in DOMAIN buy : d # c => buy'[d] = buy[d]
        /\ purchaseItems' = purchaseItems /\ purchaseOrders' = purchaseOrders
    BY <1>1, <2>1 DEF Insert, ShowPage
  <2> QED
    BY <1>1, <2>2 DEF ShowPage, NewestLine, NewestIsFilled, LinesOfPo, LastPo
<1>2. ASSUME NEW c \in Clicks, PlacePurchase(c) PROVE NewestLine' /\ NewestIsFilled'
  <2>1. LastPo' = NextPo
    BY <1>t, <1>2, PlaceFacts
  <2>2. ASSUME NEW d \in DOMAIN buy, buy'[d].at \in {"fill", "clear", "done"}
        PROVE  buy'[d].po # NextPo
    <3>1. d # c /\ buy'[d].at = buy[d].at /\ buy'[d].po = buy[d].po
      BY <1>t, <1>2, <2>2, PlaceMoves
    <3>2. buy[d].po \in DOMAIN purchaseOrders
      BY <1>t, <2>2, <3>1 DEF Placed, Running
    <3> QED
      BY <1>t, <3>1, <3>2, NextIsNewer
  <2> QED
    BY <1>t, <1>2, <2>1, <2>2, PlaceMoves DEF NewestLine, NewestIsFilled
<1>3. ASSUME NEW c \in Clicks, InsertLine(c) PROVE NewestLine' /\ NewestIsFilled'
  <2>1. c \in DOMAIN buy /\ buy[c].at = "line" /\ Goto(c, "fill") /\ LastPo' = LastPo
    BY <1>3 DEF InsertLine, At, LastPo
  <2>2. PICK k : /\ k \notin DOMAIN purchaseItems
                 /\ DOMAIN purchaseItems' = DOMAIN purchaseItems \cup {k}
                 /\ purchaseItems'[k].po = LastPo
                 /\ \A j \in DOMAIN purchaseItems : purchaseItems'[j] = purchaseItems[j]
    BY <1>3, InsertLineFacts
  <2>3. k \in LinesOfPo(LastPo)'
    BY <2>1, <2>2 DEF LinesOfPo
  <2>4. \A j \in LinesOfPo(LastPo) : /\ j \in LinesOfPo(LastPo)'
                                     /\ purchaseItems'[j] = purchaseItems[j]
    BY <2>1, <2>2 DEF LinesOfPo
  <2> QED
    BY <1>t, <2>1, <2>3, <2>4, GotoMoves DEF NewestLine, NewestIsFilled
<1>4. ASSUME NEW c \in Clicks, FillLine(c) PROVE NewestLine' /\ NewestIsFilled'
  <2>1. c \in DOMAIN buy /\ buy[c].at = "fill" /\ Goto(c, "clear") /\ LastPo' = LastPo
    BY <1>4 DEF FillLine, At, LastPo
  <2>2. buy[c].row.item # None
    BY <1>t, <2>1, PurchasingAssumption DEF TypeOK, IsTable, Click, WantedRow
  <2>3. LinesOfPo(LastPo)' = LinesOfPo(LastPo)
    BY <1>t, <1>4, <2>1, FillLineFacts DEF LinesOfPo
  <2>4. \A j \in LinesOfPo(LastPo) : purchaseItems'[j].item # None
    BY <1>t, <1>4, <2>2, FillLineFacts DEF LinesOfPo
  <2>5. ASSUME NEW d \in DOMAIN buy, buy[d].at \in {"fill", "clear", "done"}, buy[d].po = LastPo
        PROVE  LinesOfPo(LastPo) # {}
    BY <2>5 DEF NewestLine, NewestIsFilled
  <2> QED
    BY <1>t, <2>1, <2>3, <2>4, <2>5, GotoMoves DEF NewestLine, NewestIsFilled
<1>5. ASSUME NEW c \in Clicks, ClearRequests(c) \/ WrongBox(c) \/ Stop(c)
      PROVE  NewestLine' /\ NewestIsFilled'
  <2>1. PICK label : /\ c \in DOMAIN buy /\ Goto(c, label) /\ purchaseItems' = purchaseItems
                     /\ \/ label \in {"void", "stopped"}
                        \/ label = "done" /\ buy[c].at = "clear"
                     /\ purchaseOrders' = purchaseOrders
    BY <1>5 DEF ClearRequests, WrongBox, Stop, At, Busy
  <2>2. LinesOfPo(LastPo)' = LinesOfPo(LastPo) /\ LastPo' = LastPo
    BY <2>1 DEF LinesOfPo, LastPo
  <2> QED
    BY <1>t, <2>1, <2>2, GotoMoves DEF NewestLine, NewestIsFilled
<1>6. CASE Arrive \/ UNCHANGED vars
  BY <1>6 DEF Arrive, vars, NewestLine, NewestIsFilled, LinesOfPo, LastPo
<1> QED
  BY <1>1, <1>2, <1>3, <1>4, <1>5, <1>6 DEF Next, Proceed

\* What purchasing keeps of all clicks.
Kept == Sound /\ IdsExist /\ Ahead /\ AloneIsNewest /\ AloneLines /\ NewestLine /\ NewestIsFilled

\* The invariant that the theorems below are drawn from.
LEMMA KeptAlways == Spec => []Kept
<1>1. Init => Kept
  <2> SUFFICES ASSUME Init PROVE Kept
    OBVIOUS
  <2>1. DOMAIN buy = {} /\ DOMAIN purchaseItems = {}
    BY DEF Init
  <2> QED
    BY <2>1, InitSound DEF Kept, IdsExist, Ahead, AloneIsNewest, AloneLines,
                           NewestLine, NewestIsFilled
<1>2. Kept /\ [Next]_vars => Kept'
  BY StepSound, StepKeepsIds, StepKeepsAhead, StepKeepsAloneLines, StepKeepsNewestLine DEF Kept
<1> QED
  BY <1>1, <1>2, PTL DEF Spec

\* Although the purchase order is looked up by MAX(po_id), a click that no other
\* overlapped in insertPurchase has bought what its row asked for, on one line
\* of its own purchase order, and no later click, finished or not, changes it.
THEOREM AloneBuysItsRow == Spec => []AlonePurchaseMatches
<1>1. Kept => AlonePurchaseMatches
  <2> SUFFICES ASSUME Kept, NEW c \in DOMAIN buy,
                      buy[c].at \in {"clear", "done"}, buy[c].alone
               PROVE  /\ purchaseOrders[buy[c].po] = buy[c].row.order
                      /\ Cardinality(LinesOfPo(buy[c].po)) = 1
                      /\ Matched(c)
    BY DEF AlonePurchaseMatches, Matched
  <2>1. purchaseOrders[buy[c].po] = buy[c].row.order
    BY DEF Kept, Sound, Placed, Running
  <2>2. OneLine(c) /\ Matched(c)
    BY DEF Kept, AloneLines
  <2>3. Cardinality(LinesOfPo(buy[c].po)) = 1
    BY <2>2, FS_Singleton DEF OneLine
  <2> QED
    BY <2>1, <2>2, <2>3
<1> QED
  BY <1>1, KeptAlways, PTL

\* Whatever clicks overlap, the newest purchase order has an item once its own
\* click has filled it in.
THEOREM NewestHasItem == Spec => []NewestIsFilled
<1>1. Kept => NewestIsFilled
  BY DEF Kept
<1> QED
  BY <1>1, KeptAlways, PTL

\* The lines of a purchase order are final once a newer order exists.
THEOREM OvertakenLinesStay == Spec => OldLinesAreFinal
<1> DEFINE Final == \A k \in DOMAIN purchaseItems :
                      purchaseItems[k].po # LastPo => /\ k \in DOMAIN purchaseItems'
                                                      /\ purchaseItems'[k] = purchaseItems[k]
<1>1. TypeOK /\ [Next]_vars => Final
  <2> SUFFICES ASSUME TypeOK, [Next]_vars PROVE Final
    OBVIOUS
  <2>1. ASSUME NEW c \in Clicks, InsertLine(c) PROVE Final
    BY <2>1, InsertLineFacts
  <2>2. ASSUME NEW c \in Clicks, FillLine(c) PROVE Final
    BY <2>2, FillLineFacts
  <2>3. CASE purchaseItems' = purchaseItems
    BY <2>3
  <2> QED
    BY <2>1, <2>2, <2>3 DEF Next, Proceed, Arrive, ShowPage, WrongBox, PlacePurchase,
                            ClearRequests, Stop, vars
<1> QED
  BY <1>1, TypeCorrect, PTL DEF Spec, OldLinesAreFinal

-----------------------------------------------------------------------------
(* Where purchases come from.                                              *)

\* Every row of warehouse_order, every row posted, every purchase order and
\* every filled line is for one of the requests W.
From(W) ==
  /\ \A k \in DOMAIN warehouseOrders : warehouseOrders[k] \in W
  /\ \A c \in DOMAIN buy : buy[c].row \in W
  /\ \A p \in DOMAIN purchaseOrders : \E w \in W : purchaseOrders[p] = w.order
  /\ \A k \in DOMAIN purchaseItems : purchaseItems[k].item # None =>
       \E w \in W : purchaseItems[k].item = w.item /\ purchaseItems[k].qty = w.qty

\* As long as only rows of W arrive, nothing else is ever bought.
LEMMA FromStays ==
  ASSUME Sound, [Next]_vars, NEW W, From(W),
         \A k \in DOMAIN warehouseOrders' : warehouseOrders'[k] \in W
  PROVE  From(W)'
<1> DEFINE Rows  == \A c \in DOMAIN buy' : buy'[c].row \in W
           Pos   == \A p \in DOMAIN purchaseOrders' : \E w \in W : purchaseOrders'[p] = w.order
           Lines == \A k \in DOMAIN purchaseItems' : purchaseItems'[k].item # None =>
                      \E w \in W : /\ purchaseItems'[k].item = w.item
                                   /\ purchaseItems'[k].qty = w.qty
<1>t. TypeOK /\ Numbered
  BY DEF Sound
<1>f. /\ \A k \in DOMAIN warehouseOrders : warehouseOrders[k] \in W
      /\ \A c \in DOMAIN buy : buy[c].row \in W
  BY DEF From
<1>p. purchaseOrders' = purchaseOrders => Pos
  BY DEF From
<1>l. purchaseItems' = purchaseItems => Lines
  BY DEF From
<1>g. ASSUME NEW c \in DOMAIN buy, NEW label, Goto(c, label) PROVE Rows
  <2>1. \A d \in DOMAIN buy' : d \in DOMAIN buy /\ buy'[d].row = buy[d].row
    BY <1>t, <1>g, GotoMoves
  <2> QED
    BY <1>f, <2>1
<1>q. Rows /\ Pos /\ Lines => From(W)'
  BY DEF From
<1> HIDE DEF Rows, Pos, Lines
<1>1. ASSUME NEW c \in Clicks, ShowPage(c) PROVE From(W)'
  <2>1. PICK k \in DOMAIN warehouseOrders :
          buy' = Insert(buy, c, [at |-> "page", row |-> warehouseOrders[k],
                                 po |-> 0, alone |-> TRUE])
    BY <1>1 DEF ShowPage
  <2>2. Rows
    BY <1>f, <2>1 DEF Insert, Rows
  <2> QED
    BY <1>1, <1>p, <1>l, <1>q, <2>2 DEF ShowPage
<1>2. ASSUME NEW c \in Clicks, PlacePurchase(c) PROVE From(W)'
  <2>1. /\ c \in DOMAIN buy /\ \A d \in DOMAIN buy' : d \in DOMAIN buy /\ buy'[d].row = buy[d].row
    BY <1>t, <1>2, PlaceMoves
  <2>2. Pos
    BY <1>t, <1>f, <1>2, <2>1, PlaceFacts DEF From, Pos
  <2>3. Rows
    BY <1>f, <2>1 DEF Rows
  <2> QED
    BY <1>2, <1>l, <1>q, <2>2, <2>3 DEF PlacePurchase
<1>3. ASSUME NEW c \in Clicks, InsertLine(c) PROVE From(W)'
  <2>1. PICK k : /\ DOMAIN purchaseItems' = DOMAIN purchaseItems \cup {k}
                 /\ purchaseItems'[k].item = None
                 /\ \A j \in DOMAIN purchaseItems : purchaseItems'[j] = purchaseItems[j]
    BY <1>3, InsertLineFacts
  <2>2. Lines
    BY <2>1 DEF From, Lines
  <2> QED
    BY <1>3, <1>g, <1>p, <1>q, <2>2 DEF InsertLine, At
<1>4. ASSUME NEW c \in Clicks, FillLine(c) PROVE From(W)'
  <2>1. c \in DOMAIN buy /\ Goto(c, "clear") /\ buy[c].row \in W
    BY <1>4, <1>f DEF FillLine, At
  <2>2. Lines
    BY <1>t, <1>4, <2>1, FillLineFacts DEF From, Lines
  <2> QED
    BY <1>4, <1>g, <1>p, <1>q, <2>1, <2>2 DEF FillLine
<1>5. ASSUME NEW c \in Clicks, ClearRequests(c) \/ WrongBox(c) \/ Stop(c) PROVE From(W)'
  <2>1. PICK label : /\ c \in DOMAIN buy /\ Goto(c, label)
                     /\ UNCHANGED <<purchaseItems, purchaseOrders>>
    BY <1>5 DEF ClearRequests, WrongBox, Stop, At, Busy
  <2> QED
    BY <1>g, <1>p, <1>l, <1>q, <2>1
<1>6. CASE Arrive \/ UNCHANGED vars
  <2>1. UNCHANGED <<buy, purchaseItems, purchaseOrders>>
    BY <1>6 DEF Arrive, vars
  <2> QED
    BY <1>f, <1>p, <1>l, <1>q, <2>1 DEF Rows
<1> QED
  BY <1>1, <1>2, <1>3, <1>4, <1>5, <1>6 DEF Next, Proceed
=============================================================================
