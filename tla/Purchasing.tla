----------------------------- MODULE Purchasing -----------------------------
(***************************************************************************)
(* Buying what the warehouses ran out of: pom.jsp shows the rows of        *)
(* warehouse_order in a form, InsertPom turns the row its user ticked into *)
(* a purchase order (Pom.insertPurchase), and executeQuery keeps adding    *)
(* rows.  insertPurchase runs four autocommitted statements and finds the  *)
(* order it has just inserted by MAX(po_id), so several clicks interleave  *)
(* between them; an exception ends it without undoing anything (Stop).     *)
(***************************************************************************)
EXTENDS Table, FiniteSetsExt

CONSTANTS
  Clicks,    \* the visits to pom.jsp, each with at most one POST of its form
  OrderIds, Items, Quantities,
  RowIds,    \* keys of warehouse_order rows and of purchase_order_item rows
  None       \* SQL's NULL

WantedRow == [order: OrderIds, item: Items, qty: Quantities]
LineRow   == [po: Nat, item: Items \cup {None}, qty: Quantities \cup {None}]

ASSUME PurchasingAssumption ==
  /\ None \notin Items \cup Quantities

VARIABLES
  warehouseOrders,  \* warehouse_order
  purchaseOrders,   \* purchase_order: po_id -> order_id
  purchaseItems,    \* purchase_order_item
  buy,              \* the clicks so far: progress, the row posted, and
                    \* history: the po_id inserted, no click ran alongside
  asked             \* history: the orders that ever had a warehouse_order row

vars == <<warehouseOrders, purchaseOrders, purchaseItems, buy, asked>>

-----------------------------------------------------------------------------
\* A click is named for the statement it runs next: "line" is the second of
\* insertPurchase, "fill" the third, "clear" the fourth.
Running == {"line", "fill", "clear"}
Click   == [at: {"page", "void", "stopped", "done"} \cup Running,
            row: WantedRow, po: Nat, alone: BOOLEAN]

At(c, label) == c \in DOMAIN buy /\ buy[c].at = label
Goto(c, label) == buy' = [buy EXCEPT ![c].at = label]

\* AUTO_INCREMENT: orders are never deleted, so the next id is one more.
LastPo == Max(DOMAIN purchaseOrders)
NextPo == IF DOMAIN purchaseOrders = {} THEN 1 ELSE LastPo + 1

\* select MAX(po_id) from purchase_order: not the caller's own order if
\* another click has inserted one since.
OldestPo == Min(DOMAIN purchaseOrders)    \* mutant
NewestPo == LastPo

Init ==
  /\ warehouseOrders = [k \in {} |-> {}]
  /\ purchaseOrders = [p \in {} |-> {}]
  /\ purchaseItems = [k \in {} |-> {}]
  /\ buy = [c \in {} |-> {}]
  /\ asked = {}

\* executeQuery's fifth statement.
Arrive ==
  /\ HasRoom(warehouseOrders, RowIds)
  /\ \E row \in WantedRow :
       /\ warehouseOrders' = Insert(warehouseOrders,
                                    FreshKey(warehouseOrders, RowIds), row)
       /\ asked' = asked \cup {row.order}
  /\ UNCHANGED <<purchaseOrders, purchaseItems, buy>>

\* pom.jsp repeats the hidden field updateList for every row and InsertPom
\* reads the first, which holds just the first row the query returned; the
\* query has no order by, so that is any row.
ShowPage(c) ==
  /\ c \notin DOMAIN buy
  /\ \E k \in DOMAIN warehouseOrders :
       buy' = Insert(buy, c, [at |-> "page", row |-> warehouseOrders[k],
                              po |-> 0, alone |-> TRUE])
  /\ UNCHANGED <<warehouseOrders, purchaseOrders, purchaseItems, asked>>

\* No box ticked is a null array; a box of a later row is an index outside
\* the list.  Neither writes anything.
WrongBox(c) ==
  /\ At(c, "page")
  /\ Goto(c, "void")
  /\ UNCHANGED <<warehouseOrders, purchaseOrders, purchaseItems, asked>>

-----------------------------------------------------------------------------
(* Pom.insertPurchase, for the first box.                                  *)

Busy(c) == c \in DOMAIN buy /\ buy[c].at \in Running

PlacePurchase(c) ==
  /\ At(c, "page")
  /\ LET po     == NextPo
         others == {d \in DOMAIN buy : Busy(d)}
     IN  /\ purchaseOrders' = Insert(purchaseOrders, po, buy[c].row.order)
         /\ buy' = [d \in DOMAIN buy |->
              IF d = c THEN [buy[c] EXCEPT !.at = "line", !.po = po,
                                           !.alone = (others = {})]
              ELSE IF d \in others THEN [buy[d] EXCEPT !.alone = FALSE]
              ELSE buy[d]]
  /\ UNCHANGED <<warehouseOrders, purchaseItems, asked>>

InsertLine(c) ==
  /\ At(c, "line")
  /\ HasRoom(purchaseItems, RowIds)
  /\ purchaseItems' = Insert(purchaseItems, FreshKey(purchaseItems, RowIds),
                             [po |-> NewestPo, item |-> None, qty |-> None])
  /\ Goto(c, "fill")
  /\ UNCHANGED <<warehouseOrders, purchaseOrders, asked>>

\* The lines that "where po_id in (select MAX(po_id) ...)" selects.
UnfilledLines == {k \in DOMAIN purchaseItems : purchaseItems[k].item = None}    \* mutant
NewestLines   == {k \in DOMAIN purchaseItems : purchaseItems[k].po = NewestPo}

\* The columns set, in the order of the update's parameters.
FilledSwapped(l, row) == [l EXCEPT !.item = row.qty, !.qty = row.item]    \* mutant
Filled(l, row) == [l EXCEPT !.item = row.item, !.qty = row.qty]

FillLine(c) ==
  /\ At(c, "fill")
  /\ purchaseItems' = [k \in DOMAIN purchaseItems |->
                         IF k \in NewestLines THEN Filled(purchaseItems[k], buy[c].row)
                                              ELSE purchaseItems[k]]
  /\ Goto(c, "clear")
  /\ UNCHANGED <<warehouseOrders, purchaseOrders, asked>>

\* Every request of that order is dropped, not just the one bought.
SameItem(k, row) == warehouseOrders[k].item = row.item       \* mutant
Dropped(k, row)  == warehouseOrders[k].order = row.order

ClearRequests(c) ==
  /\ At(c, "clear")
  /\ warehouseOrders' = Delete(warehouseOrders,
       {k \in DOMAIN warehouseOrders : Dropped(k, buy[c].row)})
  /\ Goto(c, "done")
  /\ UNCHANGED <<purchaseOrders, purchaseItems, asked>>

\* insertPurchase prints any exception and returns.
Stop(c) ==
  /\ \/ At(c, "page") /\ Goto(c, "void")
     \/ Busy(c) /\ Goto(c, "stopped")
  /\ UNCHANGED <<warehouseOrders, purchaseOrders, purchaseItems, asked>>

-----------------------------------------------------------------------------
Proceed(c) == InsertLine(c) \/ FillLine(c) \/ ClearRequests(c)

Next == \/ Arrive
        \/ \E c \in Clicks : ShowPage(c) \/ WrongBox(c) \/ PlacePurchase(c)
                               \/ Proceed(c) \/ Stop(c)

Spec == Init /\ [][Next]_vars

-----------------------------------------------------------------------------
(***************************************************************************)
(* Properties.                                                             *)
(***************************************************************************)

\* Rows have their columns' types, an unfilled column being NULL.
TypeOK ==
  /\ IsTable(warehouseOrders, RowIds, WantedRow)
  /\ IsTable(purchaseOrders, Nat \ {0}, OrderIds)
  /\ IsTable(purchaseItems, RowIds, LineRow)
  /\ IsTable(buy, Clicks, Click)
  /\ asked \subseteq OrderIds

\* No request is dropped before its order was bought for: an order that ever
\* had a row in warehouse_order has one still, or a purchase order.  That
\* holds although a click may drop rows that arrived after its page was shown
\* and although it may stop between any two statements of insertPurchase.
NoRequestVanishes ==
  \A o \in asked : \/ \E k \in DOMAIN warehouseOrders : warehouseOrders[k].order = o
                   \/ \E p \in DOMAIN purchaseOrders : purchaseOrders[p] = o

\* What the stores see of purchasing: the four statements of insertPurchase,
\* overlapped, repeated from a page shown twice and stopped anywhere, amount to
\* what Procurement allows.  A stale page buys again, but never for an order
\* that nobody asked goods for, and no order is settled before it is bought for.
Bought(o) == {p \in DOMAIN purchaseOrders : purchaseOrders[p] = o}
Contract == INSTANCE Procurement
              WITH Orders <- OrderIds,
                   wanted <- {warehouseOrders[k].order : k \in DOMAIN warehouseOrders},
                   bought <- [o \in OrderIds |-> Cardinality(Bought(o))]
FollowsProcurement == Contract!Spec

LinesOfPo(p) == {k \in DOMAIN purchaseItems : purchaseItems[k].po = p}

\* A click that no other click overlapped in insertPurchase has bought what
\* its row asked for, on exactly one line of its own purchase order, and later
\* clicks never change it.
AlonePurchaseMatches ==
  \A c \in DOMAIN buy :
    buy[c].at \in {"clear", "done"} /\ buy[c].alone =>
      /\ purchaseOrders[buy[c].po] = buy[c].row.order
      /\ Cardinality(LinesOfPo(buy[c].po)) = 1
      /\ \A k \in LinesOfPo(buy[c].po) : /\ purchaseItems[k].item = buy[c].row.item
                                         /\ purchaseItems[k].qty = buy[c].row.qty

\* Whatever the overlap, the newest purchase order has a line with an item
\* once its click has filled it in; only older ones can end up without.
NewestIsFilled ==
  \A c \in DOMAIN buy :
    buy[c].at \in {"clear", "done"} /\ buy[c].po = LastPo =>
      \E k \in LinesOfPo(LastPo) : purchaseItems[k].item # None

\* The lines of a purchase order are final once a newer order exists, filled
\* or not: clicks that were overtaken in insertPurchase never reach back.
OldLinesAreFinal ==
  [][\A k \in DOMAIN purchaseItems :
       purchaseItems[k].po # LastPo => /\ k \in DOMAIN purchaseItems'
                                       /\ purchaseItems'[k] = purchaseItems[k]]_vars
=============================================================================
