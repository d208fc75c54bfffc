----------------------------- MODULE Fulfilment -----------------------------
(***************************************************************************)
(* The life of a placed order: a warehouse manager ships lines of it       *)
(* (updateOrders.jsp and executeQuery), while store representatives change *)
(* quantities (UpdateOrder) and delete orders (DeleteOrder).               *)
(*                                                                         *)
(* Every servlet opens a connection of its own in autocommit mode and      *)
(* issues its statements one by one, with no transaction around them, so   *)
(* each SQL statement is an action and requests interleave between any two *)
(* of them.  A statement may throw; the handler then only prints the       *)
(* stack trace, and what ran before it stays (StopEarly).                  *)
(***************************************************************************)
EXTENDS Table, FiniteSets

CONSTANTS
  Requests,     \* the HTTP requests that may arrive; each is served once
  Warehouses, Stores, Items, OrderIds,
  RowIds,       \* keys of item rows and of warehouse_order rows
  Quantities,   \* the quantities a user may type
  WarehouseOf,  \* store.warehouse_id
  InitStock,    \* warehouse_stock: <<warehouse, item>> -> quantity_available
  InitOrders,   \* store_order as the placed orders left it
  InitItems     \* store_order_item as the placed orders left it

Statuses == {"Order Placed", "Complete"}
OrderRow == [store: Stores, total: Int, status: Statuses]
ItemRow  == [order: OrderIds, item: Items, qty: Int]
Stocked  == DOMAIN InitStock

ASSUME FulfilmentAssumption ==
  /\ Quantities \subseteq Int
  /\ WarehouseOf \in [Stores -> Warehouses]
  /\ Stocked \subseteq Warehouses \X Items
  /\ InitStock \in [Stocked -> Int]
  /\ IsTable(InitOrders, OrderIds, OrderRow)
  /\ IsTable(InitItems, RowIds, ItemRow)
  /\ \A o \in DOMAIN InitOrders : InitOrders[o].status = "Order Placed"
  /\ \A k \in DOMAIN InitItems : InitItems[k].order \in DOMAIN InitOrders

VARIABLES
  stock,            \* warehouse_stock
  orders,           \* store_order
  items,            \* store_order_item
  warehouseOrders,  \* warehouse_order, what purchasing is asked to buy
  req,              \* the requests that have arrived: progress and parameters
  raised            \* history: orders with a line whose quantity went up

tables == <<stock, orders, items, warehouseOrders>>
vars   == <<stock, orders, items, warehouseOrders, req, raised>>

-----------------------------------------------------------------------------
(***************************************************************************)
(* A shipping request is named for the statement it runs next, and once it *)
(* has ended for how far it came:                                          *)
(*   void       nothing was written                                        *)
(*   lost       the stock was taken, the order was not credited            *)
(*   unchecked  the order was credited, but no check for empty stock ended *)
(*   done       all statements ran                                         *)
(***************************************************************************)
InFlight == {"credit", "status", "check", "reorder"}
Ended    == {"void", "lost", "unchecked", "done"}
Shipping == [at: {"form"} \cup InFlight \cup Ended,
             order: OrderIds, item: Items, qty: Int]
Editing  == [at: {"drop", "served"}, order: OrderIds]

At(r, label)   == r \in DOMAIN req /\ req[r].at = label
Goto(r, label) == req' = [req EXCEPT ![r].at = label]
New(r)         == r \notin DOMAIN req

\* The rows a "where order_id=? and item_id=?" selects.
AllLinesOf(o, i) == {k \in DOMAIN items : items[k].order = o}    \* mutant
LinesOf(o, i) == {k \in DOMAIN items : items[k].order = o /\ items[k].item = i}

\* History: which orders had a line raised by this step.
NoteRaises ==
  raised' = raised \cup {items[k].order :
                           k \in {j \in DOMAIN items \cap DOMAIN items' :
                                    items'[j].qty > items[j].qty}}

Init ==
  /\ stock = InitStock
  /\ orders = InitOrders
  /\ items = InitItems
  /\ warehouseOrders = [k \in {} |-> InitItems[k]]
  /\ req = [r \in {} |-> {}]
  /\ raised = {}

-----------------------------------------------------------------------------
(* executeQuery: ship one line of an order.                                *)

\* updateOrders.jsp joins order and line and puts the quantity in a form.
OpenForm(r) ==
  /\ New(r)
  /\ \E k \in DOMAIN items :
       /\ items[k].order \in DOMAIN orders
       /\ req' = Insert(req, r, [at |-> "form", order |-> items[k].order,
                                 item |-> items[k].item, qty |-> items[k].qty])
  /\ UNCHANGED <<tables, raised>>

\* What a shelf holds once q is taken from it: nothing keeps it above zero.
TakenClamped(n, q) == IF n >= q THEN n - q ELSE 0    \* mutant
Taken(n, q) == n - q

\* The form comes back with the quantity it showed or one typed over it; the
\* first statement takes that much from every warehouse that stocks the item.
Debit(r) ==
  /\ At(r, "form")
  /\ \E q \in Quantities \cup {req[r].qty} :
       LET hit == {wi \in Stocked : wi[2] = req[r].item}
       IN  /\ stock' = [wi \in Stocked |-> IF wi \in hit THEN Taken(stock[wi], q)
                                                         ELSE stock[wi]]
           /\ req' = [req EXCEPT ![r].at = IF hit = {} THEN "void" ELSE "credit",
                                 ![r].qty = q]
  /\ UNCHANGED <<orders, items, warehouseOrders, raised>>

\* The second takes it from the quantity ordered; if no line matches, the
\* handler ends without a page.
CreditRetried(r) ==    \* mutant: waits for a matching line
  /\ At(r, "credit")
  /\ LinesOf(req[r].order, req[r].item) # {}
  /\ Goto(r, "status")
  /\ UNCHANGED <<tables, raised>>
Credit(r) ==
  /\ At(r, "credit")
  /\ LET hit == LinesOf(req[r].order, req[r].item)
     IN  /\ items' = [k \in DOMAIN items |->
                        IF k \in hit THEN [items[k] EXCEPT !.qty = @ - req[r].qty]
                                     ELSE items[k]]
         /\ Goto(r, IF hit = {} THEN "lost" ELSE "status")
  /\ NoteRaises
  /\ UNCHANGED <<stock, orders, warehouseOrders>>

\* Nothing of line k is left to ship.
AnyLine(k)     == TRUE    \* mutant
NothingLeft(k) == items[k].qty = 0

\* The third completes the order if this line of it is now zero.
MarkComplete(r) ==
  /\ At(r, "status")
  /\ LET o == req[r].order
         zero == \E k \in LinesOf(o, req[r].item) : NothingLeft(k)
     IN  orders' = IF o \in DOMAIN orders /\ zero
                     THEN [orders EXCEPT ![o].status = "Complete"] ELSE orders
  /\ Goto(r, "check")
  /\ UNCHANGED <<stock, items, warehouseOrders, raised>>

\* The stock cell of item i in the warehouse that serves order o.
ShelfOf(o, i) == <<WarehouseOf[orders[o].store], i>>

\* Purchasing is told of a shelf that is exactly empty.
OnlyOvershot(n) == n < 0    \* mutant
Empty(n) == n = 0

\* The fourth reads the stock of the order's own warehouse.
CheckStock(r) ==
  /\ At(r, "check")
  /\ LET o     == req[r].order
         shelf == ShelfOf(o, req[r].item)
         found == o \in DOMAIN orders /\ shelf \in Stocked
     IN  Goto(r, IF ~found THEN "unchecked"
                 ELSE IF Empty(stock[shelf]) THEN "reorder" ELSE "done")
  /\ UNCHANGED <<tables, raised>>

\* The columns of that row, in the order of the insert's parameters.
WantedSwapped(q) == [order |-> q.item, item |-> q.order, qty |-> q.qty]    \* mutant
Wanted(q) == [order |-> q.order, item |-> q.item, qty |-> q.qty]

\* The fifth asks purchasing for as much as was just shipped.
Reorder(r) ==
  /\ At(r, "reorder")
  /\ HasRoom(warehouseOrders, RowIds)
  /\ warehouseOrders' = Insert(warehouseOrders, FreshKey(warehouseOrders, RowIds),
                               Wanted(req[r]))
  /\ Goto(r, "done")
  /\ UNCHANGED <<stock, orders, items, raised>>

-----------------------------------------------------------------------------
(* UpdateOrder and DeleteOrder: the store edits what it ordered.  The ids  *)
(* are typed by hand, so they may name any order in any state.             *)

UpdateOrder(r) ==
  /\ New(r)
  /\ \E o \in OrderIds, i \in Items, q \in Quantities :
       /\ items' = [k \in DOMAIN items |->
                      IF k \in LinesOf(o, i) THEN [items[k] EXCEPT !.qty = q]
                                             ELSE items[k]]
       /\ req' = Insert(req, r, [at |-> "served", order |-> o])
  /\ NoteRaises
  /\ UNCHANGED <<stock, orders, warehouseOrders>>

DropOrderFirst(r) ==    \* mutant
  /\ New(r)
  /\ \E o \in OrderIds : /\ orders' = Delete(orders, {o})
                         /\ req' = Insert(req, r, [at |-> "drop", order |-> o])
  /\ UNCHANGED <<stock, items, warehouseOrders, raised>>
DeleteLines(r) ==
  /\ New(r)
  /\ \E o \in OrderIds :
       /\ items' = Delete(items, {k \in DOMAIN items : items[k].order = o})
       /\ req' = Insert(req, r, [at |-> "drop", order |-> o])
  /\ UNCHANGED <<stock, orders, warehouseOrders, raised>>

DropOrder(r) ==
  /\ At(r, "drop")
  /\ orders' = Delete(orders, {req[r].order})
  /\ Goto(r, "served")
  /\ UNCHANGED <<stock, items, warehouseOrders, raised>>

\* A connection, parse or SQL error throws: the catch block prints it, and no
\* earlier statement is undone.
StopEarly(r) ==
  /\ r \in DOMAIN req
  /\ \/ At(r, "form") /\ Goto(r, "void")
     \/ At(r, "credit") /\ Goto(r, "lost")
     \/ req[r].at \in {"status", "check", "reorder"} /\ Goto(r, "unchecked")
     \/ At(r, "drop") /\ Goto(r, "served")
  /\ UNCHANGED <<tables, raised>>

-----------------------------------------------------------------------------
\* What the container's thread does on its own once a request runs.
Proceed(r) == \/ Credit(r) \/ MarkComplete(r) \/ CheckStock(r) \/ Reorder(r)
              \/ DropOrder(r)

Next == \E r \in Requests :
          \/ OpenForm(r) \/ Debit(r) \/ Proceed(r)
          \/ UpdateOrder(r) \/ DeleteLines(r) \/ StopEarly(r)

Spec == Init /\ [][Next]_vars

\* The container runs every thread; users need not send or submit anything.
FairSpec == Spec /\ \A r \in Requests : WF_vars(Proceed(r))

-----------------------------------------------------------------------------
(***************************************************************************)
(* Properties.                                                             *)
(***************************************************************************)

\* The tables hold rows of their columns' types, and every request is at a
\* statement of the servlet that serves it.
TypeOK ==
  /\ stock \in [Stocked -> Int]
  /\ IsTable(orders, OrderIds, OrderRow)
  /\ IsTable(items, RowIds, ItemRow)
  /\ IsTable(warehouseOrders, RowIds, ItemRow)
  /\ IsTable(req, Requests, Shipping \cup Editing)
  /\ raised \subseteq OrderIds

\* Total quantity of the shipping requests in R.
Shipped(R) == SumFunction([r \in R |-> req[r].qty])

\* The requests for order o (any order of O) and item i that are at a label of L.
For(O, i, L) == {r \in DOMAIN req : /\ req[r].at \in L
                                    /\ req[r].order \in O
                                    /\ req[r].item = i}

\* A shelf is short of its first stock by exactly what the requests that
\* passed executeQuery's first statement took, whichever warehouse they ship
\* from and whatever became of them: no interleaving loses or repeats a debit,
\* and a request that stops later never gives its debit back.
StockLedger ==
  \A wi \in Stocked :
    stock[wi] = InitStock[wi] -
      Shipped(For(OrderIds, wi[2], InFlight \cup (Ended \ {"void"})))

\* A line of an order that no store edited lacks exactly what the requests
\* that passed executeQuery's second statement credited to it, and each of
\* two lines with the same item is credited in full.
OrderLedger ==
  \A k \in DOMAIN items :
    LET l == items[k]
    IN  (\A r \in DOMAIN req : req[r].at = "served" => req[r].order # l.order)
        => l.qty = InitItems[k].qty -
             Shipped(For({l.order}, l.item, {"status", "check", "reorder", "unchecked", "done"}))

\* A shelf that requests emptied to zero does not go unnoticed: purchasing has
\* been asked for the item, or a request that took it is still under way, or
\* one stopped before its check (executeQuery).  Two requests may
\* each empty or overshoot the shelf between the other's statements.  Only
\* for a warehouse that serves every store: executeQuery takes the item from
\* all warehouses but checks one.
Asked(i) == \E k \in DOMAIN warehouseOrders : warehouseOrders[k].item = i
ZeroStockReported ==
  \A wi \in Stocked :
    /\ \A s \in Stores : WarehouseOf[s] = wi[1]
    /\ stock[wi] = 0
    /\ InitStock[wi] # 0
    => \/ Asked(wi[2])
       \/ \E r \in DOMAIN req : /\ req[r].at \in InFlight \cup {"lost", "unchecked"}
                                /\ req[r].item = wi[2]

\* "Complete" is earned: unless a line of it was raised afterwards, a complete
\* order has some line with nothing left to ship, or no line at all (a
\* DeleteOrder between its two statements).
CompleteIsEarned ==
  \A o \in DOMAIN orders :
    LET lines == {k \in DOMAIN items : items[k].order = o}
    IN  orders[o].status = "Complete" /\ o \notin raised
        => lines = {} \/ \E k \in lines : items[k].qty <= 0

\* No line outlives its order: DeleteOrder removes the lines first, so also a
\* delete that stops half-way, or one racing with a shipment, leaves none.
NoOrphanLines == \A k \in DOMAIN items : items[k].order \in DOMAIN orders

\* The life of an order as its store sees it: what executeQuery, UpdateOrder
\* and DeleteOrder do to it, interleaved in any way or stopped at any
\* statement, is what OrderLifecycle allows.
Phase(o) ==
  IF o \notin DOMAIN orders THEN "gone"
  ELSE IF \A k \in DOMAIN items : items[k].order # o THEN "empty"
  ELSE IF orders[o].status = "Complete" THEN "complete" ELSE "placed"
Lifecycle == INSTANCE OrderLifecycle
               WITH Orders <- DOMAIN InitOrders,
                    phase  <- [o \in DOMAIN InitOrders |-> Phase(o)]
FollowsLifecycle == Lifecycle!Spec

\* Every request that a thread runs comes to an end, whatever the others
\* delete or change under it.
RequestsEnd ==
  \A r \in Requests :
    (\E l \in InFlight \cup {"drop"} : At(r, l))
      ~> (\E l \in Ended \cup {"served"} : At(r, l))

\* An emptied shelf does not stay both empty and unreported: purchasing is
\* asked, the shelf moves off zero, or a request on it has stopped early.
ZeroStockEventuallyReported ==
  \A wi \in Stocked :
    (\A s \in Stores : WarehouseOf[s] = wi[1]) /\ stock[wi] = 0 /\ InitStock[wi] # 0
      ~> \/ Asked(wi[2])
         \/ stock[wi] # 0
         \/ \E r \in DOMAIN req : /\ req[r].at \in {"lost", "unchecked"}
                                  /\ req[r].item = wi[2]

\* What the page that leads to UpdateOrder and DeleteOrder says it manages,
\* "Active Orders" (store_rep.jsp, manageStoreOrders.jsp): a completed order
\* is not edited.
OnlyActiveOrdersEdited ==
  [][\A o \in DOMAIN orders : orders[o].status = "Complete" =>
       \A r \in Requests : New(r) /\ r \in DOMAIN req' /\ req'[r].at = "served"
                             => req'[r].order # o]_vars
=============================================================================
