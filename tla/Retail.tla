------------------------------- MODULE Retail -------------------------------
(***************************************************************************)
(* The servlets over one database: Confirm_Cart places orders while        *)
(* Fulfilment's requests ship, edit and delete them by ids typed by hand,  *)
(* and Purchasing's clicks buy what the shipments asked for.  The cart is  *)
(* reduced to how far it has grown (Checkout has the rest).                *)
(*                                                                         *)
(* Everything connects as root of one server, but purchasing gives another *)
(* password than the rest.                                                 *)
(***************************************************************************)
EXTENDS Table, FiniteSetsExt, Sequences

CONSTANTS
  Confirms, Requests, Clicks,   \* the requests to Confirm_Cart, to fulfilment, to pom.jsp
  Warehouses, Stores, Items, WarehouseOf, InitStock, Quantities,   \* as in Fulfilment
  Cart,      \* what users will add to the cart, in this order: item, qty, price
  MaxOrder,  \* bound on the orders ever placed
  RowIds,    \* keys of all other rows
  Shippable, \* the quantities that shipping requests come to in an instance
  None       \* SQL's NULL

OrderIds == 1 .. MaxOrder

ASSUME RetailAssumption ==
  /\ WarehouseOf \in [Stores -> Warehouses]
  /\ DOMAIN InitStock \subseteq Warehouses \X Items
  /\ InitStock \in [DOMAIN InitStock -> Int]
  /\ Cart \in Seq([item: Items, qty: Int, price: Int])
  /\ MaxOrder \in Nat
  /\ Quantities \subseteq Shippable /\ Shippable \subseteq Int
  /\ None \notin Items \cup Int

VARIABLES
  stock, orders, items, warehouseOrders, req, raised,   \* Fulfilment's
  purchaseOrders, purchaseItems, buy, asked,            \* Purchasing's
  size,       \* how much of Cart has been added
  confirm,    \* progress of Confirm_Cart, and history: its order was overtaken
  lastOrder,  \* AUTO_INCREMENT of store_order, which deletes do not set back
  accepted    \* the passwords that the server accepts of root

NoRows == [k \in {} |-> k]

F == INSTANCE Fulfilment WITH InitOrders <- NoRows, InitItems <- NoRows
P == INSTANCE Purchasing WITH Quantities <- Shippable

fulfilment == <<stock, orders, items, req, raised>>
purchasing == <<purchaseOrders, purchaseItems, buy>>
placement  == <<size, confirm, lastOrder>>
vars == <<fulfilment, warehouseOrders, purchasing, asked, placement, accepted>>

\* What the servlets of the stores and warehouses give as root's password, and
\* what pom.jsp's list of requests and insertPurchase give.
StorePassword == "root"
PurchaserPassword == "admin"

Init ==
  /\ F!Init /\ P!Init
  /\ size = 0 /\ confirm = [c \in {} |-> {}] /\ lastOrder = 0
  /\ accepted \in SUBSET {"root", "admin"}

-----------------------------------------------------------------------------
(* AddItem and Confirm_Cart.                                               *)

AddItem ==
  /\ size < Len(Cart)
  /\ size' = size + 1
  /\ UNCHANGED <<fulfilment, warehouseOrders, purchasing, asked, confirm, lastOrder, accepted>>

\* Both loops walk the cart from its first line, whatever was ordered before.
Total == SumFunction([n \in 1 .. size |-> Cart[n].qty * Cart[n].price])

PlaceOrder(c) ==
  /\ StorePassword \in accepted
  /\ c \notin DOMAIN confirm
  /\ lastOrder < MaxOrder
  /\ \E s \in Stores :
       orders' = Insert(orders, lastOrder + 1,
                        [store |-> s, total |-> Total, status |-> "Order Placed"])
  /\ lastOrder' = lastOrder + 1
  /\ confirm' = Insert(confirm, c, [at |-> "lines", order |-> lastOrder + 1,
                                    i |-> 0, overtaken |-> FALSE])
  /\ UNCHANGED <<stock, items, req, raised, warehouseOrders, purchasing, asked, size, accepted>>

\* DeleteOrder has deleted order o, or will without another look at its lines.
BeingDeleted(o) ==
  \/ o \notin DOMAIN orders
  \/ \E r \in DOMAIN req : req[r].at = "drop" /\ req[r].order = o

\* The insert names an order without asking whether it is still there.
InsertLine(c) ==
  /\ c \in DOMAIN confirm /\ confirm[c].at = "lines"
  /\ LET f == confirm[c]
     IN  \/ f.i >= size /\ confirm' = [confirm EXCEPT ![c].at = "done"] /\ UNCHANGED items
         \/ /\ f.i < size
            /\ HasRoom(items, RowIds)
            /\ items' = Insert(items, FreshKey(items, RowIds),
                               [order |-> f.order, item |-> Cart[f.i + 1].item,
                                qty |-> Cart[f.i + 1].qty])
            /\ confirm' = [confirm EXCEPT ![c].i = @ + 1,
                                          ![c].overtaken = @ \/ BeingDeleted(f.order)]
  /\ UNCHANGED <<stock, orders, req, raised, warehouseOrders, purchasing, asked,
                 size, lastOrder, accepted>>

StopPlacing(c) ==
  /\ c \in DOMAIN confirm /\ confirm[c].at = "lines"
  /\ confirm' = [confirm EXCEPT ![c].at = "stopped"]
  /\ UNCHANGED <<fulfilment, warehouseOrders, purchasing, asked, size, lastOrder, accepted>>

-----------------------------------------------------------------------------
(* The two other components, step by step.                                 *)

\* A shipment's last statement is the only one that purchasing notices.
Fulfil(r) ==
  /\ StorePassword \in accepted
  /\ \/ F!Reorder(r) /\ asked' = asked \cup {req[r].order}
     \/ /\ \/ F!OpenForm(r) \/ F!Debit(r) \/ F!Credit(r) \/ F!MarkComplete(r)
           \/ F!CheckStock(r) \/ F!UpdateOrder(r) \/ F!DeleteLines(r)
           \/ F!DropOrder(r) \/ F!StopEarly(r)
        /\ UNCHANGED asked
  /\ UNCHANGED <<purchasing, placement, accepted>>

Purchase(c) ==
  /\ PurchaserPassword \in accepted
  /\ \/ P!ShowPage(c) \/ P!WrongBox(c) \/ P!PlacePurchase(c) \/ P!Proceed(c) \/ P!Stop(c)
  /\ UNCHANGED <<fulfilment, placement, accepted>>

Next ==
  \/ AddItem
  \/ \E c \in Confirms : PlaceOrder(c) \/ InsertLine(c) \/ StopPlacing(c)
  \/ \E r \in Requests : Fulfil(r)
  \/ \E c \in Clicks : Purchase(c)

Spec == Init /\ [][Next]_vars

-----------------------------------------------------------------------------
(***************************************************************************)
(* Properties.                                                             *)
(***************************************************************************)

\* The types of both components, and those of the placement.
TypeOK ==
  /\ F!TypeOK /\ P!TypeOK
  /\ size \in 0 .. Len(Cart) /\ lastOrder \in 0 .. MaxOrder
  /\ DOMAIN orders \subseteq 1 .. lastOrder
  /\ IsTable(confirm, Confirms, [at: {"lines", "done", "stopped"}, order: 1 .. lastOrder,
                                 i: 0 .. size, overtaken: BOOLEAN])

\* A line without its order can only be one that Confirm_Cart inserted after a
\* DeleteOrder had deleted the lines there were: deletes that stop half-way,
\* shipments and edits leave none.
OrphansAreCutShort ==
  \A k \in DOMAIN items : items[k].order \notin DOMAIN orders =>
    \E c \in DOMAIN confirm : /\ confirm[c].order = items[k].order
                              /\ confirm[c].overtaken

\* A shelf emptied to zero, in the one warehouse of all stores, reaches
\* purchasing: a request that took from it is under way or has failed, or its
\* row waits, or an order it was shipped for has a purchase order.  Not always
\* for the item itself: buying one request drops all of its order's.
ZeroReachesPurchasing ==
  \A wi \in DOMAIN InitStock :
    /\ \A s \in Stores : WarehouseOf[s] = wi[1]
    /\ stock[wi] = 0 /\ InitStock[wi] # 0
    => \/ \E k \in DOMAIN warehouseOrders : warehouseOrders[k].item = wi[2]
       \/ \E r \in DOMAIN req :
            /\ req[r].at \in F!InFlight \cup (F!Ended \ {"void"})
            /\ req[r].item = wi[2]
            /\ \/ req[r].at # "done"
               \/ \E p \in DOMAIN purchaseOrders : purchaseOrders[p] = req[r].order

\* Nothing is bought that was not shipped: every purchase order is for an order
\* that was shipped in full course, and every filled line is for an item and
\* quantity so shipped, though overlapping clicks may file it under the other's
\* purchase order and its store order may long be deleted.
Done(r) == req[r].at = "done"
PurchasesComeFromShipments ==
  /\ \A p \in DOMAIN purchaseOrders :
       \E r \in DOMAIN req : Done(r) /\ req[r].order = purchaseOrders[p]
  /\ \A k \in DOMAIN purchaseItems : purchaseItems[k].item # None =>
       \E r \in DOMAIN req : /\ Done(r) /\ req[r].item = purchaseItems[k].item
                             /\ req[r].qty = purchaseItems[k].qty

\* An order goes through its life as OrderLifecycle says, from the moment that
\* Confirm_Cart is through with it; one that was deleted while it was being
\* placed stays open, as lines of it may remain.
Open(o) == \/ o > lastOrder
           \/ \E c \in DOMAIN confirm : /\ confirm[c].order = o
                                        /\ confirm[c].at = "lines" \/ confirm[c].overtaken
Lifecycle == INSTANCE OrderLifecycle
               WITH Orders <- OrderIds,
                    phase  <- [o \in OrderIds |-> IF Open(o) THEN "open" ELSE F!Phase(o)]
FollowsLifecycle == Lifecycle!Spec

\* To purchasing, the other servlets are no more than what Purchasing assumes
\* of them, so that what holds of it there holds here.
PurchasingIsUndisturbed == P!Spec
=============================================================================
