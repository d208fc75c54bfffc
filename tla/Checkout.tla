------------------------------ MODULE Checkout ------------------------------
(***************************************************************************)
(* Filling the cart and placing an order: AddItem and Confirm_Cart.        *)
(*                                                                         *)
(* AddItem keeps ONE ArrayList in a field of the servlet, so all stores    *)
(* share it; it is never locked and never emptied.  "View cart" puts a     *)
(* reference to that list, not a copy, into the session, and Confirm_Cart  *)
(* walks it while AddItem threads may still be appending.  The accesses of *)
(* ArrayList.add that race are separate actions: the backing array may be  *)
(* copied to a longer one, which takes its place later; array and size are *)
(* read, size is written, the element is stored.  So is every SQL          *)
(* statement, and Confirm_Cart's reading of the session.                   *)
(***************************************************************************)
EXTENDS Table, FiniteSets

CONSTANTS
  Adds,         \* the add_item requests; an element of the cart is named for its request
  Confirms,     \* the requests to Confirm_Cart
  Users, Stores,
  RowIds,       \* keys of store_order_item rows
  Qty, Price,   \* quantity and price_per_unit that each add request carries
  MaxInt,       \* Integer.MAX_VALUE
  MaxCrashes,   \* bound on how often the container is killed
  None          \* a session attribute that is not set; and the first array's name

ASSUME CheckoutAssumption ==
  /\ Qty \in [Adds -> Int] /\ Price \in [Adds -> Int]
  /\ MaxInt \in Nat /\ MaxCrashes \in Nat
  /\ None \notin Stores \cup Adds

VARIABLES
  size,      \* cart.size
  data,      \* cart.elementData: an array is named for the add that made it
  slots,     \* what is in that array: index -> add request; a null is a missing index
  copies,    \* the longer arrays that adds have filled and not yet installed
  add,       \* progress of AddItem
  session,   \* user -> the attributes store_id and cart
  confirm,   \* progress of Confirm_Cart; life is history: the crashes before it
  held,      \* history: Confirm_Cart -> the stores its session was of, from its
             \* beginning until it asked for one
  orders,    \* store_order: order_id -> row, the ids are 1, 2, ...
  items,     \* store_order_item; idx is history: the place in the cart
  crashes    \* how often the container was killed

cart == <<size, data, slots, copies>>
db   == <<orders, items>>
vars == <<cart, add, session, confirm, held, db, crashes>>

\* Two's complement int arithmetic.
JavaInt(n) == ((n + MaxInt + 1) % (2 * (MaxInt + 1))) - (MaxInt + 1)

-----------------------------------------------------------------------------
Adding     == {"room", "install", "load", "size", "bump", "store"}
AddState   == [at: Adding \cup {"print", "shaken", "ok", "failed"},
               array: Adds \cup {None}, idx: Nat, raced: BOOLEAN]
Confirming == {"sum", "store", "place", "id", "lines"}
ConfirmState == [at: Confirming \cup {"void", "partial", "done"}, user: Users,
                 i: Nat, total: Int, counted: Nat, store: Stores \cup {None},
                 last: Nat, order: Nat, life: Nat]

AddAt(t, label)     == t \in DOMAIN add /\ add[t].at = label
ConfirmAt(c, label) == c \in DOMAIN confirm /\ confirm[c].at = label
InAdd(t)            == t \in DOMAIN add /\ add[t].at \in Adding

NoSession == [store |-> None, cart |-> FALSE]
Nothing   == [n \in {} |-> {}]

Init ==
  /\ size = 0 /\ data = None /\ slots = Nothing /\ copies = Nothing
  /\ add = Nothing /\ confirm = Nothing /\ held = [c \in Confirms |-> {}]
  /\ session = [u \in Users |-> NoSession]
  /\ orders = Nothing /\ items = Nothing
  /\ crashes = 0

-----------------------------------------------------------------------------
(* AddItem, action=add_item: cart.add(item), println(cart), the reply.     *)

\* cart.add begins; adds that overlap are marked.  Whoever prints the list at
\* that moment may get a ConcurrentModificationException.
Enter(t) ==
  /\ t \notin DOMAIN add
  /\ LET others == {u \in DOMAIN add : InAdd(u)}
     IN  add' = [u \in DOMAIN add \cup {t} |->
            IF u = t THEN [at |-> "room", array |-> None, idx |-> 0, raced |-> others # {}]
            ELSE IF u \in others THEN [add[u] EXCEPT !.raced = TRUE]
            ELSE IF add[u].at = "print" THEN [add[u] EXCEPT !.at = "shaken"]
            ELSE add[u]]
  /\ UNCHANGED <<cart, session, confirm, held, db, crashes>>

\* The array is full, and a longer one is filled from it.  How much fits is not
\* modelled, so any add may find it full; in a race the length of the new one
\* may be that of an array since replaced, and cut off the end.
Prefixes == {Restrict(slots, {i \in DOMAIN slots : i < n}) : n \in DOMAIN slots}
Copy(t) ==
  /\ AddAt(t, "room")
  /\ \E copy \in {slots} \cup (IF add[t].raced THEN Prefixes ELSE {}) :
       copies' = Insert(copies, t, copy)
  /\ add' = [add EXCEPT ![t].at = "install", ![t].array = data]
  /\ UNCHANGED <<size, data, slots, session, confirm, held, db, crashes>>

\* The longer array replaces whatever is elementData by then.
Install(t) ==
  /\ AddAt(t, "install")
  /\ data' = t /\ slots' = copies[t] /\ copies' = Delete(copies, {t})
  /\ add' = [add EXCEPT ![t].at = "load"]
  /\ UNCHANGED <<size, session, confirm, held, db, crashes>>

\* elementData[size++] = item: array and size are read, one after the other.
LoadArray(t) ==
  /\ AddAt(t, "room") \/ AddAt(t, "load")
  /\ add' = [add EXCEPT ![t].at = "size", ![t].array = data]
  /\ UNCHANGED <<cart, session, confirm, held, db, crashes>>

LoadSize(t) ==
  /\ AddAt(t, "size")
  /\ add' = [add EXCEPT ![t].at = "bump", ![t].idx = size]
  /\ UNCHANGED <<cart, session, confirm, held, db, crashes>>

BumpSize(t) ==
  /\ AddAt(t, "bump")
  /\ size' = add[t].idx + 1
  /\ add' = [add EXCEPT ![t].at = "store"]
  /\ UNCHANGED <<data, slots, copies, session, confirm, held, db, crashes>>

\* The call is over; of its local state only the mark is kept.
Left(t, label) == [at |-> label, array |-> None, idx |-> 0, raced |-> add[t].raced]

\* The element is stored in the array that was read, which another add may have
\* replaced, or be copying.  In a race it may be past that array's end, which
\* throws, and size may not fit the list that is printed.
StoreElement(t) ==
  /\ AddAt(t, "store")
  /\ \/ /\ \E seen \in SUBSET {u \in DOMAIN copies : add[u].array = add[t].array} :
              copies' = [u \in DOMAIN copies |->
                IF u \in seen THEN Insert(copies[u], add[t].idx, t) ELSE copies[u]]
        /\ slots' = IF add[t].array = data THEN Insert(slots, add[t].idx, t) ELSE slots
        /\ add' = [add EXCEPT ![t] = Left(t, IF add[t].raced THEN "shaken" ELSE "print")]
     \/ /\ add[t].raced
        /\ add' = [add EXCEPT ![t] = Left(t, "failed")]
        /\ UNCHANGED <<slots, copies>>
  /\ UNCHANGED <<size, data, session, confirm, held, db, crashes>>

Reply(t) ==
  /\ \/ AddAt(t, "print") /\ add' = [add EXCEPT ![t].at = "ok"]
     \/ /\ AddAt(t, "shaken")
        /\ \E label \in {"ok", "failed"} : add' = [add EXCEPT ![t].at = label]
  /\ UNCHANGED <<cart, session, confirm, held, db, crashes>>

-----------------------------------------------------------------------------
(* The session.                                                            *)

\* NewServlet, for a store representative; nobody logs out, so the session may
\* be of another store already, and a Confirm_Cart of it may be running.
HeldAfter(u, s) == [c \in Confirms |->
  IF (ConfirmAt(c, "sum") \/ ConfirmAt(c, "store")) /\ confirm[c].user = u
    THEN held[c] \cup {s} ELSE held[c]]
LoginEverywhere(u) ==    \* mutant: one store id for all, as there is one cart
  /\ \E s \in Stores : /\ session' = [v \in Users |-> [session[v] EXCEPT !.store = s]]
                       /\ held' = HeldAfter(u, s)
  /\ UNCHANGED <<cart, add, confirm, db, crashes>>
Login(u) ==
  /\ \E s \in Stores : /\ session' = [session EXCEPT ![u].store = s]
                       /\ held' = HeldAfter(u, s)
  /\ UNCHANGED <<cart, add, confirm, db, crashes>>

\* AddItem, any other action; the line that would empty the list is commented
\* out.
ViewAndClear(u) ==    \* mutant
  /\ session' = [session EXCEPT ![u].cart = TRUE]
  /\ size' = 0 /\ slots' = Nothing
  /\ UNCHANGED <<data, copies, add, confirm, held, db, crashes>>
ViewCart(u) ==
  /\ session' = [session EXCEPT ![u].cart = TRUE]
  /\ UNCHANGED <<cart, add, confirm, held, db, crashes>>

\* The container ends a session after 30 idle minutes.
Expire(u) ==
  /\ \A c \in DOMAIN confirm :
       confirm[c].user = u => confirm[c].at \notin Confirming
  /\ session' = [session EXCEPT ![u] = NoSession]
  /\ UNCHANGED <<cart, add, confirm, held, db, crashes>>

-----------------------------------------------------------------------------
(* Confirm_Cart.                                                           *)

Step(c, row) == confirm' = [confirm EXCEPT ![c] = row]
End(c, label) == confirm' = [confirm EXCEPT ![c].at = label]

\* No cart attribute is a null pointer, before anything is written.
Begin(c) ==
  /\ c \notin DOMAIN confirm
  /\ \E u \in Users :
       /\ confirm' = Insert(confirm, c,
            [at |-> IF session[u].cart THEN "sum" ELSE "void", user |-> u,
             i |-> 0, total |-> 0, counted |-> 0, store |-> None, last |-> 0,
             order |-> 0, life |-> crashes])
       /\ held' = [held EXCEPT ![c] = {session[u].store} \ {None}]
  /\ UNCHANGED <<cart, add, session, db, crashes>>

PriceOnly(t) == Price[t]           \* mutant
AmountOf(t)  == Qty[t] * Price[t]

\* One turn of the loop that adds up the total; a null element throws.
SumSkippingNulls(c) ==    \* mutant
  /\ ConfirmAt(c, "sum")
  /\ LET f == confirm[c]
     IN  Step(c, IF f.i >= size THEN [f EXCEPT !.at = "store", !.counted = f.i]
                 ELSE [f EXCEPT !.i = @ + 1])
  /\ UNCHANGED <<cart, add, session, held, db, crashes>>
SumEntry(c) ==
  /\ ConfirmAt(c, "sum")
  /\ LET f == confirm[c]
     IN  \/ f.i >= size /\ Step(c, [f EXCEPT !.at = "store", !.counted = f.i])
         \/ f.i < size /\ f.i \notin DOMAIN slots /\ End(c, "void")
         \/ /\ f.i < size /\ f.i \in DOMAIN slots
            /\ Step(c, [f EXCEPT !.i = @ + 1,
                                 !.total = JavaInt(@ + AmountOf(slots[f.i]))])
  /\ UNCHANGED <<cart, add, session, held, db, crashes>>

\* The store is taken from the session, which throws if there is none.
ReadStore(c) ==
  /\ ConfirmAt(c, "store")
  /\ LET s == session[confirm[c].user].store
     IN  IF s = None THEN End(c, "void")
         ELSE Step(c, [confirm[c] EXCEPT !.at = "place", !.store = s])
  /\ UNCHANGED <<cart, add, session, held, db, crashes>>

\* The order row.
PlaceOrder(c) ==
  /\ ConfirmAt(c, "place")
  /\ LET f == confirm[c]
         o == Cardinality(DOMAIN orders) + 1
     IN  /\ orders' = Insert(orders, o, [store |-> f.store, total |-> f.total])
         /\ Step(c, [f EXCEPT !.at = "id", !.last = o, !.i = 0])
  /\ UNCHANGED <<cart, add, session, held, items, crashes>>

\* SELECT LAST_INSERT_ID() answers for the connection it is asked on.
NewestOrder(c)  == Cardinality(DOMAIN orders)    \* mutant
LastInsertId(c) == confirm[c].last

TakeId(c) ==
  /\ ConfirmAt(c, "id")
  /\ Step(c, [confirm[c] EXCEPT !.at = "lines", !.order = LastInsertId(c)])
  /\ UNCHANGED <<cart, add, session, held, db, crashes>>

\* One turn of the loop that inserts the lines.  It asks for the size again, so
\* an element that was added since the total was taken becomes a line too.
LineRowSwapped(c) == [order |-> confirm[c].i, idx |-> confirm[c].order,
                      add |-> slots[confirm[c].i]]    \* mutant
LineRow(c) == [order |-> confirm[c].order, idx |-> confirm[c].i,
               add |-> slots[confirm[c].i]]
InsertLine(c) ==
  /\ ConfirmAt(c, "lines")
  /\ LET f == confirm[c]
     IN  \/ f.i >= size /\ End(c, "done") /\ UNCHANGED items
         \/ f.i < size /\ f.i \notin DOMAIN slots /\ End(c, "partial") /\ UNCHANGED items
         \/ /\ f.i < size /\ f.i \in DOMAIN slots
            /\ HasRoom(items, RowIds)
            /\ items' = Insert(items, FreshKey(items, RowIds), LineRow(c))
            /\ Step(c, [f EXCEPT !.i = @ + 1])
  /\ UNCHANGED <<cart, add, session, held, orders, crashes>>

\* How a Confirm_Cart ends that is cut off before its statement at label.
Cut(label) == IF label \in {"sum", "store", "place"} THEN "void" ELSE "partial"

\* Any exception is printed and swallowed; what was inserted stays.
Stop(c) ==
  /\ c \in DOMAIN confirm
  /\ confirm[c].at \in Confirming
  /\ End(c, Cut(confirm[c].at))
  /\ UNCHANGED <<cart, add, session, held, db, crashes>>

\* The container is killed and started again.  Cart and sessions are only in
\* its memory; the tables are not, and no handler looks for what it left there.
Crash ==
  /\ crashes < MaxCrashes
  /\ crashes' = crashes + 1
  /\ size' = 0 /\ data' = None /\ slots' = Nothing /\ copies' = Nothing
  /\ session' = [u \in Users |-> NoSession]
  /\ add' = [t \in DOMAIN add |->
               IF add[t].at \in {"ok", "failed"} THEN add[t] ELSE Left(t, "failed")]
  /\ confirm' = [c \in DOMAIN confirm |->
                   IF confirm[c].at \in Confirming
                     THEN [confirm[c] EXCEPT !.at = Cut(@)] ELSE confirm[c]]
  /\ UNCHANGED <<held, db>>

-----------------------------------------------------------------------------
AddItem(t) == Enter(t) \/ Copy(t) \/ Install(t) \/ LoadArray(t) \/ LoadSize(t)
                \/ BumpSize(t) \/ StoreElement(t) \/ Reply(t)
Run(c)     == SumEntry(c) \/ ReadStore(c) \/ PlaceOrder(c) \/ TakeId(c) \/ InsertLine(c)

Next ==
  \/ \E t \in Adds : AddItem(t)
  \/ \E u \in Users : Login(u) \/ ViewCart(u) \/ Expire(u)
  \/ \E c \in Confirms : Begin(c) \/ Run(c) \/ Stop(c)
  \/ Crash

Spec == Init /\ [][Next]_vars

-----------------------------------------------------------------------------
(***************************************************************************)
(* Properties.                                                             *)
(***************************************************************************)

\* Types of the columns, of the session's attributes and of the local state.
TypeOK ==
  /\ size \in Nat /\ data \in Adds \cup {None}
  /\ IsTable(slots, Nat, Adds)
  /\ DOMAIN copies = {t \in DOMAIN add : add[t].at = "install"}
  /\ \A t \in DOMAIN copies : IsTable(copies[t], Nat, Adds)
  /\ IsTable(add, Adds, AddState)
  /\ session \in [Users -> [store: Stores \cup {None}, cart: BOOLEAN]]
  /\ held \in [Confirms -> SUBSET Stores]
  /\ IsTable(confirm, Confirms, ConfirmState)
  /\ IsTable(orders, Nat \ {0}, [store: Stores, total: Int])
  /\ IsTable(items, RowIds, [order: Nat \ {0}, idx: Nat, add: Adds])
  /\ crashes \in 0 .. MaxCrashes

LinesOf(o) == {k \in DOMAIN items : items[k].order = o}

\* The lines of an order are those its own Confirm_Cart inserted, one for each
\* place of the cart it has passed: threads that place orders at the same time
\* never file a line under each other's order, and no two use the same id.
OwnLines ==
  \A c \in DOMAIN confirm :
    LET f == confirm[c]
    IN  f.last # 0 =>
          /\ {items[k].idx : k \in LinesOf(f.last)}
               = IF f.order = 0 THEN {} ELSE 0 .. f.i - 1
          /\ Cardinality(LinesOf(f.last)) = IF f.order = 0 THEN 0 ELSE f.i
          /\ \A d \in DOMAIN confirm \ {c} : confirm[d].last # f.last

Unraced == \A t \in DOMAIN add : ~add[t].raced

\* If no two adds overlapped, an order placed in full has the total of its
\* first lines, as many as the cart had when it was added up, in int
\* arithmetic: lines that arrived later are shipped but not charged.
TotalCountsFirstLines ==
  Unraced => \A c \in DOMAIN confirm : confirm[c].at = "done" =>
    LET f == confirm[c]
        first == {k \in LinesOf(f.order) : items[k].idx < f.counted}
    IN  /\ Cardinality(first) = f.counted
        /\ orders[f.order].total =
             JavaInt(SumFunction([k \in first |-> Qty[items[k].add] * Price[items[k].add]]))

\* If no two adds overlapped, two orders placed in full, with no crash between
\* them, agree on the lines they both have: every store orders the one cart
\* from its beginning, whoever filled it, and so repeats what was ordered before.
OrdersShareTheCart ==
  Unraced => \A c, d \in DOMAIN confirm :
    confirm[c].at = "done" /\ confirm[d].at = "done" /\ confirm[c].life = confirm[d].life =>
      \A k \in LinesOf(confirm[c].order), l \in LinesOf(confirm[d].order) :
        items[k].idx = items[l].idx => items[k].add = items[l].add

\* Orders and cart as OrderBook sees them: an overlap of two adds spoils the
\* cart for good, and an order is open while its Confirm_Cart runs.
SharedCart  == IF Unraced THEN slots ELSE Nothing
PlacesOf(o) == {items[k].idx : k \in LinesOf(o)}
LineAt(o, n) == items[CHOOSE k \in DOMAIN items : items[k].order = o /\ items[k].idx = n]
BookLines   == [o \in DOMAIN orders |-> [n \in PlacesOf(o) |-> LineAt(o, n).add]]
OpenOrders  == {confirm[c].last : c \in {d \in DOMAIN confirm : confirm[d].at \in {"id", "lines"}}}
CostOf(list) == JavaInt(SumFunction([n \in DOMAIN list |-> Qty[list[n]] * Price[list[n]]]))

Book == INSTANCE OrderBook
          WITH Elements <- Adds, Totals <- -(MaxInt + 1) .. MaxInt, Cost <- CostOf,
               cart <- SharedCart, sound <- Unraced, lines <- BookLines, open <- OpenOrders

\* Racing adds, growing carts, failures and restarts notwithstanding, an order
\* is what OrderBook says: charged for a prefix of the cart of its moment, with
\* lines that repeat one cart in order and are never taken back or mixed up.
FollowsBook == Book!Spec

\* The store of an order is one that the session of its Confirm_Cart was of
\* while that walked the cart: a login in the same session moves the order to
\* another store until the store is read, though not after that, and one in
\* another session never does, though the cart itself is everybody's.
OrdersStayInTheSession ==
  \A c \in DOMAIN confirm : confirm[c].last # 0 =>
    orders[confirm[c].last].store \in held[c]

\* A null in the cart that no running add can fill any more: one that has read
\* the size stores behind it, and no array that is still to be installed has an
\* element there.
DeadSlot(n) ==
  /\ n < size /\ n \notin DOMAIN slots
  /\ \A t \in DOMAIN add : AddAt(t, "bump") \/ AddAt(t, "store") => add[t].idx > n
  /\ \A t \in DOMAIN copies : n \notin DOMAIN copies[t]

\* Such a null is there until the container is restarted, whatever adds come and
\* race after it, and every Confirm_Cart that has not passed it ends without an
\* order: until then nobody can order.
DeadSlotBlocksOrders ==
  [][\A n \in 0 .. size - 1 : DeadSlot(n) =>
       /\ DeadSlot(n)' \/ crashes' # crashes
       /\ \A c \in DOMAIN confirm :
            ConfirmAt(c, "sum") /\ confirm[c].i <= n =>
              \/ confirm'[c].at = "sum" /\ confirm'[c].i <= n
              \/ confirm'[c].at = "void"]_vars

\* What AddItem tells its user, "Item added Successfully!!": the item is in
\* the cart.
AddedIsInCart ==
  \A t \in DOMAIN add : add[t].at = "ok" =>
    \E n \in 0 .. size - 1 : n \in DOMAIN slots /\ slots[n] = t

\* The column that viewOrder.jsp heads "Price(per unit in $)" shows what
\* viewOrder puts into price, the fourth column of the join.
ShownPrice(k) == orders[items[k].order].total
ViewShowsUnitPrice ==
  \A k \in DOMAIN items : ShownPrice(k) = Price[items[k].add]
=============================================================================
