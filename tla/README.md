# Retail management: a verification development

`src/WebApplication1` is a Java servlet and JSP application over a MySQL database: store
representatives order goods, warehouse managers ship them, and purchase managers buy what the
warehouses ran out of.  This directory holds TLA+ modules of it, the TLC configurations that check
them, and proofs of their main properties for every value of the constants.

There is no transaction, no lock and no constraint in the program: every statement is committed on
its own, exceptions are printed and swallowed, and one Java list is shared by all users.  What is
hard about it is therefore almost all in *what a few statements of several requests may leave behind*,
and that is what the modules are about.

## 1. The system

Paths are relative to `src/WebApplication1/`; servlets are in `src/java/`, their row classes in
`src/java/com/sore/model/`, pages in `web/`.

| Component | State it keeps | Operations | Talks to |
|---|---|---|---|
| Login (`NewServlet`) | session: `store_id` | look up a user, set the session, pick a page by designation | `store`, `users` tables |
| Shared cart (`AddItem`) | servlet field `cart`, an `ArrayList`; session: `cart` | append an item, show the cart | `Confirm_Cart`, through the session |
| Order placement (`Confirm_Cart`) | `store_order`, `store_order_item` | total the cart, insert the order, ask for its id, insert its lines | the live list |
| Order and catalogue pages (`StoreHomeList`, `viewOrder`, `*.jsp`) | none | listings | all order tables |
| Shipping (`updateOrders.jsp`, `executeQuery`) | `warehouse_stock`, `store_order_item`, `store_order`, `warehouse_order` | five statements: take from stock, credit the line, complete the order, look at the stock, ask for more | order editing, purchasing |
| Order editing (`UpdateOrder`, `DeleteOrder`) | `store_order_item`, `store_order` | set a quantity; delete the lines, then the order | shipping |
| Warehouse pages (`Warehouse`, `WarehouseOrder`) | none | listings | stock and order tables |
| Purchasing (`pom.jsp`, `InsertPom`, `Pom.insertPurchase`) | `purchase_order`, `purchase_order_item`, `warehouse_order` | four statements: insert an order, insert a line for `MAX(po_id)`, fill that line in, delete the requests | shipping |
| Database (MySQL `retail1`) | the tables | one autocommitted statement at a time | everything |
| Database connections (all servlets and two pages) | the connections of the MySQL server | open, close or not, include a page that opens another | driver's cleanup thread |
| Vendored code (`lib/`) | – | JDBC driver sources, jars, and a tree of C and C++ headers and run-time sources of two TI compilers, which no build file or class of the application refers to | – |

The components meet in three places: the **list** that `AddItem` appends to while `Confirm_Cart` walks it,
the **order tables** that `executeQuery` credits while `UpdateOrder` and `DeleteOrder` change them, and
**`warehouse_order`**, which `executeQuery` fills and `insertPurchase` empties.

### What is hard

* *Interleaving*: two requests of any kind run between any two statements of a third. `ArrayList.add`
  races with itself. The id of a purchase order is looked up by `MAX`.
* *Partial failure*: each handler may throw after any statement, and nothing is undone.
* *Stale state*: quantities, orders and rows come from forms shown earlier; the session holds a live list.
* *Ordering*: `DeleteOrder` deletes lines before the order; `executeQuery` takes stock before it knows
  whether a line matches.
* *Resources*: every try block opens a connection of its own, half of them never close it, and some hold one while an
  included page asks for another.
* *Numbers*: quantities are parsed from text and may be negative; totals are 32-bit; a shelf is reported
  when it is `== 0`, not when it is below.
* *Crash*: the cart and the sessions are only in the container's memory, the tables are not; nothing that starts
  up looks for what a killed request left in them.
* *Configuration*: everything connects as `root`, but `insertPurchase` and the list of requests in `pom.jsp` give another
  password than the rest.

`PROJECT.json` lists these hazards line by line, each with the properties that would notice it go wrong.
The program never retries; a user who posts a page twice does.

### What makes each component correct

* Cart: an item that was acknowledged is in the list; a broken list does not go unnoticed.
* Placement: the lines of an order are its own, its total counts lines it has.
* Shipping: stock and lines account for every shipment; an empty shelf reaches purchasing; "Complete" is
  earned.
* Editing: no line without its order; an order only moves forward in its life.
* Session: an order is of a store that was logged in to the session that placed it.
* Purchasing: no order's requests vanish before something was bought for the order; a purchase order asks for what its request asked for;
  nothing is bought that no warehouse shipped.

## 2. The modules

| Module | What it is |
|---|---|
| `Table` | A table as a function from row keys to rows; `Insert`, `Delete`, fresh keys |
| `Fulfilment` | `executeQuery`, `updateOrders.jsp`, `UpdateOrder`, `DeleteOrder` over the order and stock tables |
| `OrderLifecycle` | The abstract life of an order, implemented by `Fulfilment` and by `Retail` |
| `Purchasing` | `pom.jsp`, `InsertPom`, `Pom.insertPurchase` |
| `Procurement` | The abstract contract of purchasing, implemented by `Purchasing` |
| `Checkout` | `AddItem`, `Confirm_Cart`, the session, a crash of the container |
| `OrderBook` | The abstract contract of ordering, implemented by `Checkout` |
| `Connections` | The database connections of all servlets and pages |
| `Retail` | `Confirm_Cart`, `Fulfilment` and `Purchasing` over the same tables, and the two passwords |
| `MCFulfilment`, `MCPurchasing`, `MCConnections`, `MCCheckout`, `MCRetail` | Instances for TLC |
| `TableProofs`, `SumProofs` | Proofs about tables, and about sums over finite sets |
| `FulfilmentProofs`, `PurchasingProofs`, `ConnectionsProofs`, `CheckoutProofs`, `RetailProofs` | Proofs about the modules of these names |
| `OrderBookProofs` | Proof that `Checkout` implements `OrderBook` |

`PROJECT.json` maps each definition to the lines it translates. Definitions marked `\* mutant` are
plausible mistakes that the checks must notice; they are used nowhere.

**How a handler becomes actions.** A request is an element of a constant set (`Requests`, `Clicks`, `Adds`,
`Confirms`) and is served once. Each SQL statement, and each turn of a loop over the cart, is one action.
A variable (`req`, `buy`, `add`, `confirm`) maps the requests that have arrived to a record: `at` names the
statement the request runs next, or how it ended, and the other fields are the handler's local variables.
`Stop`/`StopEarly` is any exception: a lost connection, a parse error, a refused statement.

### Fulfilment

`OpenForm` is a row of `updateOrders.jsp`, with the quantity it shows. `Debit`, `Credit`, `MarkComplete`,
`CheckStock`, `Reorder` are `executeQuery`'s five statements in order; `Debit` takes the item from *every*
warehouse that stocks it, because the update names none, and an update that matches no row ends the handler
with what was written so far. `UpdateOrder` and `DeleteLines`/`DropOrder` take ids typed by hand, so
they range over all orders in any state. `raised` is a history variable: the orders with a line whose quantity
ever went up.

The initial tables are constants: orders as `Confirm_Cart` leaves them, with any number of lines (an empty
cart makes an order without lines).

### OrderLifecycle

An order is open (being placed), placed, complete, empty (without lines) or gone. Nothing is promised of an open
one. Once settled it is completed at most once; it loses all lines at one time and never gains one; an empty order is
never completed; it goes away only when empty. `FollowsLifecycle` maps tables to these phases: in `Fulfilment` no
order is open, in `Retail` one is until `Confirm_Cart` is through with it.

### Purchasing

`ShowPage` picks the row that the page's *first* hidden field `updateList` holds: the page repeats the field and
`InsertPom` reads the first. `WrongBox` is a ticked box beyond that list, or none. `PlacePurchase`,
`InsertLine`, `FillLine`, `ClearRequests` are the statements of `insertPurchase`. `Arrive` is `executeQuery`'s last
statement, from any warehouse at any time. `alone` is history: no other click was between these statements
meanwhile.

### Procurement

An order is wanted or not, and was bought for some number of times. `Buy` needs it to be wanted or to have been bought
for before, `Settle` needs it to have been bought for. `Purchasing!FollowsProcurement` takes `wanted` to be the orders with a
row in `warehouse_order` and counts purchase orders. Buying once is not promised: it is not what the code does.

### Connections

`Code` says of each try block whether it ends in `con.close()` and which blocks it may include before; a request is a
stack of them (`run`). `Connect` and `Refuse` are `DriverManager.getConnection` of the next block: a refusal is caught by
that block, and the one around it goes on. `Leave` ends a block, `Throw` is any exception in it, both may make the
connection one that no code can close (`lost`). `Cleanup` is the driver's `AbandonedConnectionCleanupThread`, which closes
connections once the garbage collector has found them; that need never happen.

### Checkout

`ArrayList.add` of JDK 8 (`nbproject/project.properties` compiles for 1.8) makes room for one more, then runs
`elementData[size++] = e`. `Enter` begins a call and marks the adds it overlaps. If the backing array is full, `Copy` fills a longer one
from it and `Install` puts that in its place, whatever array is there by then; then the array is read (`LoadArray`), the size
is read (`LoadSize`) and written (`BumpSize`), and the element is stored in the array that was read (`StoreElement`). So an add can lose
its own element, which goes to an array that has been replaced, or others' elements, by installing an array that was filled before they were stored,
or bring one back. `data` names the array in use for the add that made it, `slots` is what is in it, and `copies` are the arrays still to be
installed. An element stored in an array that is being copied may be in the copy or not (`seen`).

How long the arrays are is abstracted: any add may find the array full or not. In a race the length may be computed
from one array and the elements copied from another, so a copy may lack the end (`Prefixes`), and a store may be past the end
and throw. `println(cart)` iterates, and may throw a `ConcurrentModificationException` if an add began meanwhile, or a
`size` that the array does not hold (`shaken`). The order of the plain memory accesses is taken as the program's order.

`SumEntry`, `ReadStore`, `PlaceOrder`, `TakeId`, `InsertLine` are `Confirm_Cart`: each turn of a loop, the reading of `store_id` from the
session, and each statement; a hole in the list throws. A turn asks the list for its element twice; that a racing add replaces it between the two
is not modelled, and nothing is promised of totals then. `JavaInt` wraps the total at `MaxInt`.

`cart` of the session is a Boolean because there is only one list it can refer to. A session does not expire
during its own request, but a `Login` of another store in it may come at any moment, also between the reading of the store and the insert.
`held` is history: the stores the session of a `Confirm_Cart` was of, from its beginning until it has read one.

`Crash` kills the container: the list and the sessions are gone, requests under way are cut off where they are (`Cut`), and
the tables keep what was written. `life` is history: the crashes before a confirm began.

### OrderBook

A cart, orders with a store and a total, and the lines of each. `Place` charges a new order for *some* prefix of the cart as it is at
that moment, `AddLine` adds the next place of the cart to an open order: so an order may get more lines than it was charged
for, when the cart grew between the two loops of `Confirm_Cart`, and stop short of them, when a statement failed. Store, total and
lines never change, and no line is added once the order is closed, by the end of the loop, an exception or a restart. `Overlap` says
how far the contract goes: once two adds have raced it promises nothing of the cart, of what a line holds or of what an order costs.
That ids are consecutive, places have no gap, and no line goes to another's order is still promised.

`Checkout!FollowsBook` takes an order to be open while its request has its id and may still insert lines; `Cost` is the amount of a list, wrapped to an int.
Nothing here speaks of sessions: whose order it is, is `OrdersStayInTheSession`.

### Retail

`F` and `P` are instances of `Fulfilment` and `Purchasing` over one set of variables; the order tables begin empty and
`PlaceOrder`/`InsertLine` fill them. `Fulfil(r)` is a step of `Fulfilment`, of which `Reorder` is also what
`Purchasing` calls `Arrive`; `Purchase(c)` is a step of a click. `accepted` is the set of passwords the server takes for `root`,
chosen once: without the one a component gives, it does nothing. `lastOrder` is MySQL's auto-increment: the id of a
deleted order is not used again. `overtaken` is history: a line was inserted for an order whose deletion was past its first statement.

Left to `Checkout`: the race in `ArrayList.add` (the cart is a fixed sequence of which `size` items have been added),
the session, and a crash. The total is taken in the same step that inserts the order, and the id is asked for there too, which
`OwnLines` justifies.

## 3. What is checked

Requests are bounded by the constant sets, a table by `RowIds`, crashes by `MaxCrashes`, the orders of `Retail` by `MaxOrder`;
nothing else is cut off. `Shippable` (-3 to 3) is no bound: it only lists, for the types of `Purchasing`, what quantities a
shipment can have. All instances have `CHECK_DEADLOCK FALSE`: the program really is at rest once all requests are served.

| Run | Instance | Shows |
|---|---|---|
| `fulfilment_safety` | 3 requests, 3 orders, 3 items (one that nobody stocks, one twice in an order), one warehouse for both stores and another that stocks the same item, quantities -1, 1, 2; 76 thousand states | `TypeOK`, `ZeroStockReported`, `CompleteIsEarned`, `NoOrphanLines`, `StockLedger`, `OrderLedger` |
| `fulfilment_lifecycle` | 2 requests, fairness; 5 thousand | refinement of `OrderLifecycle`; every request ends; an empty shelf is reported, refilled or excused |
| `fulfilment_active` | as above | *violated*: completed orders are edited |
| `purchasing_safety` | 3 clicks, 3 rows per table, 2 orders, 2 items; 2.6 million | `TypeOK`, `NoRequestVanishes`, `AlonePurchaseMatches`, `NewestIsFilled`, `OldLinesAreFinal`, refinement of `Procurement` |
| `checkout_safety` | 2 adds, 2 confirms, 1 user, 1 crash, overflow at 3; 3.4 million | `TypeOK`, `OwnLines`, `TotalCountsFirstLines`, `OrdersShareTheCart`, refinement of `OrderBook` |
| `checkout_session` | 1 add, 2 confirms, 2 users, 2 stores; 0.7 million | `OrdersStayInTheSession` |
| `checkout_poison` | 3 adds, 1 confirm, 1 crash; 3.3 million | `DeadSlotBlocksOrders` |
| `checkout_reply` | 2 adds | *violated*: an acknowledged item is not in the cart |
| `checkout_view` | 2 adds, 1 confirm | *violated*: the column "Price(per unit in $)" shows the order's total |
| `connections_sizing` | 2 requests of any page, 4 connections, fairness; 4 thousand | `TypeOK`, `StoresLoseNothing`, `TwoEachSuffice`; every page ends, though it holds one connection and asks for another |
| `retail_safety` | 1 confirm, 3 requests, 1 click, 2 items, every set of passwords; 0.6 million | `TypeOK`, `OrphansAreCutShort`; refinement of `OrderLifecycle` and of `Purchasing` |
| `retail_orders` | 2 confirms, 2 requests, 1 click, 2 orders, 2 items; 4 million | `ZeroReachesPurchasing`, `PurchasesComeFromShipments` |

**Why the bounds are enough.** The programs have no counters that matter beyond two: a hazard needs one
request between two statements of another, and a third to observe or to repeat it. Three requests of
any kind include two shipments of one item and a delete, two edits around a shipment, and so on. Quantities 1
and 2 on shelves of 1 and 2 empty a shelf, overshoot it, and complete a line from either side; negative
ones refill. `purchasing_safety` has three clicks because the newest, the overtaken and the one
between them behave differently. In `checkout_poison` three adds are needed: two leave a slot
null by their race, and the third fills it again from an older copy, or installs the array that empties it, or comes after both. With `MaxInt = 3` the amounts 6 and 2
overflow the total, and TLC can enumerate the totals that `OrderBook` allows. `checkout_safety` has one user, whose two requests walk the list as those of two
would: a session only says whether there is a cart and whose order it is, which `checkout_session` checks with two users.
In `checkout_session` one item is enough,
as its property is about whose order it is; logins, views and timeouts are not bounded at all. One crash has a life before and a
life after it. In `connections_sizing` connections that are lost make the server full with any number of requests.
`retail_safety` needs three requests for an order to be shipped, deleted and something else, while its one confirm is under way;
`retail_orders` needs two orders that compete for the single piece of each item.
Each property is broken by at least one mutant of the code.

**Symmetry** is used on requests, clicks, confirms, orders and items where no constant tells them apart, and only where
a run checks invariants and properties of single steps, all of which are symmetric; never with fairness.

**Fairness.** `FairSpec` assumes weak fairness of what the container's thread does by itself once a request runs:
`Proceed(r)` in `Fulfilment`, and the next step of a page in `Connections`. The threads take no lock, so an enabled statement is run in the end. Nothing
is assumed of users: forms may never be submitted, warehouses may never ask again. `Stop` is never fair. `Checkout` has no fairness: whether
`Confirm_Cart` ends depends on other users' adds, which may raise the size its loops compare with for ever. A run with a few adds would
hide that, so no run asks it.

### The properties

* `ZeroStockReported`, `ZeroStockEventuallyReported`: `executeQuery` takes stock in its first statement and looks at
  it in its fourth. Two shipments may both look after both have taken. What saves the report is that the *last* to
  look sees the final value; the property lists the only excuses, a request under way or one that failed.
  It is stated for a warehouse that serves all stores: with several, the update empties shelves that
  nobody looks at.
* `StockLedger`, `OrderLedger`: shelves and lines account exactly for the shipments that passed the first and the second
  statement, also with duplicate lines, negative quantities and failures. The two ledgers differ by the
  shipments that were *lost* between: stock taken and never credited.
* `CompleteIsEarned`: an edit or a delete between the credit and the completion cannot complete an order that has
  everything left to ship, except through a raised line.
* `NoOrphanLines`: rests on the order of `DeleteOrder`'s statements.
* `AlonePurchaseMatches`, `NewestIsFilled`, `OldLinesAreFinal`: what remains true of a lookup by `MAX`. A click that
  nobody overlapped buys what it should and keeps it; the newest order never ends up without an item; an
  older line never changes. Overlapped clicks do write each other's lines.
* `NoRequestVanishes`: although all requests of an order are deleted when one is bought, for whatever item and also ones that arrived after the
  page was shown, the order has a purchase order by then. It speaks of orders, not of items: requests for the order's other items are
  dropped without being bought.
* `FollowsProcurement`: a page that was posted twice, or is stale, buys again; what can be relied on is that a purchase
  order is only ever for an order a warehouse had asked for, and requests go only when one exists.
* `StoresLoseNothing`, `TwoEachSuffice`, `PagesEnd`: how many connections are needed, who loses them, and that pages end though they nest. As the
  code never waits for a connection, a full server refuses and cannot block. The bound is tight: nesting is two deep.
* `OwnLines`: the second statement that asks for the new id is safe, as each handler asks on its own connection.
* `TotalCountsFirstLines`, `OrdersShareTheCart`: what an order means when the list is shared, growing, and never
  emptied. Unless adds raced, an order charges for a prefix of its lines, and any two orders have a common prefix,
  unless the container was killed between them.
* `FollowsBook`: the same as a contract of single steps. It adds to the two before that what was written stays: no order or line is ever
  changed, an order's lines come in the cart's order, and none comes after its request ended.
* `OrdersStayInTheSession`: `Confirm_Cart` reads the store after it has walked the cart, and nobody logs out. An order
  can be filed under a store that logged in to the same session while the cart was being walked, also when a third store logs in before the insert;
  never under one that came only after the reading, nor under one of another session.
* `DeadSlotBlocksOrders`: a race can leave a null below `size`. While an add is still to store there, or an array still to be installed has an
  element there, it may be filled again. Once neither is so it stays, and no order can be placed past it, until the container is killed:
  whatever arrays later adds copy and install have the null too.
* `OrphansAreCutShort`: `NoOrphanLines` does not survive composition: a delete by a typed id may come between an order and its
  lines. The property says that this is the only way.
* `Retail!FollowsLifecycle`, `PurchasingIsUndisturbed`: orders that appear while others are shipped and deleted keep to
  `OrderLifecycle`, and to purchasing the rest is what `Purchasing` assumes, so its properties hold in the whole.
* `ZeroReachesPurchasing`, `PurchasesComeFromShipments`: the chain from a shelf to a purchase and back. An
  empty shelf waits as a request, is under way, failed, or its order was bought for (perhaps for another item only, as
  all requests of the order are dropped). Each purchase order and each filled line goes back to a finished shipment.

**What the properties accept.** Some of them state a questionable behaviour of the code as the rule, and would not notice it as a fault:
orders repeat the shared cart (`AddItem.java:59`), in `OrdersShareTheCart` and `FollowsBook`; shipments take stock that
no line gets, lines and shelves go below zero, and every warehouse is debited (`executeQuery.java:67`, `:60`, `:59`), in the two ledgers; requests for the order's other items
are dropped unbought (`Pom.java:39`) and the same request is bought twice (`InsertPom.java:61`), in `NoRequestVanishes`, `ZeroReachesPurchasing` and
`FollowsProcurement`; staff pages leave connections open (`executeQuery.java:58`), in `StoresLoseNothing` and `TwoEachSuffice`.

## 4. What disagrees with the code

* `fulfilment_active`: `store_rep.jsp:86` and `manageStoreOrders.jsp:38` call the pages those of *active* orders;
  `UpdateOrder` edits any order.
* `checkout_reply`: `AddItem.java:54` says "Item added Successfully!!" although the element is lost to a racing add: stored over, or left behind in an array that was replaced.
* `checkout_view`: `viewOrder.java:60` reads `total_price` for the column that `viewOrder.jsp:74` heads "Price(per unit in $)".

## 5. What is proved

With TLAPS, for every value of the constants that satisfies the modules' assumptions: any numbers of requests, clicks, orders,
items and quantities, where the runs have two or three. Every invariant and every property of single steps that a passing run
checks is proved; so are the five refinements.

**Assumptions.**

* `FulfilmentAssumption`: the initial tables are tables, no order in them is complete yet, their lines have orders, and the stores'
  warehouses and quantities are of their types.
* `PurchasingAssumption`: NULL is no item and no quantity.
* `ConnectionsAssumption`: finitely many requests, so that their connections can be counted; the limit is a number, the visits are pages.
* `CheckoutAssumption`: quantities, prices and the bounds are numbers, and `None`, which stands for a session's missing store and names the first array, is no store and no add.
* `RetailAssumption`: the same of the composition.
* `PurchasingStandsAlone` and `RetailProofs!TypeCorrect` have the hypothesis `Shippable = Int`. `Shippable` is the set in which TLC looks for
  the quantities of a shipment, which the types of `Purchasing` mention; nothing in the code bounds them. All other theorems about
  `Retail` hold without it, as their proofs use the instance `PP` of `PurchasingProofs` at `Int`.

**`PurchasingProofs`**

| Theorem | States | Argument |
|---|---|---|
| `TypeCorrect` | `[]TypeOK` | not inductive: a line takes its `po_id` from `MAX`, so an order must exist. Strengthened by `Numbered` (the ids are 1 to n) and `Placed` (a click past the first statement has a purchase order for its row's order) |
| `RequestsAreKept` | `[]NoRequestVanishes` | from `Placed`: the order whose requests are dropped has a purchase order |
| `ImplementsProcurement` | `FollowsProcurement` | each step is a step of `Procurement` or changes neither `wanted` nor the counts. Strengthened by `RowsAsked`: the row a click took from its page is of an order that was once asked for; by `NoRequestVanishes` such an order is still wanted, or was bought for |
| `AloneBuysItsRow` | `[]AlonePurchaseMatches` | `AloneIsNewest`: while an alone click runs, `MAX(po_id)` is its own order. `Ahead`: no click that runs after it has an id as low, so none can write its lines again. `AloneLines` follows its one line from statement to statement |
| `NewestHasItem` | `[]NewestIsFilled` | `NewestLine`: when the click of the newest order comes to fill in, the order has a line; and the fill sets all lines of it |
| `OvertakenLinesStay` | `OldLinesAreFinal` | a line is only ever inserted or filled in for `MAX(po_id)` |

These share the invariant `Kept`, the conjunction of the named parts.

**`FulfilmentProofs`**

| Theorem | States | Argument |
|---|---|---|
| `TypeCorrect` | `[]TypeOK` | inductive as it stands |
| `LinesHaveOrders` | `[]NoOrphanLines` | not inductive: dropping an order needs its lines to be gone. Strengthened by `DropIsEmpty` (between the two statements the order has no line), which is kept because no step adds a line (`LinesStay`) |
| `EmptyShelvesAreReported` | `[]ZeroStockReported` | a report stays (`AskedStays`); a request that is an excuse stays one until it looks; if it looks at zero it goes on to report, if not the shelf is not at zero |
| `CompletionIsEarned` | `[]CompleteIsEarned` | the history makes it inductive: a line of an order outside `raised` never goes up (`NotRaised`), so one that was at zero stays at or below it |
| `ShelvesBalance`, `LinesBalance` | `[]StockLedger`, `[]OrderLedger` | `FinitelyMany` requests have arrived, so the sums are defined; a step changes one summand of them or adds one (`SumAdd`, `SumSame`). `OnlyPlacedLines` for the second |
| `ImplementsLifecycle` | `FollowsLifecycle` | every step leaves all phases alone but one order's (`OnePhaseMoves`), using `DropIsEmpty` and that no order is ever created here |

**`CheckoutProofs`**

| Theorem | States | Argument |
|---|---|---|
| `TypeCorrect` | `[]TypeOK` | strengthened to `TypeInv` by `Numbered` (ids without a gap) and `Stages` (which ids a request has at which statement) |
| `SessionOrders` | `[]OrdersStayInTheSession` | not inductive: the store is read long before the order is written. Strengthened by `HeldInv`: a request that is walking the cart has the store of its session in `held`, one that has read a store has that, one that has placed an order has the order's. A login in that session adds to `held` only before the reading (`LoginKeepsHeld`) |
| `DeadSlotsBlock` | `DeadSlotBlocksOrders` | `AddKeepsDead`, one case per action of an add: a copy of an array with the null has the null, no copy that is installed fills it, and an add that reads the size now stores behind it; a walk of the list stops at a null |
| `LinesAreOwn` | `[]OwnLines` | `LinesInv`: each request's lines are those of the places it passed (`Filed`), two requests have two orders (`Apart`), lines have orders (`KnownOrders`) |
| `CartIsShared` | `[]OrdersShareTheCart` | `CartInv`: adds that overlap are marked (`RacesSeen`), a request runs in one life (`Lives`), and as long as no add is marked the list has no hole but the one that is about to be filled, the add that runs stores in the array in use, and the copy it is to install has everything (`Solid`), what was ordered is still in its place (`Present`), and orders agree (`Agree`) |
| `FirstLinesAreCharged` | `[]TotalCountsFirstLines` | `Charged`: a request that adds up has the sum of the slots it passed, later ones an order with that total. The sum over places is carried over to one over lines, as `OwnLines` makes them correspond one to one (`SumImage`). That `int` wraps at every addition and the property wraps once is `JavaIntAdds` |

**`OrderBookProofs`**

| Theorem | States | Argument |
|---|---|---|
| `ImplementsOrderBook` | `FollowsBook` | one lemma per action: its step is the one of `OrderBook` it stands for, or changes nothing there (`StepInBook`). Rests on the invariants of `CheckoutProofs`: by `Solid` an add stores at the end of the list, by `Charged` a new total is the cost of a prefix (`CountedIsCost`), by `Filed` a line is the next place, by `Apart` an exception closes no order but its own. `TotalsFit` is new: a sum on its way is a value of an int |

**`ConnectionsProofs`**

| Theorem | States | Argument |
|---|---|---|
| `TypeCorrect` | `[]TypeOK` | `Within`: the open connections are finitely many and within the limit; `Nested`: a stack of blocks is at most a page and two blocks deep; so a step opens or closes one at most |
| `StoresKeepAll` | `[]StoresLoseNothing` | `Careful`: a request that never threw has only blocks that close their connection, unless a staff page is among them. `LossIsCareless` follows |
| `TwoEach` | `[]TwoEachSuffice` | when `Limit` is twice the number of requests and nothing is lost, a full server means two connections for each request; by `Nested` none of them then asks for another |

**`RetailProofs`**

| Theorem | States | Argument |
|---|---|---|
| `PurchasingStandsAlone` | `PurchasingIsUndisturbed` | `StepForPurchasing`: each step is a row that arrives, a click, or nothing to purchasing; a shipment has types by `F!TypeOK` |
| `PurchasingKeepsItsWord` | the properties of `Purchasing` | the theorems of `PurchasingProofs`, carried over by that refinement at `Int` |
| `TypeCorrect` | `[]TypeOK` | both components' type invariants and `Placement` (requests of `Confirm_Cart` have orders up to `lastOrder`) |
| `OrphansComeLate` | `[]OrphansAreCutShort` | `DropsAreCutShort`: between the two statements of a delete, an order has lines only if `Confirm_Cart` added them meanwhile |
| `PurchasesAreOfShipments` | `[]PurchasesComeFromShipments` | `PP!From(Shipments)`: rows, clicks and lines of purchasing all stem from what arrived, which shipments only add to |
| `EmptiedShelvesReachPurchasing` | `[]ZeroReachesPurchasing` | `ZeroStockReported`, where a row that waits may since have turned into a purchase order, by `NoRequestVanishes`, and shipments that finished stay |
| `OrdersLiveTheirLife` | `FollowsLifecycle` | one order moves at a time; that of a `Confirm_Cart` is open as long as it runs (`PlacingMoves`) |

`TableProofs` has the lemmas about `Insert`, `Delete` and replacement that the type proofs cite. `SumProofs` has what the ledgers and the totals
need of the community modules' `SumFunctionOnSet`, which folds in an order that `CHOOSE` picks: the sum over a set is that over the set
without any of its elements, plus that element's value (`SumRemove`, `SumAdd`). The library's induction theorems take operators, which the
provers cannot instantiate; the proofs here take the *set* of good values instead, and a least counterexample from the theorems on
well-founded relations.

**Only model-checked.** Liveness (`RequestsEnd`, `ZeroStockEventuallyReported`, `PagesEnd`), which is beyond the prover, and the
three violations of section 4.

## 6. What is not modelled

* The schema is not in the repository. Tables are taken to be without foreign keys and triggers; a refused statement is a `Stop`.
* What the listings (`Warehouse`, `WarehouseOrder`, `StoreHomeList`) show, markup, wording, suppliers and dates: they change
  no table and no property is about them; only their connections are modelled. The passwords of users and the choice of the page after login likewise.
* An orderly restart of the container, where Tomcat may save sessions to disk and load them again (the cart in the session would then
  be a copy of its own); only a kill is modelled, and only in `Checkout`. A crash of the database, which leaves what a kill
  leaves, as every statement commits. Visibility effects of the Java memory model beyond the interleavings of the plain accesses.
* Vendored code in `lib/`: by size it is nearly the whole repository (612 of 617 thousand lines), but none of it is this
  program. `lib/data/ccsv6` is the C and C++ run-time library and tools of two TI compilers for microcontrollers, which nothing in
  `src/java`, `web` or the build files mentions; `lib/mysql-connector-java-5.1` is the source of the JDBC driver, used as a
  jar. The driver appears where the program depends on it: autocommitted statements, connections of their own, the
  cleanup thread. So what is modelled is all of the application's Java and JSP that changes state.

## 7. Plan

In the order of importance; all but the last are done.

1. `Fulfilment` with `OrderLifecycle`: the tables every role writes. Runs for safety, ledgers, refinement and liveness; proofs.
2. `Purchasing`: the lookup by `MAX`. Runs for safety and steps; proofs of types and requests.
3. `Checkout`: the shared list. Runs for safety, the dead slot, and the two disagreements.
4. `Connections`: the server's limit, blocks that close and blocks that do not, nesting. Runs for sizing and progress.
5. `Retail`: the composition. Runs for safety with both refinements, and for the chain from orders to purchases.
6. `Procurement` with its refinement and proof; the crash and the session in `Checkout`.
7. Proofs of everything that is not liveness.
8. `OrderBook`: the contract of `Checkout`, its run and its proof.
9. Not begun: corollaries across modules (the connections `Retail` needs, the session and a crash in the composition), and lemmas that
   the proofs repeat, stated once.
