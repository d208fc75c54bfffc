--------------------------- MODULE OrderBookProofs ---------------------------
(***************************************************************************)
(* Checkout implements OrderBook: for any requests, users, stores, prices, *)
(* width of an int and number of crashes.                                  *)
(***************************************************************************)
EXTENDS CheckoutProofs

\* A Confirm_Cart past the statement that inserts its order, and not through yet.
Entered(f) == f.at \in {"id", "lines"}

\* A request that has placed its order holds the id of one.
LEMMA HeldIds ==
  ASSUME TypeInv, NEW c \in DOMAIN confirm, Entered(confirm[c])
  PROVE  /\ confirm[c].last # 0 /\ confirm[c].last \in DOMAIN orders
         /\ confirm[c].at = "lines" => confirm[c].order = confirm[c].last
         /\ confirm[c].at = "id" => confirm[c].order = 0 /\ confirm[c].i = 0
BY DEF TypeInv, Stages, Staged, Entered

-----------------------------------------------------------------------------
(* The totals fit an int.                                                  *)

\* The values of an int; each total on its way is one, so OrderBook may have it.
Ints      == -(MaxInt + 1) .. MaxInt
TotalsFit == \A c \in DOMAIN confirm : confirm[c].total \in Ints

\* Whatever is added up, what is left is an int.
LEMMA JavaIntFits == ASSUME NEW n \in Int PROVE JavaInt(n) \in Ints
<1> DEFINE h == MaxInt + 1
           m == 2 * h
<1>1. h \in Nat \ {0} /\ m \in Nat \ {0} /\ n + h \in Int /\ m = h + h
  BY CheckoutAssumption
<1>2. n + MaxInt + 1 = n + h /\ Ints = -h .. h - 1
  BY CheckoutAssumption DEF Ints
<1>3. JavaInt(n) = ((n + h) % m) - h
  BY <1>2 DEF JavaInt
<1> HIDE DEF h, m
<1>4. (n + h) % m \in 0 .. m - 1
  BY <1>1, ModFacts
<1> QED
  BY <1>1, <1>2, <1>3, <1>4

\* A request starts from 0 and adds in int arithmetic.
LEMMA StepKeepsTotals == TypeInv /\ TotalsFit /\ [Next]_vars => TotalsFit'
<1> SUFFICES ASSUME TypeInv, TotalsFit, [Next]_vars PROVE TotalsFit'
  OBVIOUS
<1>t. TypeOK /\ Numbered
  BY DEF TypeInv
<1>1. ASSUME NEW c, c \in DOMAIN confirm, Others(c), confirm'[c].total \in Ints
      PROVE  TotalsFit'
  BY <1>1 DEF TotalsFit, Others
<1>2. ASSUME NEW c \in Confirms, Begin(c) PROVE TotalsFit'
  <2>1. 0 \in Ints
    BY CheckoutAssumption DEF Ints
  <2> QED
    BY <1>t, <1>2, <2>1, BeginFacts DEF TotalsFit
<1>3. ASSUME NEW c \in Confirms, SumEntry(c) PROVE TotalsFit'
  <2>1. c \in DOMAIN confirm /\ Others(c) /\ confirm[c] \in ConfirmState
    BY <1>t, <1>3, SumFacts DEF TypeOK, IsTable
  <2>2. CASE confirm'[c].total = confirm[c].total
    BY <1>1, <2>1, <2>2 DEF TotalsFit
  <2>3. CASE /\ confirm[c].i \in DOMAIN slots
             /\ confirm'[c].total = JavaInt(confirm[c].total + AmountOf(slots[confirm[c].i]))
    <3>1. slots[confirm[c].i] \in Adds /\ confirm[c].total \in Int
      BY <1>t, <2>1, <2>3 DEF TypeOK, IsTable, ConfirmState
    <3>2. confirm[c].total + AmountOf(slots[confirm[c].i]) \in Int
      BY <3>1, AmountType
    <3> QED
      BY <1>1, <2>1, <2>3, <3>2, JavaIntFits
  <2>4. CASE confirm'[c].at = "void"
    <3>1. confirm'[c] = [confirm[c] EXCEPT !.at = "void"]
      BY <1>t, <1>3, <2>1, <2>4 DEF SumEntry, ConfirmAt, Step, End, ConfirmState
    <3> QED
      BY <2>1, <2>2, <3>1 DEF ConfirmState
  <2> QED
    BY <1>t, <1>3, <2>2, <2>3, <2>4, SumFacts
<1>4. ASSUME NEW c \in Confirms,
             ReadStore(c) \/ PlaceOrder(c) \/ TakeId(c) \/ InsertLine(c) \/ Stop(c)
      PROVE  TotalsFit'
  <2>1. c \in DOMAIN confirm /\ Others(c) /\ SameSum(c)
    <3>1. CASE PlaceOrder(c)
      <4>1. confirm[c].store \in Stores
        BY <3>1 DEF PlaceOrder, ConfirmAt, TypeInv, Stages, Staged
      <4> QED
        BY <1>t, <3>1, <4>1, PlaceFacts
    <3>2. CASE ReadStore(c) \/ TakeId(c)
      BY <1>t, <3>2, StoreReadFacts, TakeFacts
    <3>3. CASE InsertLine(c)
      <4>1. c \in DOMAIN confirm /\ confirm[c].at = "lines"
        BY <3>3 DEF InsertLine, ConfirmAt
      <4>2. confirm[c].order # 0
        BY <4>1, HeldIds DEF Entered
      <4> QED
        BY <1>t, <3>3, <4>2, LineFacts
    <3>4. CASE Stop(c)
      BY <1>t, <3>4, StopFacts
    <3> QED
      BY <1>4, <3>1, <3>2, <3>3, <3>4
  <2> QED
    BY <1>1, <2>1 DEF TotalsFit, SameSum
<1>5. CASE Crash
  <2>1. ASSUME NEW c \in DOMAIN confirm PROVE confirm'[c].total = confirm[c].total
    <3>1. confirm[c] \in ConfirmState
      BY <1>t DEF TypeOK, IsTable
    <3> QED
      BY <1>t, <1>5, <3>1, CrashFacts DEF ConfirmState
  <2> QED
    BY <1>t, <1>5, <2>1, CrashFacts DEF TotalsFit
<1>6. CASE UNCHANGED confirm
  BY <1>6 DEF TotalsFit
<1>7. ASSUME NEW t \in Adds, AddItem(t)
      PROVE  UNCHANGED confirm
  BY <1>7, AddLeaves
<1>8. ASSUME NEW u \in Users, Login(u) \/ ViewCart(u) \/ Expire(u) PROVE UNCHANGED confirm
  BY <1>8 DEF Login, ViewCart, Expire
<1> QED
  BY <1>2, <1>3, <1>4, <1>5, <1>6, <1>7, <1>8 DEF Next, Run, vars
-----------------------------------------------------------------------------
(* The orders that may get more lines.                                     *)

\* Nothing opens or closes if no request places its order or is through with it.
LEMMA OpenStays ==
  ASSUME DOMAIN confirm \subseteq DOMAIN confirm',
         \A d \in DOMAIN confirm' : Entered(confirm'[d]) =>
           d \in DOMAIN confirm /\ Entered(confirm[d]),
         \A d \in DOMAIN confirm : Entered(confirm[d]) =>
           Entered(confirm'[d]) /\ confirm'[d].last = confirm[d].last
  PROVE  OpenOrders' = OpenOrders
BY DEF OpenOrders, Entered

\* The order of a request that ends is closed: it is no other's.
LEMMA OpenCloses ==
  ASSUME TypeInv, LinesInv, NEW c \in DOMAIN confirm, Others(c),
         Entered(confirm[c]), ~Entered(confirm'[c])
  PROVE  OpenOrders' = OpenOrders \ {confirm[c].last}
<1>1. \A d \in DOMAIN confirm \ {c} : Entered(confirm[d]) => confirm[d].last # confirm[c].last
  BY HeldIds DEF LinesInv, Apart
<1> QED
  BY <1>1 DEF OpenOrders, Others, Entered

\* The order of a request that places it is open.
LEMMA OpenOpens ==
  ASSUME NEW c \in DOMAIN confirm, Others(c), ~Entered(confirm[c]), Entered(confirm'[c])
  PROVE  OpenOrders' = OpenOrders \cup {confirm'[c].last}
BY DEF OpenOrders, Others, Entered

-----------------------------------------------------------------------------
(* The lines of an order, by their places.                                 *)

\* They are read from the table of lines alone.
LEMMA LinesStay ==
  ASSUME UNCHANGED items, DOMAIN orders' = DOMAIN orders
  PROVE  BookLines' = BookLines
BY DEF BookLines, PlacesOf, LineAt, LinesOf

\* A new line has a place of its own, and the other lines keep theirs.
LEMMA LineInserted ==
  ASSUME NEW k, k \notin DOMAIN items, NEW row, items' = Insert(items, k, row),
         row.idx \notin PlacesOf(row.order)
  PROVE  /\ \A p : PlacesOf(p)' = IF p = row.order THEN PlacesOf(p) \cup {row.idx} ELSE PlacesOf(p)
         /\ LineAt(row.order, row.idx)' = row
         /\ \A p : \A n \in PlacesOf(p) : LineAt(p, n)' = LineAt(p, n)
<1>1. /\ DOMAIN items' = DOMAIN items \cup {k} /\ items'[k] = row
      /\ \A j \in DOMAIN items : items'[j] = items[j]
  BY DEF Insert
<1>2. ASSUME NEW p
      PROVE  PlacesOf(p)' = IF p = row.order THEN PlacesOf(p) \cup {row.idx} ELSE PlacesOf(p)
  <2>1. \A n : n \in PlacesOf(p)' <=> n \in PlacesOf(p) \/ (p = row.order /\ n = row.idx)
    BY <1>1 DEF PlacesOf, LinesOf
  <2> QED
    BY <2>1
<1>3. LineAt(row.order, row.idx)' = row
  <2> DEFINE At(j) == j \in DOMAIN items' /\ items'[j].order = row.order /\ items'[j].idx = row.idx
  <2>1. At(k) /\ \A j : At(j) => j = k
    BY <1>1 DEF PlacesOf, LinesOf
  <2>2. (CHOOSE j \in DOMAIN items' : items'[j].order = row.order /\ items'[j].idx = row.idx) = k
    BY <2>1
  <2> QED
    BY <1>1, <2>2 DEF LineAt
<1>4. ASSUME NEW p, NEW n \in PlacesOf(p) PROVE LineAt(p, n)' = LineAt(p, n)
  <2> DEFINE Here(j)  == items[j].order = p /\ items[j].idx = n
             There(j) == items'[j].order = p /\ items'[j].idx = n
  <2>1. \A j : (j \in DOMAIN items' /\ There(j)) <=> (j \in DOMAIN items /\ Here(j))
    BY <1>1, <1>4 DEF PlacesOf, LinesOf
  <2>2. \E j \in DOMAIN items : Here(j)
    BY <1>4 DEF PlacesOf, LinesOf
  <2>3. (CHOOSE j \in DOMAIN items' : There(j)) = (CHOOSE j \in DOMAIN items : Here(j))
    BY <2>1
  <2>4. (CHOOSE j \in DOMAIN items : Here(j)) \in DOMAIN items
    BY <2>2
  <2> QED
    BY <1>1, <2>3, <2>4 DEF LineAt
<1> QED
  BY <1>2, <1>3, <1>4
-----------------------------------------------------------------------------
(* Each step is a step of OrderBook, or none.                              *)

\* What OrderBook sees.
LEMMA Seen == /\ Book!vars = <<SharedCart, Unraced, orders, BookLines, OpenOrders>>
              /\ Book!vars' = <<SharedCart', Unraced', orders', BookLines', OpenOrders'>>
BY DEF Book!vars

\* Both modules count alike.
LEMMA SameCount == \A S : Book!Cardinality(S) = Cardinality(S)
BY DEF Book!Cardinality, Cardinality

\* An Add is a new element at the end of the sound cart.
LEMMA AddSeen ==
  ASSUME NEW e
  PROVE  Book!Add(e) <=> /\ Unraced
                         /\ SharedCart' = Insert(SharedCart, Cardinality(DOMAIN SharedCart), e)
                         /\ UNCHANGED <<Unraced, orders, BookLines, OpenOrders>>
BY SameCount DEF Book!Add, Book!Count, Book!Insert, Insert

\* A Place is a new order without lines, charged for a prefix of a sound cart.
LEMMA PlaceSeen ==
  ASSUME NEW store, NEW total
  PROVE  Book!Place(store, total) <=>
           LET o == Cardinality(DOMAIN orders) + 1
           IN  /\ OpenOrders' = OpenOrders \cup {o}
               /\ orders' = Insert(orders, o, [store |-> store, total |-> total])
               /\ Unraced => \E n \in 0 .. Cardinality(DOMAIN SharedCart) :
                               total = CostOf(Restrict(SharedCart, 0 .. n - 1))
               /\ BookLines' = Insert(BookLines, o, Nothing)
               /\ UNCHANGED <<SharedCart, Unraced>>
BY SameCount DEF Book!Place, Book!Count, Book!Insert, Insert, Book!Restrict, Restrict, Book!Empty, Nothing

\* An AddLine is the next place of the cart, as a line of an open order.
LEMMA AddLineSeen ==
  ASSUME NEW o, NEW e
  PROVE  Book!AddLine(o, e) <=>
           LET n == Cardinality(DOMAIN BookLines[o])
           IN  /\ o \in OpenOrders
               /\ Unraced => n \in DOMAIN SharedCart /\ e = SharedCart[n]
               /\ BookLines' = [BookLines EXCEPT ![o] = Insert(BookLines[o], n, e)]
               /\ UNCHANGED <<SharedCart, Unraced, orders, OpenOrders>>
BY SameCount DEF Book!AddLine, Book!Count, Book!Insert, Insert

\* A step that leaves these alone is none to OrderBook.
LEMMA SeenTheSame ==
  ASSUME Unraced' <=> Unraced, Unraced => slots' = slots,
         UNCHANGED <<orders, items>>, OpenOrders' = OpenOrders
  PROVE  UNCHANGED Book!vars
<1>1. SharedCart' = SharedCart
  BY DEF SharedCart, Nothing
<1>2. BookLines' = BookLines
  BY LinesStay
<1>3. Unraced' = Unraced
  OBVIOUS
<1> QED
  BY <1>1, <1>2, <1>3, Seen

\* An add that begins beside another spoils the cart; a spoilt one stays so.
LEMMA EnterInBook ==
  ASSUME TypeInv, NEW t \in Adds, Enter(t)
  PROVE  Book!Overlap \/ UNCHANGED Book!vars
<1>1. /\ DOMAIN add' = DOMAIN add \cup {t} /\ t \notin DOMAIN add
      /\ \A u \in DOMAIN add : add[u].raced => add'[u].raced
      /\ add'[t].raced <=> \E u \in DOMAIN add : InAdd(u)
      /\ ~add'[t].raced => \A u \in DOMAIN add : add'[u].raced = add[u].raced
  BY EnterFacts DEF TypeInv
<1>2. UNCHANGED <<slots, orders, items, confirm>> /\ OpenOrders' = OpenOrders
  BY DEF Enter, cart, db, OpenOrders
<1>3. CASE Unraced' <=> Unraced
  BY <1>2, <1>3, SeenTheSame
<1>4. CASE ~(Unraced' <=> Unraced)
  <2>1. ~Unraced'
    BY <1>1, <1>4 DEF Unraced
  <2>2. SharedCart' = Nothing /\ BookLines' = BookLines /\ Unraced' = FALSE
    BY <1>2, <2>1, LinesStay DEF SharedCart, Nothing
  <2> QED
    BY <1>2, <2>2 DEF Book!Overlap, Book!Empty, Nothing
<1> QED
  BY <1>3, <1>4

\* While no adds overlap, a copy that replaces the array is all of the cart, and
\* an element is stored at its end; later, nothing of the cart is seen.
LEMMA AddInBook ==
  ASSUME TypeInv, CartInv, NEW t \in Adds, AddItem(t), ~Enter(t)
  PROVE  Book!Add(t) \/ UNCHANGED Book!vars
<1>t. TypeOK
  BY DEF TypeInv
<1>1. UNCHANGED <<orders, items>> /\ OpenOrders' = OpenOrders
  BY AddLeaves DEF OpenOrders
<1>2. \E label : Moves(t, label)
  BY <1>t, CopyFacts, InstallFacts, ReadFacts, BumpFacts, StoreFacts, ReplyFacts DEF AddItem
<1>3. Unraced' <=> Unraced
  BY <1>2 DEF Moves, Unraced
<1>4. CASE Unraced => slots' = slots
  BY <1>1, <1>3, <1>4, SeenTheSame
<1>5. CASE Unraced /\ slots' # slots
  <2>1. Solid
    BY <1>5 DEF CartInv
  <2>2. StoreElement(t)
    <3>1. ASSUME Install(t) PROVE FALSE
      <4>1. t \in DOMAIN copies /\ slots' = copies[t]
        BY <1>t, <3>1, InstallFacts
      <4> QED
        BY <1>5, <2>1, <4>1 DEF Solid
    <3> QED
      BY <1>5, <3>1 DEF AddItem, Copy, LoadArray, LoadSize, BumpSize, Reply, cart
  <2>3. t \in DOMAIN add /\ add[t].at = "store" /\ add[t].idx \in Nat
    BY <1>t, <2>2, StoreFacts DEF Moves
  <2>4. slots' = Insert(slots, add[t].idx, t)
    BY <1>t, <1>5, <2>2, StoreFacts
  <2>5. DOMAIN slots = 0 .. add[t].idx - 1
    BY <2>1, <2>3 DEF Solid
  <2>6. Cardinality(DOMAIN slots) = add[t].idx
    BY <2>3, <2>5, PlacesFacts
  <2>7. SharedCart = slots /\ SharedCart' = slots' /\ BookLines' = BookLines /\ Unraced' = Unraced
    BY <1>1, <1>3, <1>5, LinesStay DEF SharedCart
  <2>8. SharedCart' = Insert(SharedCart, Cardinality(DOMAIN SharedCart), t)
    BY <2>4, <2>6, <2>7
  <2> QED
    BY <1>1, <1>5, <2>7, <2>8, AddSeen
<1> QED
  BY <1>4, <1>5

\* Steps of a Confirm_Cart leave the cart alone, so they are seen by orders,
\* lines and what is open.
LEMMA ConfirmSeen ==
  ASSUME NEW c, Begin(c) \/ Run(c) \/ Stop(c)
  PROVE  UNCHANGED <<add, slots, SharedCart>> /\ Unraced' = Unraced
<1>1. UNCHANGED <<add, slots>>
  BY DEF Begin, Run, SumEntry, ReadStore, PlaceOrder, TakeId, InsertLine, Stop, cart
<1>2. (Unraced' <=> Unraced) /\ SharedCart' = SharedCart
  BY <1>1 DEF Unraced, SharedCart, Nothing
<1>3. Unraced' = Unraced
  BY <1>2
<1> QED
  BY <1>1, <1>2, <1>3

\* A request that begins, adds up or asks for its store has no order yet.
LEMMA SumInBook ==
  ASSUME TypeInv, NEW c \in Confirms, Begin(c) \/ SumEntry(c) \/ ReadStore(c)
  PROVE  UNCHANGED Book!vars
<1>t. TypeOK
  BY DEF TypeInv
<1>1. UNCHANGED <<orders, items>>
  BY DEF Begin, SumEntry, ReadStore, db
<1>2. CASE Begin(c)
  <2>1. OpenOrders' = OpenOrders
    BY <1>t, <1>2, BeginFacts, OpenStays DEF Entered
  <2> QED
    BY <1>1, <1>2, <2>1, ConfirmSeen, SeenTheSame
<1>3. CASE SumEntry(c) \/ ReadStore(c)
  <2>1. OpenOrders' = OpenOrders
    <3>1. /\ c \in DOMAIN confirm /\ Others(c)
          /\ ~Entered(confirm[c]) /\ ~Entered(confirm'[c])
      BY <1>t, <1>3, SumFacts, StoreReadFacts DEF Entered
    <3> QED
      BY <3>1, OpenStays DEF Others
  <2> QED
    BY <1>1, <1>3, <2>1, ConfirmSeen, SeenTheSame DEF Run
<1> QED
  BY <1>2, <1>3

\* Asking for the id changes nothing of the order.
LEMMA TakeInBook ==
  ASSUME TypeInv, NEW c \in Confirms, TakeId(c)
  PROVE  UNCHANGED Book!vars
<1>1. UNCHANGED <<orders, items>>
  BY DEF TakeId, db
<1>2. OpenOrders' = OpenOrders
  <2>1. /\ c \in DOMAIN confirm /\ Others(c) /\ confirm'[c].last = confirm[c].last
        /\ Entered(confirm[c]) /\ Entered(confirm'[c])
    BY TakeFacts DEF TypeInv, Entered
  <2> QED
    BY <2>1, OpenStays DEF Others
<1> QED
  BY <1>1, <1>2, ConfirmSeen, SeenTheSame DEF Run

\* A request that ends after it placed its order closes it.
LEMMA CloseInBook ==
  ASSUME TypeInv, LinesInv, NEW c \in DOMAIN confirm, Others(c), ~Entered(confirm'[c]),
         UNCHANGED <<orders, items, SharedCart>>, Unraced' = Unraced
  PROVE  UNCHANGED Book!vars \/ \E o \in OpenOrders : Book!Close(o)
<1>1. BookLines' = BookLines
  BY LinesStay
<1>2. CASE ~Entered(confirm[c])
  <2>1. OpenOrders' = OpenOrders
    BY <1>2, OpenStays DEF Others
  <2> QED
    BY <1>1, <2>1, Seen
<1>3. CASE Entered(confirm[c])
  <2>1. OpenOrders' = OpenOrders \ {confirm[c].last} /\ confirm[c].last \in OpenOrders
    BY <1>3, OpenCloses DEF OpenOrders, Entered
  <2> QED
    BY <1>1, <2>1 DEF Book!Close
<1> QED
  BY <1>2, <1>3

\* An exception closes the order of the request, if it has one.
LEMMA StopInBook ==
  ASSUME TypeInv, LinesInv, NEW c \in Confirms, Stop(c)
  PROVE  UNCHANGED Book!vars \/ \E o \in OpenOrders : Book!Close(o)
<1>1. /\ c \in DOMAIN confirm /\ Others(c) /\ ~Entered(confirm'[c])
  BY StopFacts DEF TypeInv, Cut, Entered
<1>2. UNCHANGED <<orders, items>>
  BY DEF Stop, db
<1> QED
  BY <1>1, <1>2, CloseInBook, ConfirmSeen

\* After a crash the cart is empty and nobody writes a line any more.
LEMMA CrashInBook ==
  ASSUME TypeInv, Crash
  PROVE  Book!Restart
<1>1. /\ DOMAIN confirm' = DOMAIN confirm /\ \A c \in DOMAIN confirm : ~Entered(confirm'[c])
      /\ DOMAIN add' = DOMAIN add /\ \A t \in DOMAIN add : add'[t].raced = add[t].raced
  <2>1. \A c \in DOMAIN confirm : confirm[c] \in ConfirmState
    BY DEF TypeInv, TypeOK, IsTable
  <2> QED
    BY <2>1, CrashFacts DEF TypeInv, Cut, Entered, Confirming, ConfirmState
<1>2. OpenOrders' = {}
  BY <1>1 DEF OpenOrders, Entered
<1>3. Unraced' = Unraced
  <2>1. Unraced' <=> Unraced
    BY <1>1 DEF Unraced
  <2> QED
    BY <2>1
<1>4. SharedCart' = Nothing
  BY DEF Crash, SharedCart, Nothing
<1>5. orders' = orders /\ BookLines' = BookLines
  BY LinesStay DEF Crash, db
<1> QED
  BY <1>2, <1>3, <1>4, <1>5 DEF Book!Restart, Book!Empty, Nothing
\* What a request has added up is what the prefix costs that it has passed.
LEMMA CountedIsCost ==
  ASSUME NEW total, NEW elems, NEW n, Counted(total, elems, n)
  PROVE  total = CostOf(Restrict(elems, 0 .. n - 1))
<1> DEFINE list == Restrict(elems, 0 .. n - 1)
           f == [j \in DOMAIN list |-> Qty[list[j]] * Price[list[j]]]
           g == [j \in 0 .. n - 1 |-> AmountOf(elems[j])]
<1>1. DOMAIN list = 0 .. n - 1 /\ \A j \in 0 .. n - 1 : list[j] = elems[j]
  BY DEF Restrict
<1>2. f = g
  BY <1>1 DEF AmountOf
<1>3. CostOf(list) = JavaInt(SumFunctionOnSet(f, DOMAIN f))
  BY DEF CostOf, SumFunction
<1>4. DOMAIN f = 0 .. n - 1
  BY <1>1
<1> HIDE DEF f, g, list
<1>5. CostOf(list) = JavaInt(SumFunctionOnSet(g, 0 .. n - 1))
  BY <1>2, <1>3, <1>4
<1> QED
  BY <1>5 DEF Counted, g, list

\* A new order is charged for the prefix that its request has added up.
LEMMA PlaceInBook ==
  ASSUME TypeInv, LinesInv, CartInv, Unraced => Charged, TotalsFit, NEW c \in Confirms, PlaceOrder(c)
  PROVE  \E store \in Stores, total \in Ints : Book!Place(store, total)
<1> DEFINE o == Cardinality(DOMAIN orders) + 1
           store == confirm[c].store
           total == confirm[c].total
<1>1. c \in DOMAIN confirm /\ confirm[c].at = "place" /\ store \in Stores
  BY DEF PlaceOrder, ConfirmAt, TypeInv, Stages, Staged
<1>2. /\ Others(c) /\ confirm'[c].at = "id" /\ confirm'[c].last = o
      /\ o \notin DOMAIN orders /\ DOMAIN orders' = DOMAIN orders \cup {o}
  BY <1>1, PlaceFacts DEF TypeInv
<1>3. items' = items /\ UNCHANGED <<slots, SharedCart>> /\ Unraced' = Unraced
  BY ConfirmSeen DEF PlaceOrder, Run
<1>4. orders' = Insert(orders, o, [store |-> store, total |-> total])
  BY DEF PlaceOrder
<1>5. OpenOrders' = OpenOrders \cup {o}
  BY <1>1, <1>2, OpenOpens DEF Entered
<1>6. BookLines' = Insert(BookLines, o, Nothing)
  <2>1. \A p : PlacesOf(p)' = PlacesOf(p) /\ \A n : LineAt(p, n)' = LineAt(p, n)
    BY <1>3 DEF PlacesOf, LineAt, LinesOf
  <2>2. PlacesOf(o) = {}
    BY <1>2 DEF PlacesOf, LinesOf, LinesInv, KnownOrders
  <2> HIDE DEF o
  <2>3. BookLines' = [p \in DOMAIN orders \cup {o} |-> [n \in PlacesOf(p) |-> LineAt(p, n).add]]
    BY <1>2, <2>1 DEF BookLines
  <2>4. [n \in PlacesOf(o) |-> LineAt(o, n).add] = Nothing
    BY <2>2 DEF Nothing
  <2> QED
    BY <1>2, <2>3, <2>4 DEF Insert, BookLines
<1>7. ASSUME Unraced
      PROVE  \E n \in 0 .. Cardinality(DOMAIN SharedCart) :
               total = CostOf(Restrict(SharedCart, 0 .. n - 1))
  <2> DEFINE n == confirm[c].counted
  <2>1. Counted(total, slots, n)
    BY <1>1, <1>7 DEF Charged, ChargedAt
  <2>2. SharedCart = slots /\ n \in Nat /\ 0 .. n - 1 \subseteq DOMAIN slots
    BY <1>1, <1>7, <2>1 DEF SharedCart, Counted, TypeInv, TypeOK, IsTable, ConfirmState
  <2>3. n <= Cardinality(DOMAIN slots) /\ Cardinality(DOMAIN slots) \in Nat
    <3>1. PICK m \in Nat : DOMAIN slots = 0 .. m - 1
      <4>1. size \in Nat /\ \A t \in DOMAIN add : add[t] \in AddState
        BY DEF TypeInv, TypeOK, IsTable
      <4> QED
        BY <1>7, <4>1 DEF CartInv, Solid, AddState
    <3>2. Cardinality(DOMAIN slots) = m /\ Cardinality(0 .. n - 1) = n
      BY <2>2, <3>1, PlacesFacts
    <3>3. Cardinality(0 .. n - 1) <= Cardinality(DOMAIN slots)
      <4>1. IsFiniteSet(DOMAIN slots)
        BY <3>1, FS_Interval
      <4> QED
        BY <2>2, <4>1, FS_Subset
    <3> QED
      BY <3>2, <3>3
  <2> QED
    BY <2>1, <2>2, <2>3, CountedIsCost
<1>8. total \in Ints
  BY <1>1 DEF TotalsFit
<1> HIDE DEF o, store, total
<1>9. Book!Place(store, total)
  BY <1>3, <1>4, <1>5, <1>6, <1>7, PlaceSeen DEF o
<1> QED
  BY <1>1, <1>8, <1>9

\* A new line repeats the cart at the next place of its order.
LEMMA LineInBook ==
  ASSUME TypeInv, LinesInv, CartInv, NEW c \in Confirms, InsertLine(c)
  PROVE  \/ UNCHANGED Book!vars
         \/ \E o \in OpenOrders : Book!Close(o) \/ \E e \in Adds : Book!AddLine(o, e)
<1>c. PICK o, n, e : o = confirm[c].last /\ n = confirm[c].i /\ e = slots[n]
  OBVIOUS
<1>1. c \in DOMAIN confirm /\ confirm[c].at = "lines" /\ Entered(confirm[c]) /\ n \in Nat
  BY <1>c DEF InsertLine, ConfirmAt, Entered, TypeInv, TypeOK, IsTable, ConfirmState
<1>2. o # 0 /\ o \in DOMAIN orders /\ confirm[c].order = o
  BY <1>1, <1>c, HeldIds
<1>3. /\ Others(c)
      /\ \/ confirm'[c].at \in {"done", "partial"} /\ items' = items
         \/ /\ confirm'[c].at = "lines" /\ confirm'[c].last = o /\ n \in DOMAIN slots
            /\ \E k \in RowIds \ DOMAIN items : items' = Insert(items, k, LineRow(c))
  BY <1>1, <1>2, <1>c, LineFacts DEF TypeInv
<1>4. orders' = orders /\ UNCHANGED <<slots, SharedCart>> /\ Unraced' = Unraced
  BY ConfirmSeen DEF InsertLine, Run
<1>5. CASE confirm'[c].at \in {"done", "partial"} /\ items' = items
  <2>1. ~Entered(confirm'[c])
    BY <1>5 DEF Entered
  <2> QED
    BY <1>1, <1>3, <1>4, <1>5, <2>1, CloseInBook
<1>6. CASE /\ confirm'[c].at = "lines" /\ confirm'[c].last = o /\ n \in DOMAIN slots
           /\ \E k \in RowIds \ DOMAIN items : items' = Insert(items, k, LineRow(c))
  <2>1. OpenOrders' = OpenOrders /\ o \in OpenOrders
    <3>1. Entered(confirm'[c])
      BY <1>6 DEF Entered
    <3>2. OpenOrders' = OpenOrders
      BY <1>1, <1>3, <1>6, <1>c, <3>1, OpenStays DEF Others
    <3> QED
      BY <1>1, <1>c, <3>2 DEF OpenOrders, Entered
  <2>2. PlacesOf(o) = 0 .. n - 1
    BY <1>1, <1>2, <1>c DEF LinesInv, Filed, FiledAs, PlacesOf, LinesOf, Lines
  <2>3. LineRow(c).order = o /\ LineRow(c).idx = n /\ LineRow(c).add = e
    BY <1>2, <1>c DEF LineRow
  <2>4. PICK k : k \notin DOMAIN items /\ items' = Insert(items, k, LineRow(c))
    BY <1>6
  <2>5. n \notin PlacesOf(o)
    BY <1>1, <2>2
  <2>6. /\ \A p : PlacesOf(p)' = IF p = o THEN PlacesOf(p) \cup {n} ELSE PlacesOf(p)
        /\ LineAt(o, n)'.add = e
        /\ \A p : \A m \in PlacesOf(p) : LineAt(p, m)' = LineAt(p, m)
    <3>1. PICK row : row.order = o /\ row.idx = n /\ row.add = e /\ items' = Insert(items, k, row)
      BY <2>3, <2>4
    <3>2. row.idx \notin PlacesOf(row.order)
      BY <2>5, <3>1
    <3>3. /\ \A p : PlacesOf(p)' = IF p = row.order THEN PlacesOf(p) \cup {row.idx} ELSE PlacesOf(p)
          /\ LineAt(row.order, row.idx)' = row
          /\ \A p : \A m \in PlacesOf(p) : LineAt(p, m)' = LineAt(p, m)
      BY <2>4, <3>1, <3>2, LineInserted
    <3> QED
      BY <3>1, <3>3
  <2>7. Cardinality(DOMAIN BookLines[o]) = n
    <3>1. DOMAIN BookLines[o] = 0 .. n - 1
      BY <1>2, <2>2 DEF BookLines
    <3> QED
      BY <1>1, <3>1, PlacesFacts
  <2>8. BookLines' = [BookLines EXCEPT ![o] = Insert(BookLines[o], n, e)]
    <3>1. DOMAIN BookLines' = DOMAIN orders /\ DOMAIN BookLines = DOMAIN orders
      BY <1>4 DEF BookLines
    <3>2. ASSUME NEW p \in DOMAIN orders, p # o PROVE BookLines'[p] = BookLines[p]
      BY <1>4, <2>6, <3>2 DEF BookLines
    <3>3. BookLines'[o] = Insert(BookLines[o], n, e)
      <4>1. BookLines'[o] = [m \in PlacesOf(o) \cup {n} |-> LineAt(o, m)'.add]
        BY <1>2, <1>4, <2>6 DEF BookLines
      <4>2. \A m \in PlacesOf(o) \cup {n} :
              LineAt(o, m)'.add = IF m = n THEN e ELSE BookLines[o][m]
        BY <1>2, <2>6 DEF BookLines
      <4>3. DOMAIN BookLines[o] = PlacesOf(o)
        BY <1>2 DEF BookLines
      <4> QED
        BY <4>1, <4>2, <4>3 DEF Insert
    <3> QED
      BY <1>2, <3>1, <3>2, <3>3 DEF BookLines
  <2>9. n \in DOMAIN slots /\ e \in Adds /\ (Unraced => n \in DOMAIN SharedCart /\ e = SharedCart[n])
    BY <1>6, <1>c DEF SharedCart, TypeInv, TypeOK, IsTable
  <2>10. Book!AddLine(o, e)
    BY <1>4, <2>1, <2>7, <2>8, <2>9, AddLineSeen
  <2> QED
    BY <2>1, <2>9, <2>10
<1> QED
  BY <1>3, <1>5, <1>6

-----------------------------------------------------------------------------
\* Nothing is in the cart and in the tables at first.
LEMMA InitInBook == Init => Book!Init
<1> SUFFICES ASSUME Init PROVE Book!Init
  OBVIOUS
<1>1. Unraced /\ Unraced = TRUE
  BY DEF Init, Nothing, Unraced
<1>2. SharedCart = Nothing /\ orders = Nothing /\ BookLines = Nothing /\ OpenOrders = {}
  BY <1>1 DEF Init, SharedCart, BookLines, OpenOrders, Nothing
<1> QED
  BY <1>1, <1>2 DEF Book!Init, Book!Empty, Nothing

\* The step of the refinement, action by action.
LEMMA StepInBook ==
  TypeInv /\ LinesInv /\ CartInv /\ (Unraced => Charged) /\ TotalsFit /\ [Next]_vars
    => [Book!Next]_(Book!vars)
<1> SUFFICES ASSUME TypeInv, LinesInv, CartInv, Unraced => Charged, TotalsFit, [Next]_vars
             PROVE  Book!Next \/ UNCHANGED Book!vars
  OBVIOUS
<1>1. ASSUME NEW t \in Adds, AddItem(t)
      PROVE  Book!Next \/ UNCHANGED Book!vars
  BY <1>1, EnterInBook, AddInBook DEF Book!Next
<1>2. ASSUME NEW u \in Users, Login(u) \/ ViewCart(u) \/ Expire(u)
      PROVE  UNCHANGED Book!vars
  <2>1. UNCHANGED <<slots, add, orders, items, confirm>>
    BY <1>2 DEF Login, ViewCart, Expire, cart, db
  <2> QED
    BY <2>1, SeenTheSame DEF Unraced, OpenOrders
<1>3. ASSUME NEW c \in Confirms, Begin(c) \/ Run(c) \/ Stop(c)
      PROVE  Book!Next \/ UNCHANGED Book!vars
  <2>1. CASE Begin(c) \/ SumEntry(c) \/ ReadStore(c) \/ TakeId(c)
    BY <2>1, SumInBook, TakeInBook
  <2>2. CASE PlaceOrder(c)
    BY <2>2, PlaceInBook DEF Book!Next, Ints
  <2>3. CASE InsertLine(c)
    BY <2>3, LineInBook DEF Book!Next
  <2>4. CASE Stop(c)
    BY <2>4, StopInBook DEF Book!Next
  <2> QED
    BY <1>3, <2>1, <2>2, <2>3, <2>4 DEF Run
<1>4. CASE Crash
  BY <1>4, CrashInBook DEF Book!Next
<1>5. CASE UNCHANGED vars
  <2>1. UNCHANGED <<slots, add, orders, items, confirm>>
    BY <1>5 DEF vars, cart, db
  <2> QED
    BY <2>1, SeenTheSame DEF Unraced, OpenOrders
<1> QED
  BY <1>1, <1>2, <1>3, <1>4, <1>5 DEF Next

\* Checkout implements OrderBook: whatever adds race, requests fail and crashes
\* come between, an order is charged for a prefix of the cart of its moment, and
\* its lines repeat one cart in order and are never taken back or mixed up.
THEOREM ImplementsOrderBook == Spec => FollowsBook
<1>1. Init => TotalsFit /\ (Unraced => Charged)
  BY DEF Init, Nothing, TotalsFit, Charged
<1> QED
  BY <1>1, InitInBook, StepInBook, StepKeepsTotals, StepKeepsCharged,
     TypeInvHolds, LinesInvHolds, CartInvHolds, PTL DEF Spec, FollowsBook, Book!Spec
=============================================================================
