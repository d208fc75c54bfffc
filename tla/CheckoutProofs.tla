---------------------------- MODULE CheckoutProofs ----------------------------
(***************************************************************************)
(* Theorems about Checkout, for any requests, users, stores, prices and    *)
(* width of an int.                                                        *)
(***************************************************************************)
EXTENDS Checkout, TableProofs, SumProofs

-----------------------------------------------------------------------------
(* Types.                                                                  *)

\* A total that wraps around is still an integer.
LEMMA JavaIntType == ASSUME NEW n \in Int PROVE JavaInt(n) \in Int
<1>1. n + MaxInt + 1 \in Int /\ 2 * (MaxInt + 1) \in Nat \ {0} /\ MaxInt + 1 \in Int
  BY CheckoutAssumption
<1> QED
  BY <1>1 DEF JavaInt

\* Division with a remainder, by a number that is not given.
LEMMA ModFacts ==
  ASSUME NEW x \in Int, NEW m \in Nat \ {0}
  PROVE  \E q \in Int : x = m * q + (x % m) /\ x % m \in 0 .. m - 1
<1>1. x \div m \in Int /\ x = m * (x \div m) + (x % m)
  OBVIOUS
<1>2. x % m \in 0 .. m - 1
  OBVIOUS
<1> QED
  BY <1>1, <1>2

\* A remainder is determined by the number it is left of.
LEMMA RemainderUnique ==
  ASSUME NEW m \in Nat \ {0}, NEW q \in Int, NEW p \in Int,
         NEW r \in 0 .. m - 1, NEW s \in 0 .. m - 1, m * q + r = m * p + s
  PROVE  r = s
<1>1. ASSUME NEW d \in Int, d >= 1 PROVE m * d >= m
  BY <1>1
<1>2. m * (q - p) = s - r
  OBVIOUS
<1>3. m * (p - q) = r - s
  OBVIOUS
<1>4. CASE q - p >= 1
  BY <1>1, <1>2, <1>4
<1>5. CASE p - q >= 1
  BY <1>1, <1>3, <1>5
<1>6. CASE q = p
  BY <1>6
<1> QED
  BY <1>4, <1>5, <1>6

\* A multiple of m taken away leaves the same remainder.
LEMMA ModShift ==
  ASSUME NEW x \in Int, NEW q \in Int, NEW m \in Nat \ {0}
  PROVE  (x - m * q) % m = x % m
<1> DEFINE y == x - m * q
<1>1. y \in Int /\ m * q \in Int
  OBVIOUS
<1>2. PICK a \in Int : x = m * a + (x % m) /\ x % m \in 0 .. m - 1
  BY ModFacts
<1> HIDE DEF y
<1>3. PICK b \in Int : y = m * b + (y % m) /\ y % m \in 0 .. m - 1
  BY <1>1, ModFacts
<1>4. y = m * (a - q) + (x % m)
  <2>1. m * (a - q) = m * a - m * q
    OBVIOUS
  <2> QED
    BY <1>1, <1>2, <2>1 DEF y
<1>5. a - q \in Int
  OBVIOUS
<1>6. y % m = x % m
  BY <1>2, <1>3, <1>4, <1>5, RemainderUnique
<1> QED
  BY <1>6 DEF y

\* Int arithmetic may wrap around after every addition or once at the end.
LEMMA JavaIntAdds ==
  ASSUME NEW a \in Int, NEW b \in Int
  PROVE  JavaInt(JavaInt(a) + b) = JavaInt(a + b)
<1> DEFINE h == MaxInt + 1
           m == 2 * h
<1>1. h \in Nat \ {0} /\ m \in Nat \ {0}
  BY CheckoutAssumption
<1>2. ASSUME NEW n \in Int PROVE JavaInt(n) = ((n + h) % m) - h
  <2>1. n + MaxInt + 1 = n + h
    BY CheckoutAssumption
  <2> QED
    BY ONLY <2>1 DEF JavaInt, h, m
<1> HIDE DEF h, m
<1>3. a + h \in Int
  BY <1>1
<1>4. PICK q \in Int : a + h = m * q + ((a + h) % m) /\ (a + h) % m \in 0 .. m - 1
  BY <1>1, <1>3, ModFacts
<1>5. m * q \in Int
  BY <1>1, <1>4
<1>6. JavaInt(a) = a - m * q
  <2> DEFINE r == (a + h) % m
             p == m * q
  <2>1. JavaInt(a) = r - h /\ a + h = p + r /\ r \in Int /\ p \in Int
    BY <1>1, <1>2, <1>4, <1>5
  <2> HIDE DEF r, p
  <2>2. JavaInt(a) = a - p
    BY <1>1, <2>1
  <2> QED
    BY <2>2 DEF p
<1>7. (a - m * q) + b + h = (a + b + h) - m * q
  <2> DEFINE p == m * q
  <2>1. p \in Int
    BY <1>5
  <2> HIDE DEF p
  <2>2. (a - p) + b + h = (a + b + h) - p
    BY <1>1, <2>1
  <2> QED
    BY <2>2 DEF p
<1>8. a + b + h \in Int /\ a + b \in Int /\ JavaInt(a) + b \in Int
  BY <1>1, <1>5, <1>6
<1>9. ((a + b + h) - m * q) % m = (a + b + h) % m
  BY <1>1, <1>4, <1>8, ModShift
<1>10. JavaInt(JavaInt(a) + b) = ((JavaInt(a) + b + h) % m) - h
  BY <1>2, <1>8
<1>11. JavaInt(a + b) = ((a + b + h) % m) - h
  BY <1>2, <1>8
<1> QED
  BY <1>6, <1>7, <1>9, <1>10, <1>11

\* An empty cart costs 0.
LEMMA JavaIntZero == JavaInt(0) = 0
<1> DEFINE h == MaxInt + 1
           m == 2 * h
<1>1. h \in Nat \ {0} /\ m \in Nat \ {0} /\ h \in 0 .. m - 1 /\ 0 + MaxInt + 1 = h
  BY CheckoutAssumption
<1>2. JavaInt(0) = (h % m) - h
  BY <1>1 DEF JavaInt
<1> HIDE DEF h, m
<1>3. h \in Int
  BY <1>1
<1>4. PICK q \in Int : h = m * q + (h % m) /\ h % m \in 0 .. m - 1
  BY <1>1, <1>3, ModFacts
<1>5. h = m * 0 + h
  BY <1>1
<1>6. h % m = h
  BY <1>1, <1>4, <1>5, RemainderUnique
<1> QED
  BY <1>1, <1>2, <1>6

\* What a line costs is an integer.
LEMMA AmountType == ASSUME NEW t \in Adds PROVE AmountOf(t) \in Int
BY CheckoutAssumption DEF AmountOf

\* What a step of a Confirm_Cart leaves alone.
Others(c) == /\ DOMAIN confirm' = DOMAIN confirm
             /\ \A d \in DOMAIN confirm \ {c} : confirm'[d] = confirm[d]
             /\ confirm'[c].user = confirm[c].user /\ confirm'[c].life = confirm[c].life

\* Nor what it has added up, once it is through with that.
SameSum(c) == confirm'[c].total = confirm[c].total /\ confirm'[c].counted = confirm[c].counted

\* Rows that are there stay as they are.
Grows(old, new) == \A x \in DOMAIN old : x \in DOMAIN new /\ new[x] = old[x]

\* A step of one request replaces its row, and only its row.
LEMMA StepFacts ==
  ASSUME IsTable(confirm, Confirms, ConfirmState),
         NEW c \in DOMAIN confirm, NEW row \in ConfirmState, Step(c, row),
         row.user = confirm[c].user, row.life = confirm[c].life
  PROVE  IsTable(confirm', Confirms, ConfirmState) /\ Others(c) /\ confirm'[c] = row
BY ReplaceIsTable DEF Step, IsTable, Others

\* A request that ends keeps its ids, its place and its sum.
LEMMA EndFacts ==
  ASSUME IsTable(confirm, Confirms, ConfirmState),
         NEW c \in DOMAIN confirm, NEW label \in {"void", "partial", "done"}, End(c, label)
  PROVE  /\ IsTable(confirm', Confirms, ConfirmState) /\ Others(c) /\ SameSum(c)
         /\ confirm'[c].at = label /\ confirm'[c].i = confirm[c].i
         /\ confirm'[c].last = confirm[c].last /\ confirm'[c].order = confirm[c].order
<1> DEFINE row == [confirm[c] EXCEPT !.at = label]
<1>1. confirm[c] \in ConfirmState
  BY DEF IsTable
<1>2. /\ row \in ConfirmState /\ row.at = label /\ row.i = confirm[c].i
      /\ row.last = confirm[c].last /\ row.order = confirm[c].order
      /\ row.user = confirm[c].user /\ row.life = confirm[c].life
      /\ row.total = confirm[c].total /\ row.counted = confirm[c].counted
  BY <1>1 DEF ConfirmState
<1>3. Step(c, row)
  BY DEF End, Step
<1> HIDE DEF row
<1> QED
  BY <1>2, <1>3, StepFacts DEF SameSum

\* The initial state has the types.
LEMMA InitType == Init => TypeOK
<1> SUFFICES ASSUME Init PROVE TypeOK
  OBVIOUS
<1>1. NoSession \in [store: Stores \cup {None}, cart: BOOLEAN]
  BY DEF NoSession
<1>2. session \in [Users -> [store: Stores \cup {None}, cart: BOOLEAN]]
  BY <1>1 DEF Init
<1>3. /\ IsTable(slots, Nat, Adds) /\ IsTable(add, Adds, AddState)
      /\ IsTable(confirm, Confirms, ConfirmState)
      /\ IsTable(orders, Nat \ {0}, [store: Stores, total: Int])
      /\ IsTable(items, RowIds, [order: Nat \ {0}, idx: Nat, add: Adds])
  BY DEF Init, Nothing, IsTable
<1>4. DOMAIN copies = {} /\ DOMAIN add = {} /\ held \in [Confirms -> SUBSET Stores]
  BY DEF Init, Nothing
<1> QED
  BY <1>2, <1>3, <1>4, CheckoutAssumption DEF Init, TypeOK

\* What the steps of an add leave alone.
LEMMA AddLeaves ==
  ASSUME NEW t, AddItem(t)
  PROVE  UNCHANGED <<session, confirm, held, orders, items, crashes>>
BY DEF AddItem, Enter, Copy, Install, LoadArray, LoadSize, BumpSize, StoreElement, Reply, db

\* The call of an add begins: it marks itself and those under way, or none.
LEMMA EnterFacts ==
  ASSUME TypeOK, NEW t \in Adds, Enter(t)
  PROVE  /\ IsTable(add', Adds, AddState)
         /\ t \notin DOMAIN add /\ DOMAIN add' = DOMAIN add \cup {t}
         /\ add'[t].at = "room" /\ (add'[t].raced <=> \E u \in DOMAIN add : InAdd(u))
         /\ \A u \in DOMAIN add :
              /\ InAdd(u) => add'[u].raced /\ add'[u].at = add[u].at
              /\ ~InAdd(u) => add'[u].raced = add[u].raced /\ add'[u].at \notin Adding
              /\ add'[u].array = add[u].array /\ add'[u].idx = add[u].idx
         /\ UNCHANGED <<size, data, slots, copies>>
<1> DEFINE others == {u \in DOMAIN add : InAdd(u)}
           row(u) == IF u = t THEN [at |-> "room", array |-> None, idx |-> 0, raced |-> others # {}]
                     ELSE IF u \in others THEN [add[u] EXCEPT !.raced = TRUE]
                     ELSE IF add[u].at = "print" THEN [add[u] EXCEPT !.at = "shaken"]
                     ELSE add[u]
<1>1. \A u \in DOMAIN add : add[u] \in AddState
  BY DEF TypeOK, IsTable
<1>2. add' = [u \in DOMAIN add \cup {t} |-> row(u)] /\ t \notin DOMAIN add
  BY DEF Enter
<1>3. ASSUME NEW u \in DOMAIN add
      PROVE  /\ row(u) \in AddState
             /\ InAdd(u) => row(u).raced /\ row(u).at = add[u].at
             /\ ~InAdd(u) => row(u).raced = add[u].raced /\ row(u).at \notin Adding
             /\ row(u).array = add[u].array /\ row(u).idx = add[u].idx
  <2>1. add[u] \in AddState /\ u # t
    BY <1>1, <1>2
  <2>2. CASE InAdd(u)
    <3>1. row(u) = [add[u] EXCEPT !.raced = TRUE]
      BY <2>1, <2>2
    <3> QED
      BY <2>1, <2>2, <3>1 DEF AddState
  <2>3. CASE ~InAdd(u) /\ add[u].at = "print"
    <3>1. row(u) = [add[u] EXCEPT !.at = "shaken"]
      BY <2>1, <2>3
    <3> QED
      BY <2>1, <2>3, <3>1 DEF AddState, Adding
  <2>4. CASE ~InAdd(u) /\ add[u].at # "print"
    <3>1. row(u) = add[u]
      BY <2>1, <2>4
    <3> QED
      BY <2>1, <2>4, <3>1 DEF InAdd
  <2> QED
    BY <2>2, <2>3, <2>4
<1>4. /\ row(t) \in AddState /\ row(t).at = "room"
      /\ row(t).raced <=> \E u \in DOMAIN add : InAdd(u)
  BY DEF AddState, Adding
<1> HIDE DEF row
<1>5. IsTable(add', Adds, AddState)
  BY <1>2, <1>3, <1>4 DEF TypeOK, IsTable
<1> QED
  BY <1>2, <1>3, <1>4, <1>5 DEF Enter, cart

\* Any other step of an add moves it alone, and leaves its mark as it is.
Moves(t, label) == /\ IsTable(add', Adds, AddState)
                   /\ t \in DOMAIN add /\ DOMAIN add' = DOMAIN add
                   /\ add'[t].at = label /\ add'[t].raced = add[t].raced
                   /\ \A u \in DOMAIN add \ {t} : add'[u] = add[u]

\* A row with the same mark, in its place.
LEMMA RowMoves ==
  ASSUME IsTable(add, Adds, AddState), NEW t \in DOMAIN add, NEW row \in AddState,
         add' = [add EXCEPT ![t] = row], row.raced = add[t].raced
  PROVE  Moves(t, row.at) /\ add'[t] = row
BY ReplaceIsTable DEF IsTable, Moves

\* The array is copied; a race may cut the copy short.
LEMMA CopyFacts ==
  ASSUME TypeOK, NEW t, Copy(t)
  PROVE  /\ Moves(t, "install") /\ add[t].at = "room" /\ add'[t].array = data
         /\ t \notin DOMAIN copies /\ DOMAIN copies' = DOMAIN copies \cup {t}
         /\ \A u \in DOMAIN copies : copies'[u] = copies[u]
         /\ ~add[t].raced => copies'[t] = slots
         /\ IsTable(copies'[t], Nat, Adds) /\ DOMAIN copies'[t] \subseteq DOMAIN slots
         /\ UNCHANGED <<size, data, slots>>
<1> DEFINE row == [add[t] EXCEPT !.at = "install", !.array = data]
<1>1. t \in DOMAIN add /\ add[t].at = "room" /\ add[t] \in AddState
  BY DEF Copy, AddAt, TypeOK, IsTable
<1>2. /\ row \in AddState /\ row.at = "install" /\ row.array = data
      /\ row.raced = add[t].raced
  BY <1>1 DEF AddState, Adding, TypeOK
<1>3. add' = [add EXCEPT ![t] = row]
  BY DEF Copy
<1> HIDE DEF row
<1>4. Moves(t, "install") /\ add'[t].array = data
  BY <1>1, <1>2, <1>3, RowMoves DEF TypeOK
<1>5. t \notin DOMAIN copies
  BY <1>1 DEF TypeOK
<1>6. PICK copy : /\ copy \in {slots} \cup (IF add[t].raced THEN Prefixes ELSE {})
                  /\ copies' = Insert(copies, t, copy)
  BY DEF Copy
<1>7. IsTable(copy, Nat, Adds) /\ DOMAIN copy \subseteq DOMAIN slots
  <2>1. CASE copy = slots
    BY <2>1 DEF TypeOK
  <2>2. ASSUME NEW S, S \subseteq DOMAIN slots, copy = Restrict(slots, S)
        PROVE  IsTable(copy, Nat, Adds) /\ DOMAIN copy \subseteq DOMAIN slots
    BY <2>2 DEF TypeOK, IsTable, Restrict
  <2> QED
    BY <1>6, <2>1, <2>2 DEF Prefixes
<1> QED
  BY <1>1, <1>4, <1>5, <1>6, <1>7 DEF Copy, Insert

\* The copy becomes the list's array.
LEMMA InstallFacts ==
  ASSUME TypeOK, NEW t \in Adds, Install(t)
  PROVE  /\ Moves(t, "load") /\ add[t].at = "install"
         /\ t \in DOMAIN copies /\ slots' = copies[t] /\ data' = t
         /\ DOMAIN copies' = DOMAIN copies \ {t}
         /\ \A u \in DOMAIN copies \ {t} : copies'[u] = copies[u]
         /\ UNCHANGED size
<1> DEFINE row == [add[t] EXCEPT !.at = "load"]
<1>1. t \in DOMAIN add /\ add[t].at = "install" /\ add[t] \in AddState
  BY DEF Install, AddAt, TypeOK, IsTable
<1>2. row \in AddState /\ row.at = "load" /\ row.raced = add[t].raced
  BY <1>1 DEF AddState, Adding
<1>3. add' = [add EXCEPT ![t] = row]
  BY DEF Install
<1> HIDE DEF row
<1>4. Moves(t, "load")
  BY <1>1, <1>2, <1>3, RowMoves DEF TypeOK
<1>5. t \in DOMAIN copies
  BY <1>1 DEF TypeOK
<1>6. /\ DOMAIN copies' = DOMAIN copies \ {t}
      /\ \A u \in DOMAIN copies \ {t} : copies'[u] = copies[u]
  BY DEF Install, Delete, Restrict
<1> QED
  BY <1>1, <1>4, <1>5, <1>6 DEF Install

\* Array and size are read, and the size is written.
LEMMA ReadFacts ==
  ASSUME TypeOK, NEW t, LoadArray(t) \/ LoadSize(t)
  PROVE  /\ \/ /\ Moves(t, "size") /\ add[t].at \in {"room", "load"}
               /\ add'[t].array = data
            \/ /\ Moves(t, "bump") /\ add[t].at = "size"
               /\ add'[t].array = add[t].array /\ add'[t].idx = size
         /\ UNCHANGED <<size, data, slots, copies>>
<1>1. t \in DOMAIN add /\ add[t] \in AddState
  BY DEF LoadArray, LoadSize, AddAt, TypeOK, IsTable
<1>2. UNCHANGED <<size, data, slots, copies>>
  BY DEF LoadArray, LoadSize, cart
<1>3. CASE LoadArray(t)
  <2> DEFINE row == [add[t] EXCEPT !.at = "size", !.array = data]
  <2>1. row \in AddState /\ row.at = "size" /\ row.raced = add[t].raced /\ row.array = data
    BY <1>1 DEF AddState, Adding, TypeOK
  <2>2. add' = [add EXCEPT ![t] = row] /\ add[t].at \in {"room", "load"}
    BY <1>3 DEF LoadArray, AddAt
  <2> HIDE DEF row
  <2> QED
    BY <1>1, <1>2, <2>1, <2>2, RowMoves DEF TypeOK
<1>4. CASE LoadSize(t)
  <2> DEFINE row == [add[t] EXCEPT !.at = "bump", !.idx = size]
  <2>1. /\ row \in AddState /\ row.at = "bump" /\ row.raced = add[t].raced
        /\ row.array = add[t].array /\ row.idx = size
    BY <1>1 DEF AddState, Adding, TypeOK
  <2>2. add' = [add EXCEPT ![t] = row] /\ add[t].at = "size"
    BY <1>4 DEF LoadSize, AddAt
  <2> HIDE DEF row
  <2> QED
    BY <1>1, <1>2, <2>1, <2>2, RowMoves DEF TypeOK
<1> QED
  BY <1>3, <1>4

LEMMA BumpFacts ==
  ASSUME TypeOK, NEW t, BumpSize(t)
  PROVE  /\ Moves(t, "store") /\ add[t].at = "bump"
         /\ add'[t].array = add[t].array /\ add'[t].idx = add[t].idx
         /\ add[t].idx \in Nat /\ size' = add[t].idx + 1
         /\ UNCHANGED <<data, slots, copies>>
<1> DEFINE row == [add[t] EXCEPT !.at = "store"]
<1>1. t \in DOMAIN add /\ add[t] \in AddState /\ add[t].at = "bump"
  BY DEF BumpSize, AddAt, TypeOK, IsTable
<1>2. /\ row \in AddState /\ row.at = "store" /\ row.raced = add[t].raced
      /\ row.array = add[t].array /\ row.idx = add[t].idx
  BY <1>1 DEF AddState, Adding
<1>3. add' = [add EXCEPT ![t] = row]
  BY DEF BumpSize
<1> HIDE DEF row
<1>4. Moves(t, "store") /\ add'[t].array = add[t].array /\ add'[t].idx = add[t].idx
  BY <1>1, <1>2, <1>3, RowMoves DEF TypeOK
<1> QED
  BY <1>1, <1>4 DEF BumpSize, AddState

\* The element goes to the place that was read, of the list and of copies, or nowhere.
LEMMA StoreFacts ==
  ASSUME TypeOK, NEW t \in Adds, StoreElement(t)
  PROVE  /\ \E label \in {"print", "shaken", "failed"} : Moves(t, label)
         /\ add[t].at = "store" /\ add[t].idx \in Nat
         /\ slots' = slots \/ slots' = Insert(slots, add[t].idx, t)
         /\ ~add[t].raced /\ add[t].array = data => slots' = Insert(slots, add[t].idx, t)
         /\ DOMAIN copies' = DOMAIN copies
         /\ \A u \in DOMAIN copies : \/ copies'[u] = copies[u]
                                     \/ copies'[u] = Insert(copies[u], add[t].idx, t)
         /\ UNCHANGED <<size, data>>
<1>1. t \in DOMAIN add /\ add[t] \in AddState /\ add[t].at = "store"
  BY DEF StoreElement, AddAt, TypeOK, IsTable
<1>2. PICK label \in {"print", "shaken", "failed"} : add' = [add EXCEPT ![t] = Left(t, label)]
  BY DEF StoreElement
<1>3. /\ Left(t, label) \in AddState /\ Left(t, label).at = label
      /\ Left(t, label).raced = add[t].raced
  BY <1>1 DEF Left, AddState
<1>4. Moves(t, label)
  BY <1>1, <1>2, <1>3, RowMoves DEF TypeOK
<1>5. /\ DOMAIN copies' = DOMAIN copies
      /\ \A u \in DOMAIN copies : \/ copies'[u] = copies[u]
                                  \/ copies'[u] = Insert(copies[u], add[t].idx, t)
  <2>1. CASE copies' = copies
    BY <2>1
  <2>2. ASSUME NEW seen, copies' = [u \in DOMAIN copies |->
                 IF u \in seen THEN Insert(copies[u], add[t].idx, t) ELSE copies[u]]
        PROVE  /\ DOMAIN copies' = DOMAIN copies
               /\ \A u \in DOMAIN copies : \/ copies'[u] = copies[u]
                                           \/ copies'[u] = Insert(copies[u], add[t].idx, t)
    BY <2>2
  <2> QED
    BY <2>1, <2>2 DEF StoreElement
<1>6. /\ slots' = slots \/ slots' = Insert(slots, add[t].idx, t)
      /\ ~add[t].raced /\ add[t].array = data => slots' = Insert(slots, add[t].idx, t)
  BY DEF StoreElement
<1> QED
  BY <1>1, <1>4, <1>5, <1>6 DEF StoreElement, AddState

LEMMA ReplyFacts ==
  ASSUME TypeOK, NEW t, Reply(t)
  PROVE  /\ \E label \in {"ok", "failed"} : Moves(t, label)
         /\ add[t].at \in {"print", "shaken"}
         /\ UNCHANGED <<size, data, slots, copies>>
<1>1. t \in DOMAIN add /\ add[t] \in AddState /\ add[t].at \in {"print", "shaken"}
  BY DEF Reply, AddAt, TypeOK, IsTable
<1>2. PICK label \in {"ok", "failed"} : add' = [add EXCEPT ![t].at = label]
  BY DEF Reply
<1> DEFINE row == [add[t] EXCEPT !.at = label]
<1>3. row \in AddState /\ row.at = label /\ row.raced = add[t].raced
  BY <1>1 DEF AddState
<1>4. add' = [add EXCEPT ![t] = row]
  BY <1>2
<1> HIDE DEF row
<1>5. Moves(t, label)
  BY <1>1, <1>3, <1>4, RowMoves DEF TypeOK
<1> QED
  BY <1>1, <1>5 DEF Reply, cart

\* The steps of AddItem.
LEMMA AddStepsKeepType ==
  ASSUME TypeOK, NEW t \in Adds, AddItem(t)
  PROVE  TypeOK'
<1>a. ASSUME IsTable(add', Adds, AddState), size' \in Nat, data' \in Adds \cup {None},
             IsTable(slots', Nat, Adds),
             DOMAIN copies' = {u \in DOMAIN add' : add'[u].at = "install"},
             \A u \in DOMAIN copies' : IsTable(copies'[u], Nat, Adds)
      PROVE  TypeOK'
  BY <1>a, AddLeaves DEF TypeOK
<1>t. /\ size \in Nat /\ data \in Adds \cup {None} /\ IsTable(slots, Nat, Adds)
      /\ DOMAIN copies = {u \in DOMAIN add : add[u].at = "install"}
      /\ \A u \in DOMAIN copies : IsTable(copies[u], Nat, Adds)
  BY DEF TypeOK
<1>b. ASSUME NEW label, Moves(t, label), label # "install", add[t].at # "install"
      PROVE  {u \in DOMAIN add' : add'[u].at = "install"} = DOMAIN copies
  BY <1>b, <1>t DEF Moves
<1>1. CASE Enter(t)
  <2>1. {u \in DOMAIN add' : add'[u].at = "install"} = DOMAIN copies
    <3>1. \A u \in DOMAIN add : add'[u].at = "install" <=> add[u].at = "install"
      BY <1>1, EnterFacts DEF InAdd, Adding
    <3> QED
      BY <1>1, <1>t, <3>1, EnterFacts
  <2> QED
    BY <1>1, <1>a, <1>t, <2>1, EnterFacts
<1>2. CASE Copy(t)
  <2>1. {u \in DOMAIN add' : add'[u].at = "install"} = DOMAIN copies \cup {t}
    BY <1>2, <1>t, CopyFacts DEF Moves
  <2>2. ASSUME NEW u \in DOMAIN copies' PROVE IsTable(copies'[u], Nat, Adds)
    <3>1. CASE u = t
      BY <1>2, <3>1, CopyFacts
    <3>2. CASE u # t
      <4>1. u \in DOMAIN copies /\ copies'[u] = copies[u]
        BY <1>2, <2>2, <3>2, CopyFacts
      <4> QED
        BY <1>t, <4>1
    <3> QED
      BY <3>1, <3>2
  <2> QED
    BY <1>2, <1>a, <1>t, <2>1, <2>2, CopyFacts DEF Moves
<1>3. CASE Install(t)
  <2>1. {u \in DOMAIN add' : add'[u].at = "install"} = DOMAIN copies \ {t}
    BY <1>3, <1>t, InstallFacts DEF Moves
  <2>2. /\ \A u \in DOMAIN copies' : IsTable(copies'[u], Nat, Adds)
        /\ IsTable(slots', Nat, Adds)
    BY <1>3, <1>t, InstallFacts
  <2> QED
    BY <1>3, <1>a, <1>t, <2>1, <2>2, InstallFacts DEF Moves
<1>4. CASE LoadArray(t) \/ LoadSize(t)
  BY <1>4, <1>a, <1>b, <1>t, ReadFacts DEF Moves
<1>5. CASE BumpSize(t)
  <2>1. size' \in Nat /\ UNCHANGED <<data, slots, copies>>
    BY <1>5, BumpFacts
  <2>2. /\ IsTable(add', Adds, AddState)
        /\ {u \in DOMAIN add' : add'[u].at = "install"} = DOMAIN copies
    BY <1>5, <1>b, BumpFacts DEF Moves
  <2> QED
    BY <1>a, <1>t, <2>1, <2>2
<1>6. CASE StoreElement(t)
  <2>0. ASSUME NEW elems, IsTable(elems, Nat, Adds)
        PROVE  IsTable(Insert(elems, add[t].idx, t), Nat, Adds)
    <3>1. add[t].idx \in Nat
      BY <1>6, StoreFacts
    <3> QED
      BY <2>0, <3>1, InsertIsTable
  <2>1. IsTable(slots', Nat, Adds)
    BY <1>6, <1>t, <2>0, StoreFacts
  <2>2. ASSUME NEW u \in DOMAIN copies PROVE IsTable(copies'[u], Nat, Adds)
    <3>1. copies'[u] = copies[u] \/ copies'[u] = Insert(copies[u], add[t].idx, t)
      BY <1>6, StoreFacts
    <3> QED
      BY <1>t, <2>0, <3>1
  <2> QED
    BY <1>6, <1>a, <1>b, <1>t, <2>1, <2>2, StoreFacts DEF Moves
<1>7. CASE Reply(t)
  BY <1>7, <1>a, <1>b, <1>t, ReplyFacts DEF Moves
<1> QED
  BY <1>1, <1>2, <1>3, <1>4, <1>5, <1>6, <1>7 DEF AddItem

\* The steps of a session.
LEMMA SessionStepsKeepType ==
  ASSUME TypeOK, NEW u \in Users, Login(u) \/ ViewCart(u) \/ Expire(u)
  PROVE  TypeOK'
<1> DEFINE Session == [store: Stores \cup {None}, cart: BOOLEAN]
<1>1. session \in [Users -> Session] /\ session[u] \in Session
  BY DEF TypeOK
<1>2. CASE Login(u)
  <2>1. PICK s \in Stores : session' = [session EXCEPT ![u].store = s] /\ held' = HeldAfter(u, s)
    BY <1>2 DEF Login
  <2>2. [session[u] EXCEPT !.store = s] \in Session
    BY <1>1
  <2>3. session' \in [Users -> Session]
    BY <1>1, <2>1, <2>2
  <2>4. held' \in [Confirms -> SUBSET Stores]
    BY <2>1 DEF HeldAfter, TypeOK
  <2> QED
    BY <1>2, <2>3, <2>4 DEF Login, TypeOK, cart, db
<1>3. CASE ViewCart(u)
  <2>1. [session[u] EXCEPT !.cart = TRUE] \in Session
    BY <1>1
  <2>2. session' \in [Users -> Session]
    BY <1>1, <1>3, <2>1 DEF ViewCart
  <2> QED
    BY <1>3, <2>2 DEF ViewCart, TypeOK, cart, db
<1>4. CASE Expire(u)
  <2>1. NoSession \in Session
    BY DEF NoSession
  <2>2. session' \in [Users -> Session]
    BY <1>1, <1>4, <2>1 DEF Expire
  <2> QED
    BY <1>4, <2>2 DEF Expire, TypeOK, cart, db
<1> QED
  BY <1>2, <1>3, <1>4

\* The orders are numbered without a gap, so the next number is a new one.
Numbered == \E n \in Nat : DOMAIN orders = 1 .. n

\* The next order id is not in use, and the ids stay 1 to n.
LEMMA NextNumber ==
  ASSUME Numbered
  PROVE  LET o == Cardinality(DOMAIN orders) + 1
         IN  o \in Nat \ {0} /\ o \notin DOMAIN orders /\ DOMAIN orders \cup {o} = 1 .. o
<1>1. PICK n \in Nat : DOMAIN orders = 1 .. n
  BY DEF Numbered
<1>2. Cardinality(1 .. n) = IF 1 > n THEN 0 ELSE n - 1 + 1
  BY FS_Interval
<1>3. Cardinality(DOMAIN orders) = n
  BY <1>1, <1>2
<1>4. (1 .. n) \cup {n + 1} = 1 .. n + 1 /\ n + 1 \notin 1 .. n
  OBVIOUS
<1> QED
  BY <1>1, <1>3, <1>4

\* What each step of Confirm_Cart does to its own row, and what to the tables.
LEMMA BeginFacts ==
  ASSUME TypeOK, NEW c \in Confirms, Begin(c)
  PROVE  /\ IsTable(confirm', Confirms, ConfirmState)
         /\ c \notin DOMAIN confirm /\ DOMAIN confirm' = DOMAIN confirm \cup {c}
         /\ \A d \in DOMAIN confirm : confirm'[d] = confirm[d]
         /\ confirm'[c].at \in {"sum", "void"} /\ confirm'[c].i = 0
         /\ confirm'[c].last = 0 /\ confirm'[c].order = 0 /\ confirm'[c].life = crashes
         /\ confirm'[c].total = 0 /\ confirm'[c].counted = 0
<1>1. PICK u \in Users : confirm' = Insert(confirm, c,
         [at |-> IF session[u].cart THEN "sum" ELSE "void", user |-> u,
          i |-> 0, total |-> 0, counted |-> 0, store |-> None, last |-> 0,
          order |-> 0, life |-> crashes])
  BY DEF Begin
<1> DEFINE row == [at |-> IF session[u].cart THEN "sum" ELSE "void", user |-> u,
                   i |-> 0, total |-> 0, counted |-> 0, store |-> None, last |-> 0,
                   order |-> 0, life |-> crashes]
<1>2. crashes \in Nat
  BY CheckoutAssumption DEF TypeOK
<1>3. row \in ConfirmState /\ row.at \in {"sum", "void"} /\ row.i = 0
      /\ row.last = 0 /\ row.order = 0 /\ row.life = crashes
      /\ row.total = 0 /\ row.counted = 0
  BY <1>2 DEF ConfirmState, Confirming
<1> HIDE DEF row
<1>4. confirm' = Insert(confirm, c, row)
  BY <1>1 DEF row
<1>5. IsTable(confirm', Confirms, ConfirmState)
  BY <1>3, <1>4, InsertIsTable DEF TypeOK
<1> QED
  BY <1>3, <1>4, <1>5 DEF Begin, Insert

\* A turn of the totalling loop goes one slot further, ends the loop, or meets a hole.
LEMMA SumFacts ==
  ASSUME TypeOK, NEW c, SumEntry(c)
  PROVE  /\ c \in DOMAIN confirm /\ confirm[c].at = "sum"
         /\ IsTable(confirm', Confirms, ConfirmState) /\ Others(c)
         /\ confirm'[c].last = confirm[c].last /\ confirm'[c].order = confirm[c].order
         /\ \/ /\ confirm'[c].at = "store" /\ confirm[c].i >= size
               /\ confirm'[c].counted = confirm[c].i /\ confirm'[c].total = confirm[c].total
            \/ confirm'[c].at = "void"
            \/ /\ confirm'[c].at = "sum" /\ confirm[c].i < size
               /\ confirm[c].i \in DOMAIN slots /\ confirm'[c].i = confirm[c].i + 1
               /\ confirm'[c].total = JavaInt(confirm[c].total + AmountOf(slots[confirm[c].i]))
<1> DEFINE f == confirm[c]
<1>1. c \in DOMAIN confirm /\ f.at = "sum" /\ f \in ConfirmState
  BY DEF SumEntry, ConfirmAt, TypeOK, IsTable
<1>2. CASE f.i >= size /\ Step(c, [f EXCEPT !.at = "store", !.counted = f.i])
  <2> DEFINE row == [f EXCEPT !.at = "store", !.counted = f.i]
  <2>1. /\ row \in ConfirmState /\ row.at = "store" /\ row.last = f.last /\ row.order = f.order
        /\ row.user = f.user /\ row.life = f.life /\ row.counted = f.i /\ row.total = f.total
    BY <1>1 DEF ConfirmState, Confirming
  <2>2. Step(c, row) /\ f.i >= size
    BY <1>2
  <2> HIDE DEF row
  <2> QED
    BY <1>1, <2>1, <2>2, StepFacts DEF TypeOK
<1>3. CASE End(c, "void")
  BY <1>1, <1>3, EndFacts DEF TypeOK
<1>4. CASE /\ f.i < size /\ f.i \in DOMAIN slots
           /\ Step(c, [f EXCEPT !.i = @ + 1, !.total = JavaInt(@ + AmountOf(slots[f.i]))])
  <2>1. slots[f.i] \in Adds
    BY <1>4 DEF TypeOK, IsTable
  <2>2. JavaInt(f.total + AmountOf(slots[f.i])) \in Int
    <3>1. f.total + AmountOf(slots[f.i]) \in Int
      BY <1>1, <2>1, AmountType DEF ConfirmState
    <3> QED
      BY <3>1, JavaIntType
  <2> DEFINE new == JavaInt(f.total + AmountOf(slots[f.i]))
             row == [f EXCEPT !.i = @ + 1, !.total = new]
  <2>3. Step(c, row)
    BY <1>4
  <2>4. new \in Int
    BY <2>2
  <2> HIDE DEF new
  <2>5. f.i + 1 \in Nat
    BY <1>1 DEF ConfirmState
  <2>6. row \in ConfirmState
    BY <1>1, <2>4, <2>5 DEF ConfirmState
  <2>7. /\ row \in ConfirmState /\ row.at = "sum" /\ row.i = f.i + 1 /\ row.total = new
        /\ row.last = f.last /\ row.order = f.order
        /\ row.user = f.user /\ row.life = f.life
    BY <1>1, <2>6 DEF ConfirmState
  <2> HIDE DEF row
  <2> QED
    BY <1>1, <1>4, <2>3, <2>7, StepFacts DEF TypeOK, new
<1> QED
  BY <1>2, <1>3, <1>4 DEF SumEntry

\* The store is that of the session at the moment it is read; without one the
\* request ends.
LEMMA StoreReadFacts ==
  ASSUME TypeOK, NEW c, ReadStore(c)
  PROVE  /\ c \in DOMAIN confirm /\ confirm[c].at = "store"
         /\ IsTable(confirm', Confirms, ConfirmState) /\ Others(c) /\ SameSum(c)
         /\ confirm'[c].last = confirm[c].last /\ confirm'[c].order = confirm[c].order
         /\ \/ confirm'[c].at = "void"
            \/ /\ confirm'[c].at = "place" /\ confirm'[c].store \in Stores
               /\ confirm'[c].store = session[confirm[c].user].store
<1> DEFINE f == confirm[c]
           s == session[f.user].store
<1>1. c \in DOMAIN confirm /\ f.at = "store" /\ f \in ConfirmState
  BY DEF ReadStore, ConfirmAt, TypeOK, IsTable
<1>2. CASE s = None
  <2>1. End(c, "void")
    BY <1>2 DEF ReadStore
  <2> QED
    BY <1>1, <2>1, EndFacts DEF TypeOK
<1>3. CASE s # None
  <2> DEFINE row == [f EXCEPT !.at = "place", !.store = s]
  <2>1. s \in Stores
    BY <1>1, <1>3 DEF TypeOK, ConfirmState
  <2>2. Step(c, row)
    BY <1>3 DEF ReadStore
  <2> HIDE DEF s
  <2>3. /\ row \in ConfirmState /\ row.at = "place" /\ row.store = s
        /\ row.last = f.last /\ row.order = f.order /\ row.user = f.user /\ row.life = f.life
        /\ row.total = f.total /\ row.counted = f.counted
    BY <1>1, <2>1 DEF ConfirmState, Confirming
  <2> HIDE DEF row
  <2>4. /\ IsTable(confirm', Confirms, ConfirmState) /\ Others(c) /\ SameSum(c)
        /\ confirm'[c] = row
    BY <1>1, <2>2, <2>3, StepFacts DEF TypeOK, SameSum
  <2> QED
    BY <1>1, <2>1, <2>3, <2>4 DEF s
<1> QED
  BY <1>2, <1>3

\* The insert adds the next id, filed under the store that was read.
LEMMA PlaceFacts ==
  ASSUME TypeOK, Numbered, NEW c, PlaceOrder(c), confirm[c].store \in Stores
  PROVE  LET o == Cardinality(DOMAIN orders) + 1
         IN  /\ c \in DOMAIN confirm /\ confirm[c].at = "place"
             /\ IsTable(confirm', Confirms, ConfirmState) /\ Others(c) /\ SameSum(c)
             /\ confirm'[c].at = "id" /\ confirm'[c].last = o /\ confirm'[c].i = 0
             /\ confirm'[c].order = confirm[c].order
             /\ IsTable(orders', Nat \ {0}, [store: Stores, total: Int]) /\ Numbered'
             /\ orders'[o].store = confirm[c].store /\ orders'[o].total = confirm[c].total
             /\ \A p \in DOMAIN orders : orders'[p] = orders[p]
             /\ o \in Nat \ {0} /\ o \notin DOMAIN orders
             /\ DOMAIN orders' = DOMAIN orders \cup {o}
<1> DEFINE f == confirm[c]
           o == Cardinality(DOMAIN orders) + 1
<1>1. c \in DOMAIN confirm /\ f.at = "place" /\ f \in ConfirmState
  BY DEF PlaceOrder, ConfirmAt, TypeOK, IsTable
<1>2. /\ orders' = Insert(orders, o, [store |-> f.store, total |-> f.total])
      /\ Step(c, [f EXCEPT !.at = "id", !.last = o, !.i = 0])
  BY DEF PlaceOrder
<1>3. o \in Nat \ {0} /\ o \notin DOMAIN orders /\ DOMAIN orders \cup {o} = 1 .. o
  BY NextNumber
<1>4. [store |-> f.store, total |-> f.total] \in [store: Stores, total: Int]
  BY <1>1 DEF ConfirmState
<1>5. IsTable(orders', Nat \ {0}, [store: Stores, total: Int])
  BY <1>2, <1>3, <1>4, InsertIsTable DEF TypeOK
<1>6. /\ DOMAIN orders' = DOMAIN orders \cup {o}
      /\ orders'[o].store = f.store /\ orders'[o].total = f.total
      /\ \A p \in DOMAIN orders : orders'[p] = orders[p]
  BY <1>2, <1>3 DEF Insert
<1>7. Numbered'
  BY <1>3, <1>6 DEF Numbered
<1> HIDE DEF o
<1> DEFINE row == [f EXCEPT !.at = "id", !.last = o, !.i = 0]
<1>8. /\ row \in ConfirmState /\ row.at = "id" /\ row.last = o /\ row.i = 0
      /\ row.order = f.order /\ row.user = f.user /\ row.life = f.life
      /\ row.total = f.total /\ row.counted = f.counted
  BY <1>1, <1>3 DEF ConfirmState, Confirming
<1>9. Step(c, row)
  BY <1>2
<1> HIDE DEF row
<1>10. /\ IsTable(confirm', Confirms, ConfirmState) /\ Others(c) /\ SameSum(c)
       /\ confirm'[c].order = f.order
       /\ confirm'[c].at = "id" /\ confirm'[c].last = o /\ confirm'[c].i = 0
  BY <1>1, <1>8, <1>9, StepFacts DEF TypeOK, SameSum
<1> QED
  BY <1>1, <1>3, <1>5, <1>6, <1>7, <1>10 DEF o

\* The second statement makes the inserted order the request's own.
LEMMA TakeFacts ==
  ASSUME TypeOK, NEW c, TakeId(c)
  PROVE  /\ c \in DOMAIN confirm /\ confirm[c].at = "id"
         /\ IsTable(confirm', Confirms, ConfirmState) /\ Others(c) /\ SameSum(c)
         /\ confirm'[c].at = "lines" /\ confirm'[c].last = confirm[c].last
         /\ confirm'[c].i = confirm[c].i /\ confirm'[c].order = confirm[c].last
<1> DEFINE f == confirm[c]
<1>1. c \in DOMAIN confirm /\ f.at = "id" /\ f \in ConfirmState
  BY DEF TakeId, ConfirmAt, TypeOK, IsTable
<1> DEFINE row == [f EXCEPT !.at = "lines", !.order = f.last]
<1>2. /\ row \in ConfirmState /\ row.at = "lines" /\ row.last = f.last
      /\ row.i = f.i /\ row.order = f.last /\ row.user = f.user /\ row.life = f.life
      /\ row.total = f.total /\ row.counted = f.counted
  BY <1>1 DEF ConfirmState, Confirming
<1>3. Step(c, row)
  BY DEF TakeId, LastInsertId
<1> HIDE DEF row
<1> QED
  BY <1>1, <1>2, <1>3, StepFacts DEF TypeOK, SameSum

\* A turn of the inserting loop adds one line, ends the loop, or meets a hole.
LEMMA LineFacts ==
  ASSUME TypeOK, NEW c, InsertLine(c), confirm[c].order # 0
  PROVE  /\ c \in DOMAIN confirm /\ confirm[c].at = "lines"
         /\ IsTable(confirm', Confirms, ConfirmState) /\ Others(c) /\ SameSum(c)
         /\ IsTable(items', RowIds, [order: Nat \ {0}, idx: Nat, add: Adds])
         /\ confirm'[c].last = confirm[c].last /\ confirm'[c].order = confirm[c].order
         /\ \/ /\ confirm'[c].at \in {"done", "partial"} /\ confirm'[c].i = confirm[c].i
               /\ confirm'[c].at = "done" => confirm[c].i >= size
               /\ items' = items
            \/ /\ confirm'[c].at = "lines" /\ confirm'[c].i = confirm[c].i + 1
               /\ confirm[c].i \in DOMAIN slots
               /\ \E k \in RowIds \ DOMAIN items : items' = Insert(items, k, LineRow(c))
<1> DEFINE f == confirm[c]
<1>1. c \in DOMAIN confirm /\ f.at = "lines" /\ f \in ConfirmState
  BY DEF InsertLine, ConfirmAt, TypeOK, IsTable
<1>2. CASE UNCHANGED items /\ ((f.i >= size /\ End(c, "done")) \/ End(c, "partial"))
  <2>1. PICK label \in {"done", "partial"} : End(c, label) /\ (label = "done" => f.i >= size)
    BY <1>2
  <2> QED
    BY <1>1, <1>2, <2>1, EndFacts DEF TypeOK
<1>3. CASE /\ f.i < size /\ f.i \in DOMAIN slots
           /\ HasRoom(items, RowIds)
           /\ items' = Insert(items, FreshKey(items, RowIds), LineRow(c))
           /\ Step(c, [f EXCEPT !.i = @ + 1])
  <2> DEFINE row == [f EXCEPT !.i = @ + 1]
  <2>1. /\ row \in ConfirmState /\ row.at = "lines" /\ row.i = f.i + 1
        /\ row.last = f.last /\ row.order = f.order /\ row.user = f.user /\ row.life = f.life
        /\ row.total = f.total /\ row.counted = f.counted
    BY <1>1 DEF ConfirmState
  <2>7. Step(c, row)
    BY <1>3
  <2> HIDE DEF row
  <2>2. slots[f.i] \in Adds
    BY <1>3 DEF TypeOK, IsTable
  <2>3. LineRow(c) \in [order: Nat \ {0}, idx: Nat, add: Adds]
    BY <1>1, <2>2 DEF LineRow, ConfirmState
  <2>4. FreshKey(items, RowIds) \in RowIds \ DOMAIN items
    BY <1>3, FreshKeyFacts
  <2>5. IsTable(items', RowIds, [order: Nat \ {0}, idx: Nat, add: Adds])
    BY <1>3, <2>3, <2>4, InsertIsTable DEF TypeOK
  <2>6. /\ IsTable(confirm', Confirms, ConfirmState) /\ Others(c) /\ SameSum(c)
        /\ confirm'[c].last = f.last /\ confirm'[c].order = f.order
        /\ confirm'[c].at = "lines" /\ confirm'[c].i = f.i + 1
    BY <1>1, <2>1, <2>7, StepFacts DEF TypeOK, SameSum
  <2> QED
    BY <1>1, <1>3, <2>4, <2>5, <2>6
<1> QED
  BY <1>2, <1>3 DEF InsertLine

\* An exception ends a request and writes nothing.
LEMMA StopFacts ==
  ASSUME TypeOK, NEW c, Stop(c)
  PROVE  /\ c \in DOMAIN confirm /\ confirm[c].at \in Confirming
         /\ IsTable(confirm', Confirms, ConfirmState) /\ Others(c) /\ SameSum(c)
         /\ confirm'[c].at = Cut(confirm[c].at) /\ confirm'[c].i = confirm[c].i
         /\ confirm'[c].last = confirm[c].last /\ confirm'[c].order = confirm[c].order
<1>1. c \in DOMAIN confirm /\ confirm[c].at \in Confirming /\ confirm[c] \in ConfirmState
  BY DEF Stop, TypeOK, IsTable
<1>2. Cut(confirm[c].at) \in {"void", "partial", "done"}
  BY DEF Cut
<1> QED
  BY <1>1, <1>2, EndFacts DEF Stop, TypeOK

\* What a crash leaves of the requests.
LEMMA CrashFacts ==
  ASSUME TypeOK, Crash
  PROVE  /\ IsTable(confirm', Confirms, ConfirmState) /\ IsTable(add', Adds, AddState)
         /\ DOMAIN confirm' = DOMAIN confirm /\ DOMAIN add' = DOMAIN add
         /\ \A c \in DOMAIN confirm :
              IF confirm[c].at \in Confirming
                THEN confirm'[c] = [confirm[c] EXCEPT !.at = Cut(confirm[c].at)]
                ELSE confirm'[c] = confirm[c]
         /\ \A t \in DOMAIN add : add'[t].at \in {"ok", "failed"} /\ add'[t].raced = add[t].raced
<1>1. ASSUME NEW c \in DOMAIN confirm
      PROVE  [confirm[c] EXCEPT !.at = Cut(@)] \in ConfirmState
  BY DEF TypeOK, IsTable, ConfirmState, Cut
<1>2. IsTable(confirm', Confirms, ConfirmState)
  BY <1>1 DEF Crash, TypeOK, IsTable
<1>3. ASSUME NEW t \in DOMAIN add
      PROVE  /\ add[t] \in AddState /\ Left(t, "failed") \in AddState
             /\ Left(t, "failed").at = "failed" /\ Left(t, "failed").raced = add[t].raced
  BY DEF TypeOK, IsTable, AddState, Left
<1>4. IsTable(add', Adds, AddState)
  BY <1>3 DEF Crash, TypeOK, IsTable
<1> QED
  BY <1>2, <1>3, <1>4 DEF Crash

-----------------------------------------------------------------------------
(* How far a Confirm_Cart has come tells which ids it holds.               *)

Staged(f, ids) == /\ f.at \in {"sum", "store", "place", "void"} <=> f.last = 0
                  /\ f.at \in {"sum", "store", "place", "void", "id"} => f.order = 0
                  /\ f.at = "place" => f.store \in Stores
                  /\ f.at \in {"lines", "done"} => f.order = f.last
                  /\ f.at = "partial" => f.order \in {0, f.last}
                  /\ f.at = "id" => f.i = 0
                  /\ f.last # 0 => f.last \in ids
Stages == \A c \in DOMAIN confirm : Staged(confirm[c], DOMAIN orders)

TypeInv == TypeOK /\ Numbered /\ Stages

\* The initial state has the types and the numbering.
LEMMA InitTypeInv == Init => TypeInv
<1> SUFFICES ASSUME Init PROVE TypeInv
  OBVIOUS
<1>1. DOMAIN orders = 1 .. 0 /\ DOMAIN confirm = {}
  BY DEF Init, Nothing
<1> QED
  BY <1>1, InitType DEF TypeInv, Numbered, Stages

\* A request that is cut off keeps the ids it has.
LEMMA CutIsStaged ==
  ASSUME NEW f, NEW g, NEW ids, f.at \in Confirming, Staged(f, ids), g.at = Cut(f.at),
         g.i = f.i, g.last = f.last, g.order = f.order
  PROVE  Staged(g, ids)
BY DEF Confirming, Cut, Staged

\* Each step keeps them.
LEMMA StepKeepsTypeInv == TypeInv /\ [Next]_vars => TypeInv'
<1> SUFFICES ASSUME TypeInv, [Next]_vars PROVE TypeInv'
  OBVIOUS
<1>t. TypeOK /\ Numbered /\ Stages
  BY DEF TypeInv
<1>a. ASSUME UNCHANGED <<confirm, orders>>, TypeOK' PROVE TypeInv'
  BY <1>t, <1>a DEF TypeInv, Numbered, Stages
<1>b. ASSUME NEW c \in DOMAIN confirm, Others(c), Staged(confirm'[c], DOMAIN orders'),
             DOMAIN orders \subseteq DOMAIN orders'
      PROVE  Stages'
  <2>1. ASSUME NEW d \in DOMAIN confirm' PROVE Staged(confirm'[d], DOMAIN orders')
    <3>1. CASE d = c
      BY <1>b, <3>1
    <3>2. CASE d # c
      <4>1. confirm'[d] = confirm[d] /\ Staged(confirm[d], DOMAIN orders)
        BY <1>b, <1>t, <3>2 DEF Others, Stages
      <4> QED
        BY <1>b, <4>1 DEF Staged
    <3> QED
      BY <3>1, <3>2
  <2> QED
    BY <2>1 DEF Stages
<1>c. \A c \in DOMAIN confirm : Staged(confirm[c], DOMAIN orders)
  BY <1>t DEF Stages
<1>1. ASSUME NEW t \in Adds, AddItem(t)
      PROVE  TypeInv'
  <2>1. UNCHANGED <<confirm, orders>>
    BY <1>1, AddLeaves
  <2> QED
    BY <1>1, <1>a, <1>t, <2>1, AddStepsKeepType
<1>2. ASSUME NEW u \in Users, Login(u) \/ ViewCart(u) \/ Expire(u)
      PROVE  TypeInv'
  <2>1. UNCHANGED <<confirm, orders>>
    BY <1>2 DEF Login, ViewCart, Expire, db
  <2> QED
    BY <1>2, <1>a, <1>t, <2>1, SessionStepsKeepType
<1>3. ASSUME NEW c \in Confirms, Begin(c) PROVE TypeInv'
  <2>1. /\ IsTable(confirm', Confirms, ConfirmState)
        /\ DOMAIN confirm' = DOMAIN confirm \cup {c}
        /\ \A d \in DOMAIN confirm : confirm'[d] = confirm[d]
        /\ Staged(confirm'[c], DOMAIN orders)
    BY <1>3, <1>t, BeginFacts DEF Staged
  <2>2. UNCHANGED <<size, data, slots, copies, add, session, orders, items, crashes>>
    BY <1>3 DEF Begin, cart, db
  <2>4. held' \in [Confirms -> SUBSET Stores]
    <3>1. PICK u \in Users : held' = [held EXCEPT ![c] = {session[u].store} \ {None}]
      BY <1>3 DEF Begin
    <3>2. {session[u].store} \ {None} \in SUBSET Stores
      BY <1>t DEF TypeOK
    <3> QED
      BY <1>t, <3>1, <3>2 DEF TypeOK
  <2>3. \A d \in DOMAIN confirm' : Staged(confirm'[d], DOMAIN orders')
    BY <1>c, <2>1, <2>2
  <2> QED
    BY <1>t, <2>1, <2>2, <2>3, <2>4 DEF TypeInv, TypeOK, Numbered, Stages
<1>4. ASSUME NEW c \in Confirms, SumEntry(c) PROVE TypeInv'
  <2>1. UNCHANGED <<size, data, slots, copies, add, session, held, orders, items, crashes>>
    BY <1>4 DEF SumEntry, cart, db
  <2>2. /\ c \in DOMAIN confirm /\ confirm[c].at = "sum" /\ Others(c)
        /\ IsTable(confirm', Confirms, ConfirmState)
        /\ confirm'[c].last = confirm[c].last /\ confirm'[c].order = confirm[c].order
        /\ confirm'[c].at \in {"sum", "store", "void"}
    BY <1>4, <1>t, SumFacts
  <2>3. Staged(confirm'[c], DOMAIN orders')
    BY <1>c, <2>1, <2>2 DEF Staged
  <2> QED
    BY <1>b, <1>t, <2>1, <2>2, <2>3 DEF TypeInv, TypeOK, Numbered
<1>r. ASSUME NEW c \in Confirms, ReadStore(c) PROVE TypeInv'
  <2>1. UNCHANGED <<size, data, slots, copies, add, session, held, orders, items, crashes>>
    BY <1>r DEF ReadStore, cart, db
  <2>2. /\ c \in DOMAIN confirm /\ confirm[c].at = "store" /\ Others(c)
        /\ IsTable(confirm', Confirms, ConfirmState)
        /\ confirm'[c].last = confirm[c].last /\ confirm'[c].order = confirm[c].order
        /\ \/ confirm'[c].at = "void"
           \/ confirm'[c].at = "place" /\ confirm'[c].store \in Stores
    BY <1>r, <1>t, StoreReadFacts
  <2>3. Staged(confirm'[c], DOMAIN orders')
    BY <1>c, <2>1, <2>2 DEF Staged
  <2> QED
    BY <1>b, <1>t, <2>1, <2>2, <2>3 DEF TypeInv, TypeOK, Numbered
<1>5. ASSUME NEW c \in Confirms, PlaceOrder(c) PROVE TypeInv'
  <2>1. UNCHANGED <<size, data, slots, copies, add, session, held, items, crashes>>
    BY <1>5 DEF PlaceOrder, cart
  <2>2. c \in DOMAIN confirm /\ confirm[c].at = "place"
    BY <1>5 DEF PlaceOrder, ConfirmAt
  <2>3. confirm[c].store \in Stores
    BY <1>c, <2>2 DEF Staged
  <2>4. /\ Others(c) /\ IsTable(confirm', Confirms, ConfirmState)
        /\ IsTable(orders', Nat \ {0}, [store: Stores, total: Int]) /\ Numbered'
        /\ confirm'[c].at = "id" /\ confirm'[c].i = 0 /\ confirm'[c].order = confirm[c].order
        /\ confirm'[c].last # 0 /\ confirm'[c].last \in DOMAIN orders'
        /\ DOMAIN orders \subseteq DOMAIN orders'
    BY <1>5, <1>t, <2>3, PlaceFacts
  <2>5. Staged(confirm'[c], DOMAIN orders')
    BY <1>c, <2>2, <2>4 DEF Staged
  <2> QED
    BY <1>b, <1>t, <2>1, <2>2, <2>4, <2>5 DEF TypeInv, TypeOK
<1>6. ASSUME NEW c \in Confirms, TakeId(c) PROVE TypeInv'
  <2>1. UNCHANGED <<size, data, slots, copies, add, session, held, orders, items, crashes>>
    BY <1>6 DEF TakeId, cart, db
  <2>2. /\ c \in DOMAIN confirm /\ confirm[c].at = "id" /\ Others(c)
        /\ IsTable(confirm', Confirms, ConfirmState)
        /\ confirm'[c].at = "lines" /\ confirm'[c].last = confirm[c].last
        /\ confirm'[c].order = confirm[c].last
    BY <1>6, <1>t, TakeFacts
  <2>3. Staged(confirm'[c], DOMAIN orders')
    BY <1>c, <2>1, <2>2 DEF Staged
  <2> QED
    BY <1>b, <1>t, <2>1, <2>2, <2>3 DEF TypeInv, TypeOK, Numbered
<1>7. ASSUME NEW c \in Confirms, InsertLine(c) PROVE TypeInv'
  <2>1. UNCHANGED <<size, data, slots, copies, add, session, held, orders, crashes>>
    BY <1>7 DEF InsertLine, cart
  <2>2. c \in DOMAIN confirm /\ confirm[c].at = "lines"
    BY <1>7 DEF InsertLine, ConfirmAt
  <2>3. confirm[c].order # 0
    BY <1>c, <2>2 DEF Staged
  <2>4. /\ Others(c) /\ IsTable(confirm', Confirms, ConfirmState)
        /\ IsTable(items', RowIds, [order: Nat \ {0}, idx: Nat, add: Adds])
        /\ confirm'[c].at \in {"lines", "done", "partial"}
        /\ confirm'[c].last = confirm[c].last /\ confirm'[c].order = confirm[c].order
    BY <1>7, <1>t, <2>3, LineFacts
  <2>5. Staged(confirm'[c], DOMAIN orders')
    BY <1>c, <2>1, <2>2, <2>4 DEF Staged
  <2> QED
    BY <1>b, <1>t, <2>1, <2>2, <2>4, <2>5 DEF TypeInv, TypeOK, Numbered
<1>8. ASSUME NEW c \in Confirms, Stop(c) PROVE TypeInv'
  <2>1. UNCHANGED <<size, data, slots, copies, add, session, held, orders, items, crashes>>
    BY <1>8 DEF Stop, cart, db
  <2>2. c \in DOMAIN confirm /\ Others(c) /\ IsTable(confirm', Confirms, ConfirmState)
    BY <1>8, <1>t, StopFacts
  <2>3. Staged(confirm'[c], DOMAIN orders')
    BY <1>8, <1>t, <1>c, <2>1, <2>2, StopFacts, CutIsStaged
  <2> QED
    BY <1>b, <1>t, <2>1, <2>2, <2>3 DEF TypeInv, TypeOK, Numbered
<1>9. CASE Crash
  <2>1. /\ size' \in Nat /\ data' \in Adds \cup {None} /\ IsTable(slots', Nat, Adds)
        /\ crashes' \in 0 .. MaxCrashes /\ UNCHANGED <<orders, items, held>>
    BY <1>9, <1>t, CheckoutAssumption DEF Crash, Nothing, IsTable, TypeOK, db
  <2>6. DOMAIN copies' = {} /\ {t \in DOMAIN add' : add'[t].at = "install"} = {}
    BY <1>9, <1>t, CrashFacts DEF Crash, Nothing
  <2>2. session' \in [Users -> [store: Stores \cup {None}, cart: BOOLEAN]]
    BY <1>9 DEF Crash, NoSession
  <2>3. ASSUME NEW c \in DOMAIN confirm PROVE Staged(confirm'[c], DOMAIN orders')
    <3>1. CASE confirm[c].at \in Confirming
      <4>1. confirm'[c] = [confirm[c] EXCEPT !.at = Cut(confirm[c].at)]
        BY <1>9, <1>t, <3>1, CrashFacts
      <4>2. confirm[c] \in ConfirmState
        BY <1>t DEF TypeOK, IsTable
      <4>3. /\ confirm'[c].at = Cut(confirm[c].at) /\ confirm'[c].i = confirm[c].i
            /\ confirm'[c].last = confirm[c].last /\ confirm'[c].order = confirm[c].order
        BY <4>1, <4>2 DEF ConfirmState
      <4> QED
        BY <1>c, <2>1, <3>1, <4>3, CutIsStaged
    <3>2. CASE confirm[c].at \notin Confirming
      BY <1>9, <1>t, <1>c, <2>1, <3>2, CrashFacts
    <3> QED
      BY <3>1, <3>2
  <2>4. TypeOK'
    BY <1>9, <1>t, <2>1, <2>2, <2>6, CrashFacts DEF TypeOK
  <2>5. Stages'
    BY <1>9, <1>t, <2>3, CrashFacts DEF Stages
  <2> QED
    BY <1>t, <2>1, <2>4, <2>5 DEF TypeInv, Numbered
<1>10. CASE UNCHANGED vars
  BY <1>10, <1>t DEF vars, cart, db, TypeInv, TypeOK, Numbered, Stages
<1> QED
  BY <1>1, <1>2, <1>3, <1>4, <1>r, <1>5, <1>6, <1>7, <1>8, <1>9, <1>10 DEF Next, Run

\* So every reachable state has them.
LEMMA TypeInvHolds == Spec => []TypeInv
BY InitTypeInv, StepKeepsTypeInv, PTL DEF Spec

\* Every variable keeps its type: among others the total stays an int however
\* the sum overflows, and the ids of the orders are 1, 2, ... without a gap.
THEOREM TypeCorrect == Spec => []TypeOK
<1>1. TypeInv => TypeOK
  BY DEF TypeInv
<1> QED
  BY <1>1, TypeInvHolds, PTL

-----------------------------------------------------------------------------
(* Orders and sessions.                                                    *)

\* What a Confirm_Cart has of its session: until it asks for the store, that
\* is one which held knows, and so is the store it got and that of its order.
HeldAt(f, known, sessions, placed) ==
  /\ f.at \in {"sum", "store"} => sessions[f.user].store \in known \cup {None}
  /\ f.at = "place" => f.store \in known
  /\ f.last # 0 => placed[f.last].store \in known

HeldInv == \A c \in DOMAIN confirm : HeldAt(confirm[c], held[c], session, orders)

\* A login is noted for every Confirm_Cart that has not asked yet.
LEMMA LoginKeepsHeld ==
  ASSUME TypeInv, HeldInv, NEW u \in Users, Login(u)
  PROVE  HeldInv'
<1>1. PICK s \in Stores : session' = [session EXCEPT ![u].store = s] /\ held' = HeldAfter(u, s)
  BY DEF Login
<1>2. UNCHANGED <<confirm, orders>>
  BY DEF Login, db
<1> SUFFICES ASSUME NEW c \in DOMAIN confirm
             PROVE  HeldAt(confirm[c], held'[c], session', orders)
  BY <1>2 DEF HeldInv
<1>3. /\ c \in Confirms /\ confirm[c].user \in Users
      /\ session \in [Users -> [store: Stores \cup {None}, cart: BOOLEAN]]
  BY DEF TypeInv, TypeOK, IsTable, ConfirmState
<1>4. HeldAt(confirm[c], held[c], session, orders)
  BY DEF HeldInv
<1>5. held[c] \subseteq held'[c]
  BY <1>1, <1>3 DEF HeldAfter
<1>6. ASSUME confirm[c].at \in {"sum", "store"}
      PROVE  session'[confirm[c].user].store \in held'[c] \cup {None}
  <2>1. CASE confirm[c].user = u
    <3>1. s \in held'[c]
      BY <1>1, <1>3, <1>6, <2>1 DEF HeldAfter, ConfirmAt
    <3> QED
      BY <1>1, <1>3, <2>1, <3>1
  <2>2. CASE confirm[c].user # u
    <3>1. session'[confirm[c].user] = session[confirm[c].user]
      BY <1>1, <1>3, <2>2
    <3> QED
      BY <1>4, <1>5, <1>6, <3>1 DEF HeldAt
  <2> QED
    BY <2>1, <2>2
<1> QED
  BY <1>4, <1>5, <1>6 DEF HeldAt

\* Any other step leaves a session its store or takes it away; the store that
\* is read is the one the order gets.
LEMMA StepKeepsHeld == TypeInv /\ HeldInv /\ [Next]_vars => HeldInv'
<1> SUFFICES ASSUME TypeInv, HeldInv, [Next]_vars PROVE HeldInv'
  OBVIOUS
<1>t. /\ TypeOK /\ Numbered /\ \A d \in DOMAIN confirm : Staged(confirm[d], DOMAIN orders)
      /\ session \in [Users -> [store: Stores \cup {None}, cart: BOOLEAN]]
      /\ \A d \in DOMAIN confirm : confirm[d] \in ConfirmState
  BY DEF TypeInv, Stages, TypeOK, IsTable
<1>h. \A d \in DOMAIN confirm : HeldAt(confirm[d], held[d], session, orders)
  BY DEF HeldInv
<1>a. ASSUME UNCHANGED <<confirm, held, orders>>,
             \A v \in Users : session'[v].store \in {session[v].store, None}
      PROVE  HeldInv'
  <2> SUFFICES ASSUME NEW c \in DOMAIN confirm
               PROVE  HeldAt(confirm[c], held[c], session', orders)
    BY <1>a DEF HeldInv
  <2>1. confirm[c].user \in Users
    BY <1>t DEF ConfirmState
  <2> QED
    BY <1>a, <1>h, <2>1 DEF HeldAt
<1>b. ASSUME NEW c \in DOMAIN confirm, Others(c), UNCHANGED <<session, held>>,
             HeldAt(confirm'[c], held[c], session, orders'), Grows(orders, orders')
      PROVE  HeldInv'
  <2> SUFFICES ASSUME NEW d \in DOMAIN confirm \ {c}
               PROVE  HeldAt(confirm[d], held[d], session, orders')
    BY <1>b DEF HeldInv, Others
  <2> QED
    BY <1>b, <1>h, <1>t DEF HeldAt, Staged, Grows
<1>g. Grows(orders, orders)
  BY DEF Grows
<1>1. ASSUME NEW t \in Adds, AddItem(t) PROVE HeldInv'
  BY <1>1, <1>a, AddLeaves
<1>2. ASSUME NEW u \in Users, ViewCart(u) \/ Expire(u) PROVE HeldInv'
  <2>1. UNCHANGED <<confirm, held, orders>>
    BY <1>2 DEF ViewCart, Expire, db
  <2>2. \A v \in Users : session'[v].store \in {session[v].store, None}
    BY <1>2, <1>t DEF ViewCart, Expire, NoSession
  <2> QED
    BY <1>a, <2>1, <2>2
<1>3. ASSUME NEW c \in Confirms, Begin(c) PROVE HeldInv'
  <2>1. PICK u \in Users :
          /\ confirm' = Insert(confirm, c,
               [at |-> IF session[u].cart THEN "sum" ELSE "void", user |-> u,
                i |-> 0, total |-> 0, counted |-> 0, store |-> None, last |-> 0,
                order |-> 0, life |-> crashes])
          /\ held' = [held EXCEPT ![c] = {session[u].store} \ {None}]
    BY <1>3 DEF Begin
  <2>2. UNCHANGED <<session, orders>> /\ c \notin DOMAIN confirm /\ held \in [Confirms -> SUBSET Stores]
    BY <1>3, <1>t DEF Begin, db, TypeOK
  <2>3. /\ confirm'[c].user = u /\ confirm'[c].last = 0 /\ confirm'[c].at \in {"sum", "void"}
        /\ held'[c] = {session[u].store} \ {None}
    BY <2>1, <2>2 DEF Insert
  <2>4. HeldAt(confirm'[c], held'[c], session', orders')
    BY <2>2, <2>3 DEF HeldAt
  <2>5. ASSUME NEW d \in DOMAIN confirm PROVE confirm'[d] = confirm[d] /\ held'[d] = held[d]
    <3>1. d # c /\ d \in Confirms
      BY <1>t, <2>2, <2>5 DEF TypeOK, IsTable
    <3>2. held'[d] = held[d]
      BY <2>1, <2>2, <3>1
    <3> QED
      BY <1>3, <1>t, <3>2, BeginFacts
  <2>6. DOMAIN confirm' = DOMAIN confirm \cup {c}
    BY <1>3, <1>t, BeginFacts
  <2> QED
    BY <1>h, <2>2, <2>4, <2>5, <2>6 DEF HeldInv
<1>4. ASSUME NEW c \in Confirms, SumEntry(c) PROVE HeldInv'
  <2>1. UNCHANGED <<session, held, orders>>
    BY <1>4 DEF SumEntry, db
  <2>2. /\ c \in DOMAIN confirm /\ confirm[c].at = "sum" /\ Others(c)
        /\ confirm'[c].last = confirm[c].last /\ confirm'[c].at \in {"sum", "store", "void"}
    BY <1>4, <1>t, SumFacts
  <2>3. HeldAt(confirm'[c], held[c], session, orders)
    BY <1>h, <2>2 DEF HeldAt, Others
  <2> QED
    BY <1>b, <1>g, <2>1, <2>2, <2>3
<1>5. ASSUME NEW c \in Confirms, ReadStore(c) PROVE HeldInv'
  <2>1. UNCHANGED <<session, held, orders>>
    BY <1>5 DEF ReadStore, db
  <2>2. /\ c \in DOMAIN confirm /\ confirm[c].at = "store" /\ Others(c)
        /\ confirm'[c].last = confirm[c].last
        /\ \/ confirm'[c].at = "void"
           \/ /\ confirm'[c].at = "place" /\ confirm'[c].store \in Stores
              /\ confirm'[c].store = session[confirm[c].user].store
    BY <1>5, <1>t, StoreReadFacts
  <2>3. HeldAt(confirm'[c], held[c], session, orders)
    BY <1>h, <2>2, CheckoutAssumption DEF HeldAt
  <2> QED
    BY <1>b, <1>g, <2>1, <2>2, <2>3
<1>6. ASSUME NEW c \in Confirms, PlaceOrder(c) PROVE HeldInv'
  <2>1. UNCHANGED <<session, held>> /\ c \in DOMAIN confirm /\ confirm[c].at = "place"
    BY <1>6 DEF PlaceOrder, ConfirmAt
  <2>2. confirm[c].store \in Stores /\ confirm[c].store \in held[c]
    BY <1>h, <1>t, <2>1 DEF Staged, HeldAt
  <2>3. /\ Others(c) /\ confirm'[c].at = "id"
        /\ orders'[confirm'[c].last].store = confirm[c].store
        /\ \A p \in DOMAIN orders : p \in DOMAIN orders' /\ orders'[p] = orders[p]
    BY <1>6, <1>t, <2>2, PlaceFacts
  <2>4. HeldAt(confirm'[c], held[c], session, orders')
    BY <2>2, <2>3 DEF HeldAt
  <2> QED
    BY <1>b, <2>1, <2>3, <2>4 DEF Grows
<1>7. ASSUME NEW c \in Confirms, TakeId(c) \/ InsertLine(c) \/ Stop(c) PROVE HeldInv'
  <2>1. UNCHANGED <<session, held, orders>>
    BY <1>7 DEF TakeId, InsertLine, Stop, db
  <2>2. /\ c \in DOMAIN confirm /\ Others(c) /\ confirm'[c].last = confirm[c].last
        /\ confirm'[c].at \notin {"sum", "store", "place"}
    <3>1. CASE TakeId(c) \/ Stop(c)
      BY <1>t, <3>1, TakeFacts, StopFacts DEF Cut
    <3>2. CASE InsertLine(c)
      <4>1. confirm[c].order # 0
        BY <1>t, <3>2 DEF InsertLine, ConfirmAt, Staged
      <4> QED
        BY <1>t, <3>2, <4>1, LineFacts
    <3> QED
      BY <1>7, <3>1, <3>2
  <2>3. HeldAt(confirm'[c], held[c], session, orders)
    BY <1>h, <2>2 DEF HeldAt
  <2> QED
    BY <1>b, <1>g, <2>1, <2>2, <2>3
<1>8. CASE Crash
  <2>1. UNCHANGED <<held, orders>> /\ DOMAIN confirm' = DOMAIN confirm
    BY <1>8, <1>t, CrashFacts DEF Crash, db
  <2>2. ASSUME NEW c \in DOMAIN confirm
        PROVE  /\ confirm'[c].at \notin {"sum", "store", "place"}
               /\ confirm'[c].last = confirm[c].last
    <3>1. confirm[c] \in ConfirmState
      BY <1>t
    <3> QED
      BY <1>8, <1>t, <3>1, CrashFacts DEF ConfirmState, Confirming, Cut
  <2> QED
    BY <1>h, <2>1, <2>2 DEF HeldInv, HeldAt
<1>9. CASE UNCHANGED vars
  BY <1>9, <1>a DEF vars, db
<1> QED
  BY <1>1, <1>2, <1>3, <1>4, <1>5, <1>6, <1>7, <1>8, <1>9, LoginKeepsHeld DEF Next, Run

\* The order of a Confirm_Cart is for a store that its own session was of, at
\* its beginning or by a login while it walked the cart, whatever logs in, is
\* viewed, expires or restarts between its reading of the store and the insert.
THEOREM SessionOrders == Spec => []OrdersStayInTheSession
<1>1. Init => HeldInv
  BY DEF Init, Nothing, HeldInv
<1>2. HeldInv => OrdersStayInTheSession
  BY DEF HeldInv, HeldAt, OrdersStayInTheSession
<1> QED
  BY <1>1, <1>2, StepKeepsHeld, TypeInvHolds, PTL DEF Spec

-----------------------------------------------------------------------------
(* A null in the cart.                                                     *)

\* A place that no running add can fill any more stays empty: an add that goes
\* on has read a size past it or reads one, and a copy has no more in it than
\* the cart or another copy had.
LEMMA AddKeepsDead ==
  ASSUME TypeInv, NEW t \in Adds, AddItem(t), NEW n \in Nat, DeadSlot(n)
  PROVE  DeadSlot(n)'
<1>t. /\ TypeOK /\ size \in Nat /\ \A u \in DOMAIN add : add[u] \in AddState
  BY DEF TypeInv, TypeOK, IsTable
<1>d. /\ n < size /\ n \notin DOMAIN slots
      /\ \A u \in DOMAIN add : add[u].at \in {"bump", "store"} => add[u].idx > n
      /\ \A u \in DOMAIN copies : n \notin DOMAIN copies[u]
  BY DEF DeadSlot, AddAt
<1>i. \A u \in DOMAIN add : add[u].idx \in Nat
  BY <1>t DEF AddState
<1>a. ASSUME n < size', n \notin DOMAIN slots',
             \A u \in DOMAIN add' : add'[u].at \in {"bump", "store"} => add'[u].idx > n,
             \A u \in DOMAIN copies' : n \notin DOMAIN copies'[u]
      PROVE  DeadSlot(n)'
  BY <1>a DEF DeadSlot, AddAt
<1>m. ASSUME NEW label, Moves(t, label), label \in {"bump", "store"} => add'[t].idx > n
      PROVE  \A u \in DOMAIN add' : add'[u].at \in {"bump", "store"} => add'[u].idx > n
  BY <1>d, <1>m DEF Moves
<1>1. CASE Enter(t)
  <2>1. UNCHANGED <<size, slots, copies>>
    BY <1>t, <1>1, EnterFacts
  <2>2. ASSUME NEW u \in DOMAIN add', add'[u].at \in {"bump", "store"}
        PROVE  add'[u].idx > n
    <3>1. u \in DOMAIN add /\ add[u].at = add'[u].at /\ add'[u].idx = add[u].idx
      BY <1>t, <1>1, <2>2, EnterFacts DEF Adding
    <3> QED
      BY <1>d, <2>2, <3>1
  <2> QED
    BY <1>a, <1>d, <2>1, <2>2
<1>2. CASE Copy(t)
  <2>1. UNCHANGED <<size, slots>> /\ Moves(t, "install")
    BY <1>t, <1>2, CopyFacts
  <2>2. ASSUME NEW u \in DOMAIN copies' PROVE n \notin DOMAIN copies'[u]
    <3>1. CASE u = t
      BY <1>t, <1>d, <1>2, <3>1, CopyFacts
    <3>2. CASE u # t
      <4>1. u \in DOMAIN copies /\ copies'[u] = copies[u]
        BY <1>t, <1>2, <2>2, <3>2, CopyFacts
      <4> QED
        BY <1>d, <4>1
    <3> QED
      BY <3>1, <3>2
  <2> QED
    BY <1>a, <1>d, <1>m, <2>1, <2>2
<1>3. CASE Install(t)
  <2>1. /\ Moves(t, "load") /\ t \in DOMAIN copies /\ slots' = copies[t] /\ size' = size
        /\ \A u \in DOMAIN copies' : u \in DOMAIN copies /\ copies'[u] = copies[u]
    BY <1>t, <1>3, InstallFacts
  <2> QED
    BY <1>a, <1>d, <1>m, <2>1
<1>4. CASE LoadArray(t) \/ LoadSize(t)
  <2>1. /\ UNCHANGED <<size, slots, copies>>
        /\ \/ Moves(t, "size")
           \/ Moves(t, "bump") /\ add'[t].idx = size
    BY <1>t, <1>4, ReadFacts
  <2> QED
    BY <1>a, <1>d, <1>m, <2>1
<1>5. CASE BumpSize(t)
  <2>1. /\ UNCHANGED <<slots, copies>> /\ Moves(t, "store") /\ t \in DOMAIN add
        /\ add[t].at = "bump" /\ add'[t].idx = add[t].idx /\ size' = add[t].idx + 1
    BY <1>t, <1>5, BumpFacts DEF Moves
  <2>2. add[t].idx > n /\ add[t].idx \in Nat
    BY <1>d, <1>i, <2>1
  <2>3. n < size'
    BY <2>1, <2>2
  <2> QED
    BY <1>a, <1>d, <1>m, <2>1, <2>2, <2>3
<1>6. CASE StoreElement(t)
  <2>1. PICK label \in {"print", "shaken", "failed"} : Moves(t, label)
    BY <1>t, <1>6, StoreFacts
  <2>2. t \in DOMAIN add /\ add[t].at = "store" /\ size' = size
    BY <1>t, <1>6, <2>1, StoreFacts DEF Moves
  <2>3. add[t].idx # n
    BY <1>d, <1>i, <2>2
  <2>4. ASSUME NEW elems, n \notin DOMAIN elems
        PROVE  n \notin DOMAIN Insert(elems, add[t].idx, t)
    BY <2>3, <2>4 DEF Insert
  <2>5. n \notin DOMAIN slots'
    BY <1>t, <1>d, <1>6, <2>4, StoreFacts
  <2>6. ASSUME NEW u \in DOMAIN copies' PROVE n \notin DOMAIN copies'[u]
    <3>1. /\ u \in DOMAIN copies
          /\ copies'[u] = copies[u] \/ copies'[u] = Insert(copies[u], add[t].idx, t)
      BY <1>t, <1>6, StoreFacts
    <3> QED
      BY <1>d, <2>4, <3>1
  <2> QED
    BY <1>a, <1>d, <1>m, <2>1, <2>2, <2>5, <2>6
<1>7. CASE Reply(t)
  <2>1. /\ UNCHANGED <<size, slots, copies>>
        /\ \E label \in {"ok", "failed"} : Moves(t, label)
    BY <1>t, <1>7, ReplyFacts
  <2> QED
    BY <1>a, <1>d, <1>m, <2>1
<1> QED
  BY <1>1, <1>2, <1>3, <1>4, <1>5, <1>6, <1>7 DEF AddItem

\* Adds leave such a null alone, though they copy the array it is in and put
\* older copies in its place; and a walk of the cart stops at it.
THEOREM DeadSlotsBlock == Spec => DeadSlotBlocksOrders
<1> DEFINE Blocked(n) == \A c \in DOMAIN confirm :
                           ConfirmAt(c, "sum") /\ confirm[c].i <= n =>
                             \/ confirm'[c].at = "sum" /\ confirm'[c].i <= n
                             \/ confirm'[c].at = "void"
           Blocks == \A n \in 0 .. size - 1 : DeadSlot(n) =>
             /\ DeadSlot(n)' \/ crashes' # crashes
             /\ \A c \in DOMAIN confirm :
                  ConfirmAt(c, "sum") /\ confirm[c].i <= n =>
                    \/ confirm'[c].at = "sum" /\ confirm'[c].i <= n
                    \/ confirm'[c].at = "void"
<1>1. ASSUME TypeInv, [Next]_vars PROVE Blocks
  <2>t. TypeOK /\ Numbered /\ Stages /\ \A d \in DOMAIN confirm : Staged(confirm[d], DOMAIN orders)
    BY <1>1 DEF TypeInv, Stages
  <2> SUFFICES ASSUME NEW n \in 0 .. size - 1, DeadSlot(n)
               PROVE  (DeadSlot(n)' \/ crashes' # crashes) /\ Blocked(n)
    OBVIOUS
  <2>0. n \in Nat /\ size \in Nat /\ n < size /\ n \notin DOMAIN slots
    BY <2>t DEF DeadSlot, TypeOK
  <2>a. ASSUME UNCHANGED confirm PROVE Blocked(n)
    BY <2>a DEF ConfirmAt
  <2>b. ASSUME UNCHANGED <<size, slots, copies, add>> PROVE DeadSlot(n)'
    BY <2>b DEF DeadSlot, AddAt
  <2>c. ASSUME NEW c \in DOMAIN confirm, Others(c), confirm[c].at # "sum" PROVE Blocked(n)
    BY <2>c DEF Others, ConfirmAt
  <2>1. ASSUME NEW t \in Adds, AddItem(t) PROVE DeadSlot(n)' /\ Blocked(n)
    <3>1. UNCHANGED confirm
      BY <2>1, AddLeaves
    <3>2. DeadSlot(n)'
      BY <1>1, <2>0, <2>1, AddKeepsDead
    <3> QED
      BY <2>a, <3>1, <3>2
  <2>4. ASSUME NEW u \in Users, Login(u) \/ ViewCart(u) \/ Expire(u)
        PROVE  UNCHANGED <<confirm, size, slots, copies, add>>
    BY <2>4 DEF Login, ViewCart, Expire, cart
  <2>5. ASSUME NEW c \in Confirms, Begin(c) \/ Run(c) \/ Stop(c)
        PROVE  UNCHANGED <<size, slots, copies, add>>
    BY <2>5 DEF Begin, Run, SumEntry, ReadStore, PlaceOrder, TakeId, InsertLine, Stop, cart
  <2>6. ASSUME NEW c \in Confirms, Begin(c) PROVE Blocked(n)
    BY <2>6, <2>t, BeginFacts DEF ConfirmAt
  <2>7. ASSUME NEW c \in Confirms, SumEntry(c) PROVE Blocked(n)
    <3>1. c \in DOMAIN confirm /\ confirm[c].i \in Nat
      BY <2>7, <2>t DEF SumEntry, ConfirmAt, TypeOK, IsTable, ConfirmState
    <3>2. ASSUME confirm[c].i <= n
          PROVE  \/ confirm'[c].at = "sum" /\ confirm'[c].i <= n
                 \/ confirm'[c].at = "void"
      BY <2>0, <2>7, <2>t, <3>1, <3>2, SumFacts
    <3>3. \A d \in DOMAIN confirm \ {c} : confirm'[d] = confirm[d]
      BY <2>7, <2>t, SumFacts DEF Others
    <3> QED
      BY <3>2, <3>3 DEF ConfirmAt
  <2>8. ASSUME NEW c \in Confirms, ReadStore(c) \/ PlaceOrder(c) \/ TakeId(c)
        PROVE  Blocked(n)
    <3>1. CASE ReadStore(c) \/ TakeId(c)
      BY <2>c, <2>t, <3>1, StoreReadFacts, TakeFacts
    <3>2. CASE PlaceOrder(c)
      <4>1. confirm[c].store \in Stores
        BY <2>t, <3>2 DEF PlaceOrder, ConfirmAt, Staged
      <4> QED
        BY <2>c, <2>t, <3>2, <4>1, PlaceFacts
    <3> QED
      BY <2>8, <3>1, <3>2
  <2>9. ASSUME NEW c \in Confirms, InsertLine(c) PROVE Blocked(n)
    <3>1. c \in DOMAIN confirm /\ confirm[c].at = "lines"
      BY <2>9 DEF InsertLine, ConfirmAt
    <3>2. confirm[c].order # 0
      BY <2>t, <3>1 DEF Staged
    <3> QED
      BY <2>9, <2>c, <2>t, <3>1, <3>2, LineFacts
  <2>10. ASSUME NEW c \in Confirms, Stop(c) PROVE Blocked(n)
    <3>1. confirm[c].at = "sum" => confirm'[c].at = "void"
      BY <2>10, <2>t, StopFacts DEF Cut
    <3> QED
      BY <2>10, <2>t, <3>1, StopFacts DEF Others, ConfirmAt
  <2>11. CASE Crash
    <3>1. crashes' # crashes
      BY <2>11, <2>t, CheckoutAssumption DEF Crash, TypeOK
    <3>2. ASSUME NEW c \in DOMAIN confirm, confirm[c].at = "sum" PROVE confirm'[c].at = "void"
      <4>1. confirm[c] \in ConfirmState
        BY <2>t DEF TypeOK, IsTable
      <4> QED
        BY <2>11, <2>t, <3>2, <4>1, CrashFacts DEF ConfirmState, Confirming, Cut
    <3> QED
      BY <3>1, <3>2 DEF ConfirmAt
  <2>12. CASE UNCHANGED vars
    BY <2>12, <2>a, <2>b DEF vars, cart
  <2>13. ASSUME NEW c \in Confirms, Begin(c) \/ Run(c) \/ Stop(c) PROVE Blocked(n)
    BY <2>13, <2>6, <2>7, <2>8, <2>9, <2>10 DEF Run
  <2>15. ASSUME NEW u \in Users, Login(u) \/ ViewCart(u) \/ Expire(u)
         PROVE  DeadSlot(n)' /\ Blocked(n)
    BY <2>4, <2>a, <2>b, <2>15
  <2>16. ASSUME NEW c \in Confirms, Begin(c) \/ Run(c) \/ Stop(c)
         PROVE  DeadSlot(n)' /\ Blocked(n)
    BY <2>5, <2>13, <2>b, <2>16
  <2> HIDE DEF Blocked
  <2> QED
    BY <1>1, <2>1, <2>11, <2>12, <2>15, <2>16 DEF Next
<1>2. TypeInv /\ [Next]_vars => [Blocks]_vars
  BY <1>1
<1> QED
  BY <1>2, TypeInvHolds, PTL DEF Spec, DeadSlotBlocksOrders

-----------------------------------------------------------------------------
(* The lines of an order.                                                  *)

Lines(o, rows) == {k \in DOMAIN rows : rows[k].order = o}

\* One line for each place of the cart that the request has passed.
FiledAs(f, rows) ==
  IF f.order = 0 THEN Lines(f.last, rows) = {}
  ELSE /\ IsFiniteSet(Lines(f.last, rows))
       /\ {rows[k].idx : k \in Lines(f.last, rows)} = 0 .. f.i - 1
       /\ Cardinality(Lines(f.last, rows)) = f.i

Filed       == \A c \in DOMAIN confirm : confirm[c].last # 0 => FiledAs(confirm[c], items)
KnownOrders == \A k \in DOMAIN items : items[k].order \in DOMAIN orders
Apart       == \A c, d \in DOMAIN confirm :
                 c # d /\ confirm[c].last # 0 => confirm[c].last # confirm[d].last

LinesInv == Filed /\ KnownOrders /\ Apart

\* A request's lines depend on its ids and its place alone.
LEMMA FiledAgain ==
  ASSUME NEW f, NEW g, NEW rows, FiledAs(f, rows),
         g.last = f.last, g.order = f.order, g.i = f.i
  PROVE  FiledAs(g, rows)
BY DEF FiledAs

\* Steps that move no id and insert no line.
LEMMA SameIdsKeepLines ==
  ASSUME LinesInv, DOMAIN confirm' = DOMAIN confirm,
         UNCHANGED <<orders, items>>,
         \A c \in DOMAIN confirm :
           /\ confirm'[c].last = confirm[c].last
           /\ confirm[c].last # 0 => /\ confirm'[c].order = confirm[c].order
                                     /\ confirm'[c].i = confirm[c].i
  PROVE  LinesInv'
<1>1. KnownOrders' /\ Apart'
  BY DEF LinesInv, KnownOrders, Apart
<1>2. ASSUME NEW c \in DOMAIN confirm', confirm'[c].last # 0
      PROVE  FiledAs(confirm'[c], items')
  <2>1. FiledAs(confirm[c], items)
    BY <1>2 DEF LinesInv, Filed
  <2> QED
    BY <1>2, <2>1, FiledAgain
<1> QED
  BY <1>1, <1>2 DEF LinesInv, Filed

\* A new order has no line, and nobody else's id.
LEMMA PlaceKeepsLines ==
  ASSUME TypeInv, LinesInv, NEW c, PlaceOrder(c)
  PROVE  LinesInv'
<1> DEFINE o == Cardinality(DOMAIN orders) + 1
<1>t. TypeOK /\ Numbered /\ \A d \in DOMAIN confirm : Staged(confirm[d], DOMAIN orders)
  BY DEF TypeInv, Stages
<1>1. c \in DOMAIN confirm /\ confirm[c].at = "place"
  BY DEF PlaceOrder, ConfirmAt
<1>2. confirm[c].order = 0 /\ confirm[c].store \in Stores
  BY <1>t, <1>1 DEF Staged
<1>3. /\ Others(c) /\ confirm'[c].order = confirm[c].order
      /\ confirm'[c].last = o /\ o \in Nat \ {0} /\ o \notin DOMAIN orders
      /\ DOMAIN orders' = DOMAIN orders \cup {o}
  BY <1>t, <1>2, PlaceFacts
<1>4. items' = items
  BY DEF PlaceOrder
<1> HIDE DEF o
<1>5. KnownOrders'
  BY <1>3, <1>4 DEF LinesInv, KnownOrders
<1>6. \A d \in DOMAIN confirm \ {c} : confirm'[d].last # o
  <2> SUFFICES ASSUME NEW d \in DOMAIN confirm \ {c}, confirm[d].last = o PROVE FALSE
    BY <1>3 DEF Others
  <2> QED
    BY <1>3, <1>t DEF Staged
<1>7. Apart'
  BY <1>1, <1>3, <1>6 DEF LinesInv, Apart, Others
<1>8. Lines(o, items) = {}
  BY <1>3 DEF LinesInv, KnownOrders, Lines
<1>9. FiledAs(confirm'[c], items')
  BY <1>2, <1>3, <1>4, <1>8 DEF FiledAs
<1>10. ASSUME NEW d \in DOMAIN confirm', confirm'[d].last # 0
       PROVE  FiledAs(confirm'[d], items')
  BY <1>3, <1>4, <1>9, <1>10 DEF LinesInv, Filed, Others
<1> QED
  BY <1>5, <1>7, <1>10 DEF LinesInv, Filed

\* The id is the order's own.
LEMMA TakeKeepsLines ==
  ASSUME TypeInv, LinesInv, NEW c, TakeId(c)
  PROVE  LinesInv'
<1>t. TypeOK /\ \A d \in DOMAIN confirm : Staged(confirm[d], DOMAIN orders)
  BY DEF TypeInv, Stages
<1>1. /\ c \in DOMAIN confirm /\ Others(c) /\ confirm[c].at = "id"
      /\ confirm'[c].order = confirm[c].last
      /\ confirm'[c].last = confirm[c].last /\ confirm'[c].i = confirm[c].i
  BY <1>t, TakeFacts
<1>2. confirm[c].last # 0 /\ confirm[c].order = 0 /\ confirm[c].i = 0
  BY <1>t, <1>1 DEF Staged
<1>3. UNCHANGED <<orders, items>>
  BY DEF TakeId, db
<1>4. KnownOrders' /\ Apart'
  BY <1>1, <1>3 DEF LinesInv, KnownOrders, Apart, Others
<1>5. Lines(confirm[c].last, items) = {}
  BY <1>1, <1>2 DEF LinesInv, Filed, FiledAs
<1>6. FiledAs(confirm'[c], items')
  BY <1>1, <1>2, <1>3, <1>5, FS_EmptySet DEF FiledAs
<1>7. ASSUME NEW d \in DOMAIN confirm', confirm'[d].last # 0
      PROVE  FiledAs(confirm'[d], items')
  BY <1>1, <1>3, <1>6, <1>7 DEF LinesInv, Filed, Others
<1> QED
  BY <1>4, <1>7 DEF LinesInv, Filed

\* A line goes to the next place of its request's own order.
LEMMA LineKeepsLines ==
  ASSUME TypeInv, LinesInv, NEW c, InsertLine(c)
  PROVE  LinesInv'
<1>t. TypeOK /\ \A d \in DOMAIN confirm : Staged(confirm[d], DOMAIN orders)
  BY DEF TypeInv, Stages
<1>1. c \in DOMAIN confirm /\ confirm[c].at = "lines"
  BY DEF InsertLine, ConfirmAt
<1> DEFINE f == confirm[c]
<1>2. f.order = f.last /\ f.order # 0 /\ f.last \in DOMAIN orders /\ f.i \in Nat
  BY <1>t, <1>1 DEF Staged, TypeOK, IsTable, ConfirmState
<1>3. Others(c) /\ confirm'[c].last = f.last /\ confirm'[c].order = f.order
  BY <1>t, <1>2, LineFacts
<1>4. orders' = orders
  BY DEF InsertLine
<1>5. CASE confirm'[c].i = f.i /\ items' = items
  BY <1>1, <1>3, <1>4, <1>5, SameIdsKeepLines DEF Others
<1>6. ASSUME confirm'[c].i = f.i + 1,
             NEW k \in RowIds \ DOMAIN items, items' = Insert(items, k, LineRow(c))
      PROVE  LinesInv'
  <2>1. /\ DOMAIN items' = DOMAIN items \cup {k} /\ k \notin DOMAIN items
        /\ items'[k].order = f.last /\ items'[k].idx = f.i
        /\ \A l \in DOMAIN items : items'[l] = items[l]
    BY <1>2, <1>6 DEF Insert, LineRow
  <2>2. KnownOrders' /\ Apart'
    BY <1>2, <1>3, <1>4, <2>1 DEF LinesInv, KnownOrders, Apart, Others
  <2>3. /\ IsFiniteSet(Lines(f.last, items))
        /\ {items[l].idx : l \in Lines(f.last, items)} = 0 .. f.i - 1
        /\ Cardinality(Lines(f.last, items)) = f.i
    BY <1>1, <1>2 DEF LinesInv, Filed, FiledAs
  <2>4. Lines(f.last, items') = Lines(f.last, items) \cup {k} /\ k \notin Lines(f.last, items)
    BY <2>1 DEF Lines
  <2>5. {items'[l].idx : l \in Lines(f.last, items')} = 0 .. f.i
    <3>1. \A l \in Lines(f.last, items) : items'[l].idx = items[l].idx
      BY <2>1 DEF Lines
    <3>2. {items'[l].idx : l \in Lines(f.last, items')} = (0 .. f.i - 1) \cup {f.i}
      BY <2>1, <2>3, <2>4, <3>1
    <3>3. (0 .. f.i - 1) \cup {f.i} = 0 .. f.i
      BY <1>2
    <3> QED
      BY <3>2, <3>3
  <2>6. /\ IsFiniteSet(Lines(f.last, items'))
        /\ Cardinality(Lines(f.last, items')) = f.i + 1
    BY <2>3, <2>4, FS_AddElement
  <2>7. f.i + 1 - 1 = f.i
    BY <1>2
  <2>8. FiledAs(confirm'[c], items')
    BY <1>2, <1>3, <1>6, <2>5, <2>6, <2>7 DEF FiledAs
  <2>9. ASSUME NEW d \in DOMAIN confirm \ {c}, confirm[d].last # 0
        PROVE  FiledAs(confirm'[d], items')
    <3>1. confirm'[d] = confirm[d] /\ FiledAs(confirm[d], items)
      BY <1>3, <2>9 DEF Others, LinesInv, Filed
    <3>2. confirm[d].last # f.last
      BY <1>1, <2>9 DEF LinesInv, Apart
    <3>3. Lines(confirm[d].last, items') = Lines(confirm[d].last, items)
      BY <2>1, <3>2 DEF Lines
    <3>4. \A l \in Lines(confirm[d].last, items) : items'[l].idx = items[l].idx
      BY <2>1 DEF Lines
    <3> QED
      BY <3>1, <3>3, <3>4 DEF FiledAs
  <2>10. ASSUME NEW d \in DOMAIN confirm', confirm'[d].last # 0
         PROVE  FiledAs(confirm'[d], items')
    BY <1>3, <2>8, <2>9, <2>10 DEF Others
  <2> QED
    BY <2>2, <2>10 DEF LinesInv, Filed
<1> QED
  BY <1>t, <1>2, <1>5, <1>6, LineFacts

\* Each step keeps the lines apart, by the lemmas on the statements above.
LEMMA StepKeepsLines == TypeInv /\ LinesInv /\ [Next]_vars => LinesInv'
<1> SUFFICES ASSUME TypeInv, LinesInv, [Next]_vars PROVE LinesInv'
  OBVIOUS
<1>t. TypeOK /\ \A d \in DOMAIN confirm : Staged(confirm[d], DOMAIN orders)
  BY DEF TypeInv, Stages
<1>a. ASSUME UNCHANGED <<confirm, orders, items>> PROVE LinesInv'
  BY <1>a, SameIdsKeepLines
<1>1. ASSUME NEW t \in Adds, AddItem(t)
      PROVE  LinesInv'
  BY <1>1, <1>a, AddLeaves
<1>2. ASSUME NEW u \in Users, Login(u) \/ ViewCart(u) \/ Expire(u) PROVE LinesInv'
  BY <1>2, <1>a DEF Login, ViewCart, Expire, db
<1>3. ASSUME NEW c \in Confirms, Begin(c) PROVE LinesInv'
  <2>1. /\ DOMAIN confirm' = DOMAIN confirm \cup {c} /\ c \notin DOMAIN confirm
        /\ confirm'[c].last = 0 /\ \A d \in DOMAIN confirm : confirm'[d] = confirm[d]
    BY <1>3, <1>t, BeginFacts
  <2>2. UNCHANGED <<orders, items>>
    BY <1>3 DEF Begin, db
  <2> QED
    BY <2>1, <2>2 DEF LinesInv, Filed, KnownOrders, Apart
<1>4. ASSUME NEW c \in Confirms, SumEntry(c) \/ ReadStore(c) PROVE LinesInv'
  <2>1. UNCHANGED <<orders, items>>
    BY <1>4 DEF SumEntry, ReadStore, db
  <2>2. c \in DOMAIN confirm /\ confirm[c].at \in {"sum", "store"} /\ Others(c)
        /\ confirm'[c].last = confirm[c].last
    BY <1>4, <1>t, SumFacts, StoreReadFacts
  <2>3. confirm[c].last = 0
    BY <1>t, <2>2 DEF Staged
  <2> QED
    BY <2>1, <2>2, <2>3, SameIdsKeepLines DEF Others
<1>5. ASSUME NEW c \in Confirms, Stop(c) PROVE LinesInv'
  <2>1. UNCHANGED <<orders, items>>
    BY <1>5 DEF Stop, db
  <2>2. c \in DOMAIN confirm /\ Others(c)
        /\ confirm'[c].last = confirm[c].last /\ confirm'[c].order = confirm[c].order
        /\ confirm'[c].i = confirm[c].i
    BY <1>5, <1>t, StopFacts
  <2> QED
    BY <2>1, <2>2, SameIdsKeepLines DEF Others
<1>6. CASE Crash
  <2>1. UNCHANGED <<orders, items>>
    BY <1>6 DEF Crash, db
  <2>2. ASSUME NEW c \in DOMAIN confirm
        PROVE  /\ confirm'[c].last = confirm[c].last /\ confirm'[c].order = confirm[c].order
               /\ confirm'[c].i = confirm[c].i
    <3>1. confirm[c] \in ConfirmState
      BY <1>t DEF TypeOK, IsTable
    <3> QED
      BY <1>6, <1>t, <3>1, CrashFacts DEF ConfirmState
  <2> QED
    BY <1>6, <1>t, <2>1, <2>2, CrashFacts, SameIdsKeepLines
<1>7. CASE UNCHANGED vars
  BY <1>7, <1>a DEF vars, db
<1>8. ASSUME NEW c \in Confirms, Run(c) PROVE LinesInv'
  BY <1>8, <1>4, PlaceKeepsLines, TakeKeepsLines, LineKeepsLines DEF Run
<1> QED
  BY <1>1, <1>2, <1>3, <1>5, <1>6, <1>7, <1>8 DEF Next

\* So they are apart in every reachable state.
LEMMA LinesInvHolds == Spec => []LinesInv
<1>1. Init => LinesInv
  BY DEF Init, Nothing, LinesInv, Filed, KnownOrders, Apart
<1> QED
  BY <1>1, StepKeepsLines, TypeInvHolds, PTL DEF Spec

\* Threads that place orders at the same time file every line under their own
\* order, one for each place of the cart: LAST_INSERT_ID() answers for the
\* connection that asks, and an id is used once.
THEOREM LinesAreOwn == Spec => []OwnLines
<1>1. ASSUME TypeInv, LinesInv PROVE OwnLines
  <2> SUFFICES ASSUME NEW c \in DOMAIN confirm, confirm[c].last # 0
               PROVE  LET f == confirm[c]
                      IN  /\ {items[k].idx : k \in LinesOf(f.last)}
                               = IF f.order = 0 THEN {} ELSE 0 .. f.i - 1
                          /\ Cardinality(LinesOf(f.last)) = IF f.order = 0 THEN 0 ELSE f.i
                          /\ \A d \in DOMAIN confirm \ {c} : confirm[d].last # f.last
    BY DEF OwnLines
  <2>1. FiledAs(confirm[c], items)
    BY <1>1 DEF LinesInv, Filed
  <2>2. LinesOf(confirm[c].last) = Lines(confirm[c].last, items)
    BY DEF LinesOf, Lines
  <2>3. \A d \in DOMAIN confirm \ {c} : confirm[d].last # confirm[c].last
    BY <1>1 DEF LinesInv, Apart
  <2> QED
    BY <2>1, <2>2, <2>3, FS_EmptySet DEF FiledAs
<1> QED
  BY <1>1, TypeInvHolds, LinesInvHolds, PTL

-----------------------------------------------------------------------------
(* The cart while no two adds overlap.                                     *)

\* Of adds that overlap, each is marked.
RacesSeen == \A t, u \in DOMAIN add : t # u /\ InAdd(t) /\ InAdd(u) => add[t].raced

\* The cart has no null but the one that the only running add is about to fill,
\* in the array that add has read; a copy is one of the whole cart.
Solid == /\ \A t \in DOMAIN copies : copies[t] = slots
         /\ \A t \in DOMAIN add :
              /\ add[t].at \in {"size", "bump", "store"} => add[t].array = data
              /\ add[t].at = "bump" => add[t].idx = size
              /\ add[t].at = "store" =>
                   size = add[t].idx + 1 /\ DOMAIN slots = 0 .. add[t].idx - 1
         /\ (\A t \in DOMAIN add : add[t].at # "store") => DOMAIN slots = 0 .. size - 1

\* A Confirm_Cart runs in one life of the container.
Lives == \A c \in DOMAIN confirm :
           /\ confirm[c].life <= crashes
           /\ confirm[c].at \in Confirming => confirm[c].life = crashes

\* What was ordered in this life is still where it was in the cart.
Present == \A c \in DOMAIN confirm : confirm[c].last # 0 /\ confirm[c].life = crashes =>
             \A k \in Lines(confirm[c].last, items) :
               items[k].idx \in DOMAIN slots /\ slots[items[k].idx] = items[k].add

\* Orders of one life took the same element from the same place.
Agree == \A c, d \in DOMAIN confirm :
           confirm[c].last # 0 /\ confirm[d].last # 0 /\ confirm[c].life = confirm[d].life =>
             \A k \in Lines(confirm[c].last, items), l \in Lines(confirm[d].last, items) :
               items[k].idx = items[l].idx => items[k].add = items[l].add

CartInv == RacesSeen /\ Lives /\ (Unraced => Solid /\ Present /\ Agree)

\* The initial cart is empty and nothing has raced.
LEMMA InitCart == Init => CartInv
BY DEF Init, Nothing, CartInv, RacesSeen, Solid, Lives, Present, Agree

\* Steps that leave the cart alone and insert no line.
LEMMA QuietKeepsCart ==
  ASSUME CartInv, UNCHANGED <<add, size, data, slots, copies, items, crashes>>,
         \A d \in DOMAIN confirm' :
           /\ confirm'[d].life <= crashes
           /\ confirm'[d].at \in Confirming => confirm'[d].life = crashes
           /\ \/ confirm'[d].last = 0
              \/ Lines(confirm'[d].last, items) = {}
              \/ /\ d \in DOMAIN confirm /\ confirm'[d].life = confirm[d].life
                 /\ confirm'[d].last = confirm[d].last
  PROVE  CartInv'
<1>1. RacesSeen'
  BY DEF CartInv, RacesSeen, InAdd
<1>2. Lives'
  BY DEF Lives
<1>3. ASSUME Unraced' PROVE Solid' /\ Present' /\ Agree'
  <2>1. Unraced
    BY <1>3 DEF Unraced
  <2>2. Solid /\ Present /\ Agree
    BY <2>1 DEF CartInv
  <2>3. Solid'
    BY <2>2 DEF Solid
  <2>4. items' = items
    OBVIOUS
  <2>5. ASSUME NEW d \in DOMAIN confirm', confirm'[d].last # 0,
               NEW k \in Lines(confirm'[d].last, items)
        PROVE  /\ d \in DOMAIN confirm /\ confirm'[d].life = confirm[d].life
               /\ confirm'[d].last = confirm[d].last
    BY <2>5
  <2>6. Present'
    <3> SUFFICES ASSUME NEW d \in DOMAIN confirm', confirm'[d].last # 0,
                        confirm'[d].life = crashes',
                        NEW k \in Lines(confirm'[d].last, items')
                 PROVE  /\ items'[k].idx \in DOMAIN slots'
                        /\ slots'[items'[k].idx] = items'[k].add
      BY DEF Present
    <3> QED
      BY <2>2, <2>4, <2>5 DEF Present
  <2>7. Agree'
    <3> SUFFICES ASSUME NEW c \in DOMAIN confirm', NEW d \in DOMAIN confirm',
                        confirm'[c].last # 0, confirm'[d].last # 0,
                        confirm'[c].life = confirm'[d].life,
                        NEW k \in Lines(confirm'[c].last, items'),
                        NEW l \in Lines(confirm'[d].last, items'),
                        items'[k].idx = items'[l].idx
                 PROVE  items'[k].add = items'[l].add
      BY DEF Agree
    <3> QED
      BY <2>2, <2>4, <2>5 DEF Agree
  <2> QED
    BY <2>3, <2>6, <2>7
<1> QED
  BY <1>1, <1>2, <1>3 DEF CartInv

\* Steps of AddItem: an element that was ordered stays in its place.
LEMMA AddKeepsHistory ==
  ASSUME UNCHANGED <<confirm, items, crashes>>, Present, Agree,
         \A n \in DOMAIN slots : n \in DOMAIN slots' /\ slots'[n] = slots[n]
  PROVE  Present' /\ Agree'
<1>1. items' = items /\ confirm' = confirm
  OBVIOUS
<1>2. Agree'
  BY <1>1 DEF Agree, Lines
<1>3. Present'
  BY <1>1 DEF Present, Lines
<1> QED
  BY <1>2, <1>3

\* An add that begins while another is under way marks both; no other step of
\* one marks any.
LEMMA AddMarks ==
  ASSUME TypeInv, RacesSeen, NEW t \in Adds, AddItem(t)
  PROVE  RacesSeen' /\ (Unraced' => Unraced)
<1>t. TypeOK
  BY DEF TypeInv
<1>1. CASE Enter(t)
  <2>1. /\ t \notin DOMAIN add /\ DOMAIN add' = DOMAIN add \cup {t}
        /\ add'[t].raced <=> \E u \in DOMAIN add : InAdd(u)
    BY <1>t, <1>1, EnterFacts
  <2>2. ASSUME NEW u \in DOMAIN add
        PROVE  /\ InAdd(u) => add'[u].raced /\ add'[u].at = add[u].at
               /\ ~InAdd(u) => add'[u].raced = add[u].raced /\ add'[u].at \notin Adding
    BY <1>t, <1>1, EnterFacts
  <2>3. RacesSeen'
    <3> SUFFICES ASSUME NEW u \in DOMAIN add', NEW v \in DOMAIN add', u # v,
                        add'[u].at \in Adding, add'[v].at \in Adding
                 PROVE  add'[u].raced
      BY DEF RacesSeen, InAdd
    <3>1. CASE u = t
      <4>1. v \in DOMAIN add /\ InAdd(v)
        BY <2>1, <2>2, <3>1
      <4> QED
        BY <2>1, <3>1, <4>1
    <3>2. CASE u # t
      BY <2>1, <2>2, <3>2
    <3> QED
      BY <3>1, <3>2
  <2>4. Unraced' => Unraced
    BY <2>1, <2>2 DEF Unraced
  <2> QED
    BY <2>3, <2>4
<1>2. ASSUME NEW label, Moves(t, label), label \in Adding => InAdd(t)
      PROVE  RacesSeen' /\ (Unraced' => Unraced)
  <2>1. /\ DOMAIN add' = DOMAIN add
        /\ \A u \in DOMAIN add : add'[u].raced = add[u].raced
        /\ \A u \in DOMAIN add : add'[u].at \in Adding => InAdd(u)
    BY <1>2 DEF Moves, InAdd
  <2>2. RacesSeen'
    BY <2>1 DEF RacesSeen, InAdd
  <2> QED
    BY <2>1, <2>2 DEF Unraced
<1>3. CASE Copy(t) \/ Install(t)
  BY <1>t, <1>2, <1>3, CopyFacts, InstallFacts DEF InAdd, Adding, Moves
<1>4. CASE LoadArray(t) \/ LoadSize(t)
  BY <1>t, <1>2, <1>4, ReadFacts DEF InAdd, Adding, Moves
<1>5. CASE BumpSize(t)
  BY <1>t, <1>2, <1>5, BumpFacts DEF InAdd, Adding, Moves
<1>6. CASE StoreElement(t)
  BY <1>t, <1>2, <1>6, StoreFacts DEF Adding
<1>7. CASE Reply(t)
  BY <1>t, <1>2, <1>7, ReplyFacts DEF Adding
<1> QED
  BY <1>1, <1>3, <1>4, <1>5, <1>6, <1>7 DEF AddItem

\* While no two adds overlap, the cart only grows: a copy has all of it, and an
\* element goes behind it.
LEMMA CartGrows ==
  ASSUME TypeInv, CartInv, Unraced', NEW t \in Adds, AddItem(t)
  PROVE  Unraced /\ Grows(slots, slots')
<1>t. TypeOK
  BY DEF TypeInv
<1>u. Unraced /\ Solid
  BY AddMarks DEF CartInv
<1>1. CASE Enter(t) \/ Copy(t) \/ LoadArray(t) \/ LoadSize(t) \/ BumpSize(t) \/ Reply(t)
  BY <1>u, <1>1 DEF Enter, Copy, LoadArray, LoadSize, BumpSize, Reply, cart, Grows
<1>2. CASE Install(t)
  BY <1>t, <1>u, <1>2, InstallFacts DEF Solid, Grows
<1>3. CASE StoreElement(t)
  <2>1. t \in DOMAIN add /\ add[t].at = "store" /\ add[t].idx \in Nat
    BY <1>t, <1>3, StoreFacts DEF Moves
  <2>2. DOMAIN slots = 0 .. add[t].idx - 1
    BY <1>u, <2>1 DEF Solid
  <2>3. add[t].idx \notin DOMAIN slots
    BY <2>1, <2>2
  <2>4. slots' = slots \/ slots' = Insert(slots, add[t].idx, t)
    BY <1>t, <1>3, StoreFacts
  <2> QED
    BY <1>u, <2>3, <2>4 DEF Grows, Insert
<1> QED
  BY <1>1, <1>2, <1>3 DEF AddItem

\* An add that begins alone finds no copy and no null.
LEMMA EnterKeepsSolid ==
  ASSUME TypeInv, CartInv, Unraced', NEW t \in Adds, Enter(t)
  PROVE  Solid'
<1>t. TypeOK /\ DOMAIN copies = {u \in DOMAIN add : add[u].at = "install"}
  BY DEF TypeInv, TypeOK
<1>1. /\ DOMAIN add' = DOMAIN add \cup {t} /\ add'[t].at = "room"
      /\ add'[t].raced <=> \E u \in DOMAIN add : InAdd(u)
      /\ \A u \in DOMAIN add : ~InAdd(u) => add'[u].at \notin Adding
      /\ UNCHANGED <<size, data, slots, copies>>
  BY <1>t, EnterFacts
<1>2. \A u \in DOMAIN add : ~InAdd(u)
  BY <1>1 DEF Unraced
<1>3. \A u \in DOMAIN add : add[u].at \notin Adding /\ add'[u].at \notin Adding
  BY <1>1, <1>2 DEF InAdd
<1>4. Solid
  BY AddMarks DEF CartInv, AddItem
<1>5. DOMAIN slots = 0 .. size - 1 /\ DOMAIN copies' = {}
  BY <1>t, <1>1, <1>3, <1>4 DEF Solid, Adding
<1> QED
  BY <1>1, <1>3, <1>5 DEF Solid, Adding

\* An add that is alone leaves a cart without nulls, but for its own place.
LEMMA AloneKeepsSolid ==
  ASSUME TypeInv, Solid, Unraced, NEW t \in Adds, AddItem(t), InAdd(t),
         \A u \in DOMAIN add \ {t} : ~InAdd(u)
  PROVE  Solid'
<1>t. /\ TypeOK /\ size \in Nat /\ DOMAIN copies = {u \in DOMAIN add : add[u].at = "install"}
      /\ t \in DOMAIN add /\ add[t].at \in Adding /\ ~add[t].raced
  BY DEF TypeInv, TypeOK, InAdd, Unraced
<1>o. \A u \in DOMAIN add \ {t} : add[u].at \notin Adding
  BY DEF InAdd
<1>c. DOMAIN copies \subseteq {t}
  BY <1>t, <1>o DEF Adding
<1>f. add[t].at # "store" => DOMAIN slots = 0 .. size - 1
  BY <1>o DEF Solid, Adding
<1>s. ASSUME NEW label, Moves(t, label), \A u \in DOMAIN copies' : copies'[u] = slots',
             label \in {"size", "bump", "store"} => add'[t].array = data',
             label = "bump" => add'[t].idx = size',
             label = "store" => size' = add'[t].idx + 1 /\ DOMAIN slots' = 0 .. add'[t].idx - 1,
             label # "store" => DOMAIN slots' = 0 .. size' - 1
      PROVE  Solid'
  <2>1. \A u \in DOMAIN add' \ {t} : add'[u].at \notin Adding
    BY <1>o, <1>s DEF Moves
  <2>2. t \in DOMAIN add' /\ add'[t].at = label
    BY <1>s DEF Moves
  <2>3. ASSUME NEW u \in DOMAIN add'
        PROVE  /\ add'[u].at \in {"size", "bump", "store"} => add'[u].array = data'
               /\ add'[u].at = "bump" => add'[u].idx = size'
               /\ add'[u].at = "store" =>
                    size' = add'[u].idx + 1 /\ DOMAIN slots' = 0 .. add'[u].idx - 1
    <3>1. CASE u = t
      BY <1>s, <2>2, <3>1
    <3>2. CASE u # t
      BY <2>1, <3>2 DEF Adding
    <3> QED
      BY <3>1, <3>2
  <2>4. (\A u \in DOMAIN add' : add'[u].at # "store") => DOMAIN slots' = 0 .. size' - 1
    BY <1>s, <2>2
  <2> QED
    BY <1>s, <2>3, <2>4 DEF Solid
<1>1. CASE Copy(t)
  <2>1. /\ Moves(t, "install") /\ add[t].at = "room" /\ copies'[t] = slots
        /\ DOMAIN copies' = DOMAIN copies \cup {t} /\ UNCHANGED <<size, data, slots>>
    BY <1>t, <1>1, CopyFacts
  <2> QED
    BY <1>c, <1>f, <1>s, <2>1
<1>2. CASE Install(t)
  <2>1. /\ Moves(t, "load") /\ add[t].at = "install" /\ size' = size
        /\ t \in DOMAIN copies /\ slots' = copies[t] /\ DOMAIN copies' = DOMAIN copies \ {t}
    BY <1>t, <1>2, InstallFacts
  <2>2. slots' = slots
    BY <2>1 DEF Solid
  <2> QED
    BY <1>c, <1>f, <1>s, <2>1, <2>2
<1>3. CASE LoadArray(t) \/ LoadSize(t)
  <2>1. UNCHANGED <<size, data, slots, copies>>
    BY <1>t, <1>3, ReadFacts
  <2>2. \A u \in DOMAIN copies' : copies'[u] = slots'
    BY <2>1 DEF Solid
  <2>3. CASE Moves(t, "size") /\ add[t].at \in {"room", "load"} /\ add'[t].array = data
    BY <1>f, <1>s, <2>1, <2>2, <2>3
  <2>4. CASE /\ Moves(t, "bump") /\ add[t].at = "size"
             /\ add'[t].array = add[t].array /\ add'[t].idx = size
    <3>1. add[t].array = data
      BY <1>t, <2>4 DEF Solid
    <3> QED
      BY <1>f, <1>s, <2>1, <2>2, <2>4, <3>1
  <2> QED
    BY <1>t, <1>3, <2>3, <2>4, ReadFacts
<1>4. CASE BumpSize(t)
  <2>1. /\ Moves(t, "store") /\ add[t].at = "bump" /\ size' = add[t].idx + 1
        /\ add'[t].array = add[t].array /\ add'[t].idx = add[t].idx
        /\ UNCHANGED <<data, slots, copies>>
    BY <1>t, <1>4, BumpFacts
  <2>2. /\ add[t].array = data /\ add[t].idx = size
        /\ \A u \in DOMAIN copies' : copies'[u] = slots'
    BY <1>t, <2>1 DEF Solid
  <2> QED
    BY <1>f, <1>s, <2>1, <2>2
<1>5. CASE StoreElement(t)
  <2>1. PICK label \in {"print", "shaken", "failed"} : Moves(t, label)
    BY <1>t, <1>5, StoreFacts
  <2>2. /\ add[t].at = "store" /\ add[t].idx \in Nat /\ UNCHANGED <<size, data>>
        /\ DOMAIN copies' = DOMAIN copies
        /\ add[t].array = data => slots' = Insert(slots, add[t].idx, t)
    BY <1>t, <1>5, StoreFacts
  <2>3. /\ add[t].array = data /\ size = add[t].idx + 1
        /\ DOMAIN slots = 0 .. add[t].idx - 1
    BY <1>t, <2>2 DEF Solid
  <2>4. DOMAIN slots' = (0 .. add[t].idx - 1) \cup {add[t].idx}
    BY <2>2, <2>3 DEF Insert
  <2>5. (0 .. add[t].idx - 1) \cup {add[t].idx} = 0 .. size - 1
    BY <2>2, <2>3
  <2>6. DOMAIN copies' = {}
    BY <1>t, <1>c, <2>2
  <2> QED
    BY <1>s, <2>1, <2>2, <2>4, <2>5, <2>6
<1>6. ~Enter(t) /\ ~Reply(t)
  BY <1>t, EnterFacts, ReplyFacts DEF Adding
<1> QED
  BY <1>1, <1>2, <1>3, <1>4, <1>5, <1>6 DEF AddItem

\* The steps of AddItem.
LEMMA AddKeepsCart ==
  ASSUME TypeInv, CartInv, NEW t \in Adds, AddItem(t)
  PROVE  CartInv'
<1>t. TypeOK
  BY DEF TypeInv
<1>1. UNCHANGED <<confirm, items, crashes>> /\ RacesSeen'
  BY AddLeaves, AddMarks DEF CartInv
<1>2. Lives'
  BY <1>1 DEF CartInv, Lives
<1>3. ASSUME Unraced' PROVE Solid' /\ Present' /\ Agree'
  <2>1. Unraced /\ Grows(slots, slots')
    BY <1>3, CartGrows
  <2>2. RacesSeen /\ Solid /\ Present /\ Agree
    BY <2>1 DEF CartInv
  <2>3. Present' /\ Agree'
    BY <1>1, <2>1, <2>2, AddKeepsHistory DEF Grows
  <2>4. CASE Enter(t)
    BY <1>3, <2>3, <2>4, EnterKeepsSolid
  <2>5. CASE InAdd(t)
    <3>1. \A u \in DOMAIN add \ {t} : ~InAdd(u)
      BY <2>1, <2>2, <2>5 DEF RacesSeen, Unraced, InAdd
    <3> QED
      BY <2>1, <2>2, <2>3, <2>5, <3>1, AloneKeepsSolid
  <2>6. CASE Reply(t)
    <3>1. /\ \E label \in {"ok", "failed"} : Moves(t, label)
          /\ add[t].at \in {"print", "shaken"} /\ UNCHANGED <<size, data, slots, copies>>
      BY <1>t, <2>6, ReplyFacts
    <3>2. /\ DOMAIN add' = DOMAIN add /\ add'[t].at \in {"ok", "failed"}
          /\ \A u \in DOMAIN add \ {t} : add'[u] = add[u]
      BY <3>1 DEF Moves
    <3>3. Solid'
      BY <2>2, <3>1, <3>2 DEF Solid
    <3> QED
      BY <2>3, <3>3
  <2>7. Enter(t) \/ InAdd(t) \/ Reply(t)
    BY DEF AddItem, Copy, Install, LoadArray, LoadSize, BumpSize, StoreElement, AddAt,
           InAdd, Adding
  <2> QED
    BY <2>4, <2>5, <2>6, <2>7
<1> QED
  BY <1>1, <1>2, <1>3 DEF CartInv

\* A new line has the element that the cart has in its place.
LEMMA LineKeepsCart ==
  ASSUME TypeInv, LinesInv, CartInv, NEW c, InsertLine(c)
  PROVE  CartInv'
<1> DEFINE f == confirm[c]
<1>t. TypeOK /\ \A d \in DOMAIN confirm : Staged(confirm[d], DOMAIN orders)
  BY DEF TypeInv, Stages
<1>1. c \in DOMAIN confirm /\ f.at = "lines"
  BY DEF InsertLine, ConfirmAt
<1>2. f.order = f.last /\ f.order # 0 /\ f.life = crashes
  BY <1>t, <1>1 DEF Staged, CartInv, Lives, Confirming
<1>3. /\ Others(c) /\ confirm'[c].last = f.last /\ UNCHANGED <<add, size, data, slots, copies, crashes>>
      /\ DOMAIN confirm' = DOMAIN confirm
  BY <1>t, <1>2, LineFacts DEF InsertLine, cart, Others
<1>4. \A d \in DOMAIN confirm : /\ confirm'[d].last = confirm[d].last
                                /\ confirm'[d].life = confirm[d].life
  BY <1>3 DEF Others
<1>5. Lives' /\ RacesSeen'
  <2>1. ASSUME NEW d \in DOMAIN confirm, confirm'[d].at \in Confirming
        PROVE  confirm'[d].life = crashes
    BY <1>2, <1>3, <1>4, <2>1 DEF CartInv, Lives, Others
  <2> QED
    BY <1>3, <1>4, <2>1 DEF CartInv, Lives, RacesSeen, InAdd
<1>6. CASE items' = items
  BY <1>3, <1>4, <1>5, <1>6, QuietKeepsCart DEF CartInv, Lives
<1>7. ASSUME f.i \in DOMAIN slots,
             NEW k \in RowIds \ DOMAIN items, items' = Insert(items, k, LineRow(c))
      PROVE  CartInv'
  <2>1. /\ DOMAIN items' = DOMAIN items \cup {k} /\ k \notin DOMAIN items
        /\ items'[k].order = f.last /\ items'[k].idx = f.i /\ items'[k].add = slots[f.i]
        /\ \A l \in DOMAIN items : items'[l] = items[l]
    BY <1>2, <1>7 DEF Insert, LineRow
  <2>2. ASSUME NEW d \in DOMAIN confirm, confirm[d].last # 0,
               NEW l \in Lines(confirm[d].last, items')
        PROVE  \/ l \in Lines(confirm[d].last, items) /\ items'[l] = items[l]
               \/ l = k /\ d = c
    <3>1. CASE l = k
      BY <1>1, <2>1, <2>2, <3>1 DEF Lines, LinesInv, Apart
    <3>2. CASE l # k
      BY <2>1, <2>2, <3>2 DEF Lines
    <3> QED
      BY <3>1, <3>2
  <2>3. ASSUME Unraced' PROVE Solid' /\ Present' /\ Agree'
    <3>1. Unraced
      BY <1>3, <2>3 DEF Unraced
    <3>2. Solid /\ Present /\ Agree
      BY <3>1 DEF CartInv
    <3>3. Solid'
      BY <1>3, <3>2 DEF Solid
    <3>4. ASSUME NEW d \in DOMAIN confirm, confirm[d].last # 0, confirm[d].life = crashes,
                 NEW l \in Lines(confirm[d].last, items')
          PROVE  items'[l].idx \in DOMAIN slots /\ slots[items'[l].idx] = items'[l].add
      BY <1>7, <2>1, <2>2, <3>2, <3>4 DEF Present
    <3>5. Present'
      BY <1>3, <1>4, <3>4 DEF Present
    <3>6. ASSUME NEW d \in DOMAIN confirm, NEW e \in DOMAIN confirm,
                 confirm[d].last # 0, confirm[e].last # 0, confirm[d].life = confirm[e].life,
                 NEW l \in Lines(confirm[d].last, items'),
                 NEW m \in Lines(confirm[e].last, items'),
                 items'[l].idx = items'[m].idx
          PROVE  items'[l].add = items'[m].add
      <4>1. CASE l = k /\ d = c
        BY <1>2, <3>4, <3>6, <4>1
      <4>2. CASE m = k /\ e = c
        BY <1>2, <3>4, <3>6, <4>2
      <4>3. CASE /\ l \in Lines(confirm[d].last, items) /\ items'[l] = items[l]
                 /\ m \in Lines(confirm[e].last, items) /\ items'[m] = items[m]
        BY <3>2, <3>6, <4>3 DEF Agree
      <4> QED
        BY <2>2, <3>6, <4>1, <4>2, <4>3
    <3>7. Agree'
      BY <1>3, <1>4, <3>6 DEF Agree
    <3> QED
      BY <3>3, <3>5, <3>7
  <2> QED
    BY <1>5, <2>3 DEF CartInv
<1> QED
  BY <1>t, <1>2, <1>6, <1>7, LineFacts

\* After a crash nobody's life is the current one.
LEMMA CrashKeepsCart ==
  ASSUME TypeInv, CartInv, Crash
  PROVE  CartInv'
<1>t. TypeOK /\ crashes \in Nat
  BY CheckoutAssumption DEF TypeInv, TypeOK
<1>1. /\ crashes' = crashes + 1 /\ size' = 0 /\ DOMAIN slots' = {} /\ DOMAIN copies' = {}
      /\ items' = items /\ DOMAIN confirm' = DOMAIN confirm /\ DOMAIN add' = DOMAIN add
  BY <1>t, CrashFacts DEF Crash, Nothing, db
<1>2. ASSUME NEW c \in DOMAIN confirm
      PROVE  /\ confirm'[c].at \notin Confirming
             /\ confirm'[c].life = confirm[c].life /\ confirm'[c].last = confirm[c].last
  <2>1. confirm[c] \in ConfirmState
    BY <1>t DEF TypeOK, IsTable
  <2>2. CASE confirm[c].at \in Confirming
    <3>1. confirm'[c] = [confirm[c] EXCEPT !.at = Cut(confirm[c].at)]
      BY <1>t, <2>2, CrashFacts
    <3> QED
      BY <2>1, <3>1 DEF ConfirmState, Confirming, Cut
  <2>3. CASE confirm[c].at \notin Confirming
    BY <1>t, <2>3, CrashFacts
  <2> QED
    BY <2>2, <2>3
<1>3. \A t \in DOMAIN add : add'[t].at \notin Adding /\ add'[t].raced = add[t].raced
  BY <1>t, CrashFacts DEF Adding
<1>4. \A c \in DOMAIN confirm :
        confirm[c].life <= crashes /\ confirm[c].life \in Nat /\ confirm'[c].life < crashes'
  BY <1>t, <1>1, <1>2 DEF CartInv, Lives, TypeOK, IsTable, ConfirmState
<1>5. RacesSeen' /\ Lives'
  BY <1>1, <1>2, <1>3, <1>4 DEF RacesSeen, Lives, InAdd
<1>6. ASSUME Unraced' PROVE Solid' /\ Present' /\ Agree'
  <2>1. Unraced
    BY <1>1, <1>3, <1>6 DEF Unraced
  <2>2. Agree
    BY <2>1 DEF CartInv
  <2>3. Solid'
    BY <1>1, <1>3 DEF Solid, Adding
  <2>4. Present'
    BY <1>1, <1>2, <1>4 DEF Present
  <2>5. Agree'
    BY <1>1, <1>2, <2>2 DEF Agree
  <2> QED
    BY <2>3, <2>4, <2>5
<1> QED
  BY <1>5, <1>6 DEF CartInv

\* Each step keeps what is known of the shared list.
LEMMA StepKeepsCart == TypeInv /\ LinesInv /\ CartInv /\ [Next]_vars => CartInv'
<1> SUFFICES ASSUME TypeInv, LinesInv, CartInv, [Next]_vars PROVE CartInv'
  OBVIOUS
<1>t. TypeOK /\ Numbered /\ \A d \in DOMAIN confirm : Staged(confirm[d], DOMAIN orders)
  BY DEF TypeInv, Stages
<1>l. \A d \in DOMAIN confirm : /\ confirm[d].life <= crashes
                                /\ confirm[d].at \in Confirming => confirm[d].life = crashes
  BY DEF CartInv, Lives
<1>a. ASSUME UNCHANGED <<add, size, data, slots, copies, confirm, items, crashes>> PROVE CartInv'
  BY <1>a, <1>l, QuietKeepsCart
<1>b. ASSUME NEW c \in DOMAIN confirm, Others(c), confirm[c].at \in Confirming,
             UNCHANGED <<add, size, data, slots, copies, items, crashes>>,
             confirm'[c].last = confirm[c].last \/ Lines(confirm'[c].last, items) = {}
      PROVE  CartInv'
  BY <1>b, <1>l, QuietKeepsCart DEF Others
<1>1. ASSUME NEW u \in Users, Login(u) \/ ViewCart(u) \/ Expire(u) PROVE CartInv'
  BY <1>1, <1>a DEF Login, ViewCart, Expire, cart, db
<1>2. ASSUME NEW c \in Confirms, Begin(c) PROVE CartInv'
  <2>1. /\ DOMAIN confirm' = DOMAIN confirm \cup {c} /\ confirm'[c].last = 0
        /\ confirm'[c].life = crashes /\ \A d \in DOMAIN confirm : confirm'[d] = confirm[d]
    BY <1>2, <1>t, BeginFacts
  <2>2. UNCHANGED <<add, size, data, slots, copies, items, crashes>> /\ crashes <= crashes
    BY <1>2, <1>t, CheckoutAssumption DEF Begin, cart, db, TypeOK
  <2> QED
    BY <1>l, <2>1, <2>2, QuietKeepsCart
<1>3. ASSUME NEW c \in Confirms, SumEntry(c) \/ ReadStore(c) \/ TakeId(c) \/ Stop(c) PROVE CartInv'
  <2>1. UNCHANGED <<add, size, data, slots, copies, items, crashes>>
    BY <1>3 DEF SumEntry, ReadStore, TakeId, Stop, cart, db
  <2>2. c \in DOMAIN confirm /\ Others(c) /\ confirm[c].at \in Confirming
        /\ confirm'[c].last = confirm[c].last
    BY <1>3, <1>t, SumFacts, StoreReadFacts, TakeFacts, StopFacts DEF Confirming
  <2> QED
    BY <1>b, <2>1, <2>2
<1>4. ASSUME NEW c \in Confirms, PlaceOrder(c) PROVE CartInv'
  <2>1. UNCHANGED <<add, size, data, slots, copies, items, crashes>>
    BY <1>4 DEF PlaceOrder, cart
  <2>4. c \in DOMAIN confirm /\ confirm[c].at = "place" /\ confirm[c].store \in Stores
    BY <1>4, <1>t DEF PlaceOrder, ConfirmAt, Staged
  <2>2. Others(c) /\ confirm[c].at \in Confirming /\ confirm'[c].last \notin DOMAIN orders
    BY <1>4, <1>t, <2>4, PlaceFacts DEF Confirming
  <2>3. confirm'[c].last \notin DOMAIN orders => Lines(confirm'[c].last, items) = {}
    BY DEF LinesInv, KnownOrders, Lines
  <2> QED
    BY <1>b, <2>1, <2>2, <2>3, <2>4
<1>5. CASE UNCHANGED vars
  BY <1>5, <1>a DEF vars, cart, db
<1>6. ASSUME NEW c \in Confirms, Begin(c) \/ Run(c) \/ Stop(c) PROVE CartInv'
  BY <1>6, <1>2, <1>3, <1>4, LineKeepsCart DEF Run
<1>7. ASSUME NEW t \in Adds, AddItem(t)
      PROVE  CartInv'
  BY <1>7, AddKeepsCart
<1> QED
  BY <1>1, <1>5, <1>6, <1>7, CrashKeepsCart DEF Next

\* So it holds in every reachable state.
LEMMA CartInvHolds == Spec => []CartInv
BY InitCart, StepKeepsCart, TypeInvHolds, LinesInvHolds, PTL DEF Spec

\* Orders placed in one life of the container agree on the lines they both
\* have, if no two adds overlapped: the one list only grows, so every store
\* orders it from its beginning again, whoever filled it.
THEOREM CartIsShared == Spec => []OrdersShareTheCart
<1>1. ASSUME TypeInv, CartInv PROVE OrdersShareTheCart
  <2> SUFFICES ASSUME Unraced, NEW c \in DOMAIN confirm, NEW d \in DOMAIN confirm,
                      confirm[c].at = "done", confirm[d].at = "done",
                      confirm[c].life = confirm[d].life,
                      NEW k \in LinesOf(confirm[c].order), NEW l \in LinesOf(confirm[d].order),
                      items[k].idx = items[l].idx
               PROVE  items[k].add = items[l].add
    BY DEF OrdersShareTheCart
  <2>1. /\ confirm[c].order = confirm[c].last /\ confirm[c].last # 0
        /\ confirm[d].order = confirm[d].last /\ confirm[d].last # 0
    BY <1>1 DEF TypeInv, Stages, Staged
  <2>2. k \in Lines(confirm[c].last, items) /\ l \in Lines(confirm[d].last, items)
    BY <2>1 DEF LinesOf, Lines
  <2> QED
    BY <1>1, <2>1, <2>2 DEF CartInv, Agree
<1> QED
  BY <1>1, TypeInvHolds, CartInvHolds, PTL

-----------------------------------------------------------------------------
(* The total of an order.                                                  *)

\* total is what the first n elements of a cart cost, in int arithmetic.
Counted(total, elems, n) ==
  /\ 0 .. n - 1 \subseteq DOMAIN elems
  /\ total = JavaInt(SumFunctionOnSet([j \in 0 .. n - 1 |-> AmountOf(elems[j])], 0 .. n - 1))

\* The order was charged for its first lines.
Paid(f, rows, placed) ==
  LET first == {k \in Lines(f.order, rows) : rows[k].idx < f.counted}
  IN  /\ Cardinality(first) = f.counted
      /\ placed[f.order].total =
           JavaInt(SumFunction([k \in first |-> Qty[rows[k].add] * Price[rows[k].add]]))

\* A running request has added up the cart as far as it has come, its order has
\* that total, and an order that is done was charged for its first lines.
ChargedAt(f, elems, rows, placed) ==
  /\ f.at = "sum" => Counted(f.total, elems, f.i)
  /\ f.at \in {"store", "place", "id", "lines"} => Counted(f.total, elems, f.counted)
  /\ f.at \in {"id", "lines"} => placed[f.last].total = f.total
  /\ f.at = "done" => Paid(f, rows, placed)

Charged == \A c \in DOMAIN confirm : ChargedAt(confirm[c], slots, items, orders)

\* Nothing costs nothing.
LEMMA CountedZero == ASSUME NEW elems PROVE Counted(0, elems, 0)
<1>1. 0 .. 0 - 1 = {}
  OBVIOUS
<1> QED
  BY <1>1, SumEmpty, JavaIntZero DEF Counted

\* One element more is added, and the sum wraps around or not.
LEMMA CountedNext ==
  ASSUME NEW total, NEW elems, NEW n \in Nat, Counted(total, elems, n),
         n \in DOMAIN elems, \A j \in DOMAIN elems : elems[j] \in Adds
  PROVE  Counted(JavaInt(total + AmountOf(elems[n])), elems, n + 1)
<1> DEFINE S == 0 .. n - 1
           f == [j \in S |-> AmountOf(elems[j])]
           g == [j \in S \cup {n} |-> AmountOf(elems[j])]
           sum == SumFunctionOnSet(f, S)
           a == AmountOf(elems[n])
<1>1. S \cup {n} = 0 .. (n + 1) - 1 /\ n \notin S /\ IsFiniteSet(S)
  BY FS_Interval
<1>2. S \subseteq DOMAIN elems /\ total = JavaInt(sum)
  BY DEF Counted
<1>3. a \in Int /\ \A j \in S : AmountOf(elems[j]) \in Int
  BY <1>2, AmountType
<1>4. (\A j \in S : f[j] = g[j] /\ f[j] \in Int /\ g[j] \in Int) /\ g[n] = a /\ g[n] \in Int
  BY <1>3
<1> HIDE DEF S, f, g, a
<1>5. SumFunctionOnSet(g, S) = sum /\ sum \in Int
  BY <1>1, <1>4, SumSame, SumType
<1>6. SumFunctionOnSet(g, S \cup {n}) = a + sum
  BY <1>1, <1>4, <1>5, SumAdd
<1> HIDE DEF sum
<1>7. JavaInt(total + a) = JavaInt(SumFunctionOnSet(g, S \cup {n}))
  <2>1. JavaInt(JavaInt(sum) + a) = JavaInt(sum + a)
    BY <1>3, <1>5, JavaIntAdds
  <2>2. sum + a = a + sum
    BY <1>3, <1>5
  <2> QED
    BY <1>2, <1>6, <2>1, <2>2
<1>8. S \cup {n} \subseteq DOMAIN elems
  BY <1>2
<1> QED
  BY <1>1, <1>7, <1>8 DEF Counted, g, a

\* What is added to the cart later does not change what was added up.
LEMMA CountedStays ==
  ASSUME NEW total, NEW n, NEW old, NEW new, Counted(total, old, n), Grows(old, new)
  PROVE  Counted(total, new, n)
<1>1. \A j \in 0 .. n - 1 : j \in DOMAIN new /\ new[j] = old[j]
  BY DEF Counted, Grows
<1>2. [j \in 0 .. n - 1 |-> AmountOf(new[j])] = [j \in 0 .. n - 1 |-> AmountOf(old[j])]
  BY <1>1
<1> QED
  BY <1>1, <1>2 DEF Counted

\* Nor does a line of another order change what one was charged for.
LEMMA ChargedStays ==
  ASSUME NEW f, NEW elems, NEW elems2, NEW rows, NEW rows2, NEW placed, NEW placed2,
         ChargedAt(f, elems, rows, placed), Staged(f, DOMAIN placed),
         f.at \in Confirming => Grows(elems, elems2), Grows(placed, placed2),
         f.last # 0 => /\ Lines(f.last, rows2) = Lines(f.last, rows)
                       /\ \A k \in Lines(f.last, rows) : rows2[k] = rows[k]
  PROVE  ChargedAt(f, elems2, rows2, placed2)
<1>1. f.at = "sum" => Counted(f.total, elems2, f.i)
  BY CountedStays DEF ChargedAt, Confirming
<1>2. f.at \in {"store", "place", "id", "lines"} => Counted(f.total, elems2, f.counted)
  BY CountedStays DEF ChargedAt, Confirming
<1>3. f.at \in {"id", "lines"} => placed2[f.last].total = f.total
  BY DEF ChargedAt, Staged, Grows
<1>4. ASSUME f.at = "done" PROVE Paid(f, rows2, placed2)
  <2>1. f.order = f.last /\ f.last # 0 /\ placed2[f.order] = placed[f.order]
    BY <1>4 DEF Staged, Grows
  <2> DEFINE first  == {k \in Lines(f.order, rows) : rows[k].idx < f.counted}
             first2 == {k \in Lines(f.order, rows2) : rows2[k].idx < f.counted}
  <2>2. first2 = first /\ \A k \in first : rows2[k] = rows[k]
    BY <2>1
  <2>3. [k \in first2 |-> Qty[rows2[k].add] * Price[rows2[k].add]]
          = [k \in first |-> Qty[rows[k].add] * Price[rows[k].add]]
    BY <2>2
  <2>4. Paid(f, rows, placed)
    BY <1>4 DEF ChargedAt
  <2> QED
    BY <2>1, <2>2, <2>3, <2>4 DEF Paid
<1> QED
  BY <1>1, <1>2, <1>3, <1>4 DEF ChargedAt

\* The places passed by a loop are as many as its index says.
LEMMA PlacesFacts == ASSUME NEW n \in Nat PROVE Cardinality(0 .. n - 1) = n
<1>1. Cardinality(0 .. n - 1) = IF 0 > n - 1 THEN 0 ELSE (n - 1) - 0 + 1
  BY FS_Interval
<1> QED
  BY <1>1

\* An order whose lines are the first n elements of the cart, in any order,
\* was charged for the first counted of them.
LEMMA DoneIsPaid ==
  ASSUME NEW f, NEW n \in Nat, f.counted \in 0 .. n, NEW elems, NEW rows, NEW placed,
         \A j \in DOMAIN elems : elems[j] \in Adds,
         Counted(f.total, elems, f.counted), placed[f.order].total = f.total,
         IsFiniteSet(Lines(f.order, rows)),
         {rows[k].idx : k \in Lines(f.order, rows)} = 0 .. n - 1,
         Cardinality(Lines(f.order, rows)) = n,
         \A k \in Lines(f.order, rows) :
           rows[k].idx \in DOMAIN elems /\ elems[rows[k].idx] = rows[k].add
  PROVE  Paid(f, rows, placed)
<1> DEFINE L     == Lines(f.order, rows)
           m     == f.counted
           first == {k \in L : rows[k].idx < m}
           place == [k \in L |-> rows[k].idx]
           g     == [j \in 0 .. m - 1 |-> AmountOf(elems[j])]
           h     == [k \in first |-> Qty[rows[k].add] * Price[rows[k].add]]
<1>1. m \in Nat /\ m <= n /\ \A k \in L : rows[k].idx \in 0 .. n - 1
  OBVIOUS
<1>2. \A j \in 0 .. n - 1 : \E k \in L : rows[k].idx = j
  OBVIOUS
<1>3. \A k, l \in L : rows[k].idx = rows[l].idx => k = l
  <2>1. place \in Surjection(L, 0 .. n - 1)
    BY <1>1, <1>2 DEF Surjection
  <2>2. Cardinality(0 .. n - 1) = n
    BY PlacesFacts
  <2>3. place \in Injection(L, 0 .. n - 1)
    BY <2>1, <2>2, FS_SurjSameCardinalityImpliesInj
  <2> QED
    BY <2>3 DEF Injection, IsInjective
<1>4. {place[k] : k \in first} = 0 .. m - 1
  <2>1. \A k \in first : place[k] \in 0 .. m - 1
    BY <1>1
  <2>2. ASSUME NEW j \in 0 .. m - 1 PROVE \E k \in first : place[k] = j
    <3>1. j \in 0 .. n - 1 /\ j < m
      BY <1>1
    <3> QED
      BY <1>2, <3>1
  <2> QED
    BY <2>1, <2>2
<1>5. IsFiniteSet(first)
  BY FS_Subset, first \subseteq L
<1>6. Cardinality(first) = m
  <2> DEFINE b == [k \in first |-> rows[k].idx]
  <2>1. b \in Surjection(first, 0 .. m - 1)
    <3>1. \A j \in 0 .. m - 1 : \E k \in first : b[k] = j
      BY <1>4
    <3>2. b \in [first -> 0 .. m - 1]
      BY <1>1
    <3> QED
      BY <3>1, <3>2 DEF Surjection
  <2>2. b \in Injection(first, 0 .. m - 1)
    <3>1. IsInjective(b)
      BY <1>3 DEF IsInjective
    <3> QED
      BY <2>1, <3>1 DEF Injection, Surjection
  <2>3. Cardinality(0 .. m - 1) = m
    BY <1>1, PlacesFacts
  <2> HIDE DEF first, b
  <2>4. Cardinality(0 .. m - 1) = Cardinality(first)
    BY <1>5, <2>1, <2>2, FS_Surjection
  <2> QED
    BY <2>3, <2>4
<1>7. \A k \in first : h[k] \in Int /\ g[place[k]] = h[k]
  <2> SUFFICES ASSUME NEW k \in first PROVE h[k] \in Int /\ g[place[k]] = h[k]
    OBVIOUS
  <2>1. place[k] \in 0 .. m - 1 /\ place[k] = rows[k].idx
    BY <1>1
  <2>2. elems[place[k]] = rows[k].add /\ rows[k].add \in Adds
    BY <2>1
  <2>3. g[place[k]] = AmountOf(rows[k].add) /\ h[k] = AmountOf(rows[k].add)
    BY <2>1, <2>2 DEF AmountOf
  <2> QED
    BY <2>2, <2>3, AmountType
<1>8. \A k, l \in first : place[k] = place[l] => k = l
  BY <1>3
<1>9. SumFunctionOnSet(g, {place[k] : k \in first}) = SumFunctionOnSet(h, first)
  <2> HIDE DEF first, place, g, h
  <2> QED
    BY <1>5, <1>7, <1>8, SumImage
<1>10. SumFunction(h) = SumFunctionOnSet(g, 0 .. m - 1)
  <2>1. DOMAIN h = first
    OBVIOUS
  <2> HIDE DEF first, place, g, h
  <2> QED
    BY <1>4, <1>9, <2>1 DEF SumFunction
<1>11. placed[f.order].total = JavaInt(SumFunction(h))
  BY <1>10 DEF Counted
<1> QED
  BY <1>6, <1>11 DEF Paid

\* A running request has not counted past the end of the cart.
LEMMA CountedInCart ==
  ASSUME TypeOK, Solid, NEW n \in Nat, 0 .. n - 1 \subseteq DOMAIN slots
  PROVE  n <= size
<1>1. size \in Nat /\ \A t \in DOMAIN add : add[t] \in AddState
  BY DEF TypeOK, IsTable
<1>2. DOMAIN slots \subseteq 0 .. size - 1
  <2>1. CASE \A t \in DOMAIN add : add[t].at # "store"
    BY <2>1 DEF Solid
  <2>2. ASSUME NEW t \in DOMAIN add, add[t].at = "store" PROVE DOMAIN slots \subseteq 0 .. size - 1
    <3>1. size = add[t].idx + 1 /\ DOMAIN slots = 0 .. add[t].idx - 1 /\ add[t].idx \in Nat
      BY <1>1, <2>2 DEF Solid, AddState
    <3> QED
      BY <3>1
  <2> QED
    BY <2>1, <2>2
<1>3. CASE n = 0
  BY <1>1, <1>3
<1>4. CASE n # 0
  <2>1. n - 1 \in 0 .. n - 1
    BY <1>4
  <2>2. n - 1 \in 0 .. size - 1
    BY <1>2, <2>1
  <2> QED
    BY <1>1, <2>2
<1> QED
  BY <1>3, <1>4

\* A step of one request, whose new row is charged, keeps the others charged.
LEMMA OneMoves ==
  ASSUME TypeInv, LinesInv, Charged, NEW c \in DOMAIN confirm, Others(c),
         ChargedAt(confirm'[c], slots', items', orders'),
         UNCHANGED slots, Grows(orders, orders'),
         \A d \in DOMAIN confirm \ {c} : confirm[d].last # 0 =>
           /\ Lines(confirm[d].last, items') = Lines(confirm[d].last, items)
           /\ \A k \in Lines(confirm[d].last, items) : items'[k] = items[k]
  PROVE  Charged'
<1> SUFFICES ASSUME NEW d \in DOMAIN confirm' PROVE ChargedAt(confirm'[d], slots', items', orders')
  BY DEF Charged
<1>1. CASE d = c
  BY <1>1
<1>2. CASE d # c
  <2>1. confirm'[d] = confirm[d] /\ d \in DOMAIN confirm
    BY <1>2 DEF Others
  <2>2. /\ ChargedAt(confirm[d], slots, items, orders) /\ Staged(confirm[d], DOMAIN orders)
        /\ Grows(slots, slots')
    BY <2>1 DEF Charged, TypeInv, Stages, Grows
  <2>3. ChargedAt(confirm[d], slots', items', orders')
    BY <1>2, <2>1, <2>2, ChargedStays
  <2> QED
    BY <2>1, <2>3
<1> QED
  BY <1>1, <1>2

\* The steps of Confirm_Cart.
LEMMA ConfirmKeepsCharged ==
  ASSUME TypeInv, LinesInv, CartInv, Unraced, Charged, NEW c \in Confirms,
         Begin(c) \/ Run(c) \/ Stop(c)
  PROVE  Charged'
<1> DEFINE f == confirm[c]
<1>t. TypeOK /\ Numbered /\ \A d \in DOMAIN confirm : Staged(confirm[d], DOMAIN orders)
  BY DEF TypeInv, Stages
<1>s. Solid /\ Present /\ \A d \in DOMAIN confirm :
        confirm[d].at \in Confirming => confirm[d].life = crashes
  BY DEF CartInv, Lives
<1>g. Grows(slots, slots) /\ Grows(orders, orders)
  BY DEF Grows
<1>f. ASSUME c \in DOMAIN confirm
      PROVE  f \in ConfirmState /\ ChargedAt(f, slots, items, orders) /\ Staged(f, DOMAIN orders)
  BY <1>t, <1>f DEF TypeOK, IsTable, Charged
<1>q. ASSUME c \in DOMAIN confirm, Others(c), ChargedAt(confirm'[c], slots, items, orders),
             UNCHANGED <<slots, items, orders>>
      PROVE  Charged'
  BY <1>q, <1>g, OneMoves
<1>1. CASE Begin(c)
  <2>1. UNCHANGED <<slots, items, orders>>
    BY <1>1 DEF Begin, cart, db
  <2>2. ChargedAt(confirm'[c], slots, items, orders)
    BY <1>1, <1>t, BeginFacts, CountedZero DEF ChargedAt
  <2> QED
    BY <1>1, <1>t, <2>1, <2>2, BeginFacts DEF Charged
<1>2. CASE SumEntry(c)
  <2>1. UNCHANGED <<slots, items, orders>>
    BY <1>2 DEF SumEntry, cart, db
  <2>2. c \in DOMAIN confirm /\ f.at = "sum" /\ Others(c)
    BY <1>2, <1>t, SumFacts
  <2>3. f.i \in Nat /\ f.total \in Int /\ Counted(f.total, slots, f.i)
    BY <1>f, <2>2 DEF ConfirmState, ChargedAt
  <2>4. CASE confirm'[c].at = "void"
    BY <1>q, <2>1, <2>2, <2>4 DEF ChargedAt
  <2>5. CASE /\ confirm'[c].at = "store" /\ confirm'[c].counted = f.i
             /\ confirm'[c].total = f.total
    BY <1>q, <2>1, <2>2, <2>3, <2>5 DEF ChargedAt
  <2>6. CASE /\ confirm'[c].at = "sum" /\ f.i \in DOMAIN slots /\ confirm'[c].i = f.i + 1
             /\ confirm'[c].total = JavaInt(f.total + AmountOf(slots[f.i]))
    <3>1. \A j \in DOMAIN slots : slots[j] \in Adds
      BY <1>t DEF TypeOK, IsTable
    <3>2. Counted(confirm'[c].total, slots, confirm'[c].i)
      BY <2>3, <2>6, <3>1, CountedNext
    <3> QED
      BY <1>q, <2>1, <2>2, <2>6, <3>2 DEF ChargedAt
  <2> QED
    BY <1>2, <1>t, <2>4, <2>5, <2>6, SumFacts
<1>r. CASE ReadStore(c)
  <2>1. UNCHANGED <<slots, items, orders>>
    BY <1>r DEF ReadStore, cart, db
  <2>2. /\ c \in DOMAIN confirm /\ f.at = "store" /\ Others(c) /\ SameSum(c)
        /\ confirm'[c].at \in {"void", "place"}
    BY <1>r, <1>t, StoreReadFacts
  <2>3. ChargedAt(confirm'[c], slots, items, orders)
    BY <1>f, <2>2 DEF ChargedAt, SameSum
  <2> QED
    BY <1>q, <2>1, <2>2, <2>3
<1>3. CASE PlaceOrder(c)
  <2>1. UNCHANGED <<slots, items>> /\ c \in DOMAIN confirm /\ f.at = "place"
    BY <1>3 DEF PlaceOrder, ConfirmAt, cart
  <2>2. Counted(f.total, slots, f.counted) /\ f.store \in Stores
    BY <1>f, <2>1 DEF ChargedAt, Staged
  <2>3. /\ Others(c) /\ SameSum(c) /\ confirm'[c].at = "id"
        /\ orders'[confirm'[c].last].total = f.total /\ Grows(orders, orders')
    BY <1>3, <1>t, <2>2, PlaceFacts DEF Grows
  <2>4. ChargedAt(confirm'[c], slots', items', orders')
    BY <2>1, <2>2, <2>3 DEF ChargedAt, SameSum
  <2> QED
    BY <2>1, <2>3, <2>4, OneMoves
<1>4. CASE TakeId(c)
  <2>1. UNCHANGED <<slots, items, orders>>
    BY <1>4 DEF TakeId, cart, db
  <2>2. /\ c \in DOMAIN confirm /\ f.at = "id" /\ Others(c) /\ SameSum(c)
        /\ confirm'[c].at = "lines" /\ confirm'[c].last = f.last
    BY <1>4, <1>t, TakeFacts
  <2>3. ChargedAt(confirm'[c], slots, items, orders)
    BY <1>f, <2>2 DEF ChargedAt, SameSum
  <2> QED
    BY <1>q, <2>1, <2>2, <2>3
<1>5. CASE InsertLine(c)
  <2>1. UNCHANGED <<size, slots, orders>> /\ c \in DOMAIN confirm /\ f.at = "lines"
    BY <1>5 DEF InsertLine, cart, ConfirmAt
  <2>2. f.order = f.last /\ f.last # 0 /\ Counted(f.total, slots, f.counted)
        /\ orders[f.last].total = f.total
    BY <1>f, <2>1 DEF Staged, ChargedAt
  <2>3. /\ Others(c) /\ SameSum(c)
        /\ confirm'[c].last = f.last /\ confirm'[c].order = f.order
    BY <1>5, <1>t, <2>2, LineFacts
  <2>4. CASE confirm'[c].at = "partial" /\ items' = items
    BY <1>q, <2>1, <2>3, <2>4 DEF ChargedAt
  <2>5. CASE confirm'[c].at = "done" /\ items' = items /\ confirm'[c].i = f.i /\ f.i >= size
    <3>1. f.counted \in Nat /\ f.i \in Nat /\ size \in Nat
      BY <1>f, <1>t, <2>1 DEF ConfirmState, TypeOK
    <3>2. 0 .. f.counted - 1 \subseteq DOMAIN slots
      BY <2>2 DEF Counted
    <3>3. f.counted <= size
      BY <1>s, <1>t, <3>1, <3>2, CountedInCart
    <3>4. /\ IsFiniteSet(Lines(f.last, items))
          /\ {items[k].idx : k \in Lines(f.last, items)} = 0 .. f.i - 1
          /\ Cardinality(Lines(f.last, items)) = f.i
      BY <2>1, <2>2 DEF LinesInv, Filed, FiledAs
    <3>5. \A k \in Lines(f.last, items) :
            items[k].idx \in DOMAIN slots /\ slots[items[k].idx] = items[k].add
      BY <1>s, <2>1, <2>2 DEF Present, Confirming
    <3>6. \A j \in DOMAIN slots : slots[j] \in Adds
      BY <1>t DEF TypeOK, IsTable
    <3>7. f.counted \in 0 .. f.i
      BY <2>5, <3>1, <3>3
    <3>8. Paid(f, items, orders)
      BY <2>2, <3>1, <3>4, <3>5, <3>6, <3>7, DoneIsPaid
    <3>9. Paid(confirm'[c], items, orders)
      BY <2>3, <3>8 DEF Paid, SameSum
    <3> QED
      BY <1>q, <2>1, <2>3, <2>5, <3>9 DEF ChargedAt
  <2>6. ASSUME confirm'[c].at = "lines",
               NEW k \in RowIds \ DOMAIN items, items' = Insert(items, k, LineRow(c))
        PROVE  Charged'
    <3>1. ChargedAt(confirm'[c], slots', items', orders')
      BY <2>1, <2>2, <2>3, <2>6 DEF ChargedAt, SameSum
    <3>2. /\ k \notin DOMAIN items /\ DOMAIN items' = DOMAIN items \cup {k}
          /\ items'[k].order = f.last /\ \A l \in DOMAIN items : items'[l] = items[l]
      BY <2>2, <2>6 DEF Insert, LineRow
    <3>3. ASSUME NEW d \in DOMAIN confirm \ {c}, confirm[d].last # 0
          PROVE  /\ Lines(confirm[d].last, items') = Lines(confirm[d].last, items)
                 /\ \A l \in Lines(confirm[d].last, items) : items'[l] = items[l]
      <4>1. confirm[d].last # f.last
        BY <2>1, <3>3 DEF LinesInv, Apart
      <4> QED
        BY <3>2, <4>1 DEF Lines
    <3>4. Grows(orders, orders') /\ slots' = slots
      BY <1>g, <2>1
    <3> QED
      BY <2>1, <2>3, <3>1, <3>3, <3>4, OneMoves
  <2> QED
    BY <1>5, <1>t, <2>2, <2>4, <2>5, <2>6, LineFacts
<1>6. CASE Stop(c)
  <2>1. UNCHANGED <<slots, items, orders>>
    BY <1>6 DEF Stop, cart, db
  <2>2. c \in DOMAIN confirm /\ Others(c) /\ confirm'[c].at \in {"void", "partial"}
    BY <1>6, <1>t, StopFacts DEF Cut
  <2> QED
    BY <1>q, <2>1, <2>2 DEF ChargedAt
<1> QED
  BY <1>1, <1>2, <1>r, <1>3, <1>4, <1>5, <1>6 DEF Run

\* Each step keeps what a running request has added up equal to the slots it passed.
LEMMA StepKeepsCharged ==
  TypeInv /\ LinesInv /\ CartInv /\ (Unraced => Charged) /\ [Next]_vars => (Unraced' => Charged')
<1> SUFFICES ASSUME TypeInv, LinesInv, CartInv, Unraced => Charged, [Next]_vars, Unraced'
             PROVE  Charged'
  OBVIOUS
<1>t. TypeOK /\ \A d \in DOMAIN confirm : Staged(confirm[d], DOMAIN orders)
  BY DEF TypeInv, Stages
<1>a. ASSUME Unraced, UNCHANGED <<slots, confirm, items, orders>> PROVE Charged'
  BY <1>a DEF Charged
<1>1. ASSUME NEW t \in Adds, AddItem(t)
      PROVE  Charged'
  <2>1. Charged /\ Grows(slots, slots')
    BY <1>1, CartGrows
  <2>2. UNCHANGED <<confirm, items, orders>>
    BY <1>1, AddLeaves
  <2>3. ASSUME NEW d \in DOMAIN confirm PROVE ChargedAt(confirm[d], slots', items, orders)
    <3>1. ChargedAt(confirm[d], slots, items, orders) /\ Staged(confirm[d], DOMAIN orders)
      BY <1>t, <2>1 DEF Charged
    <3>2. Grows(orders, orders)
      BY DEF Grows
    <3> QED
      BY <2>1, <3>1, <3>2, ChargedStays
  <2> QED
    BY <2>2, <2>3 DEF Charged
<1>2. ASSUME NEW u \in Users, Login(u) \/ ViewCart(u) \/ Expire(u) PROVE Charged'
  <2>1. UNCHANGED <<add, slots, confirm, items, orders>>
    BY <1>2 DEF Login, ViewCart, Expire, cart, db
  <2> QED
    BY <1>a, <2>1 DEF Unraced
<1>3. ASSUME NEW c \in Confirms, Begin(c) \/ Run(c) \/ Stop(c) PROVE Charged'
  <2>1. UNCHANGED add
    BY <1>3 DEF Begin, Run, SumEntry, ReadStore, PlaceOrder, TakeId, InsertLine, Stop
  <2>2. Unraced
    BY <2>1 DEF Unraced
  <2> QED
    BY <1>3, <2>2, ConfirmKeepsCharged
<1>4. CASE Crash
  <2>1. /\ UNCHANGED <<items, orders>> /\ DOMAIN confirm' = DOMAIN confirm
        /\ DOMAIN add' = DOMAIN add /\ \A t \in DOMAIN add : add'[t].raced = add[t].raced
    BY <1>4, <1>t, CrashFacts DEF Crash, db
  <2>2. Charged
    BY <2>1 DEF Unraced
  <2>3. ASSUME NEW d \in DOMAIN confirm PROVE ChargedAt(confirm'[d], slots', items, orders)
    <3>1. CASE confirm[d].at \in Confirming
      <4>1. confirm[d] \in ConfirmState
        BY <1>t DEF TypeOK, IsTable
      <4>2. confirm'[d].at \in {"void", "partial"}
        BY <1>4, <1>t, <3>1, <4>1, CrashFacts DEF ConfirmState, Cut
      <4> QED
        BY <4>2 DEF ChargedAt
    <3>2. CASE confirm[d].at \notin Confirming
      <4>1. confirm'[d] = confirm[d]
        BY <1>4, <1>t, <3>2, CrashFacts
      <4>2. ChargedAt(confirm[d], slots, items, orders)
        BY <2>2 DEF Charged
      <4> QED
        BY <3>2, <4>1, <4>2 DEF ChargedAt, Confirming
    <3> QED
      BY <3>1, <3>2
  <2> QED
    BY <2>1, <2>3 DEF Charged
<1>5. CASE UNCHANGED vars
  <2>1. UNCHANGED <<add, slots, confirm, items, orders>>
    BY <1>5 DEF vars, cart, db
  <2> QED
    BY <1>a, <2>1 DEF Unraced
<1> QED
  BY <1>1, <1>2, <1>3, <1>4, <1>5 DEF Next

\* An order placed in full was charged for its first lines, as many as the
\* cart had when it was added up, if no two adds overlapped: the lines are the
\* elements that were added up, in the same places, and lines that came later
\* are not paid for.  An int may wrap around at every addition: the total is
\* the same as if it did so once.
THEOREM FirstLinesAreCharged == Spec => []TotalCountsFirstLines
<1>1. Init => (Unraced => Charged)
  BY DEF Init, Nothing, Charged
<1>2. TypeInv /\ (Unraced => Charged) => TotalCountsFirstLines
  <2> SUFFICES ASSUME TypeInv, Charged, NEW c \in DOMAIN confirm, confirm[c].at = "done"
               PROVE  LET f == confirm[c]
                          first == {k \in LinesOf(f.order) : items[k].idx < f.counted}
                      IN  /\ Cardinality(first) = f.counted
                          /\ orders[f.order].total =
                               JavaInt(SumFunction(
                                 [k \in first |-> Qty[items[k].add] * Price[items[k].add]]))
    BY DEF TotalCountsFirstLines
  <2>1. Paid(confirm[c], items, orders)
    BY DEF Charged, ChargedAt
  <2>2. LinesOf(confirm[c].order) = Lines(confirm[c].order, items)
    BY DEF LinesOf, Lines
  <2> QED
    BY <2>1, <2>2 DEF Paid
<1> QED
  BY <1>1, <1>2, StepKeepsCharged, TypeInvHolds, LinesInvHolds, CartInvHolds, PTL DEF Spec
=============================================================================
