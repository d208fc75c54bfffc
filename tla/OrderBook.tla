----------------------------- MODULE OrderBook -----------------------------
(***************************************************************************)
(* What ordering from the shared cart promises.  An order is charged for a *)
(* prefix of the cart as it is at that moment, and its lines repeat the    *)
(* cart place by place, as far as it has come; it may get more lines than  *)
(* it was charged for, and stop short of them.  Store and total of an      *)
(* order never change, nor does a line, and none is added after a restart. *)
(* Once two adds have overlapped, nothing is promised of the cart, of what *)
(* a line holds or of what an order costs; the rest still is.              *)
(***************************************************************************)
EXTENDS Table, FiniteSets

CONSTANTS Elements, Stores,
          Totals,    \* the values of an int
          Cost(_)    \* what the elements of a list cost together

VARIABLES
  cart,     \* place -> element, the places are 0, 1, ...
  sound,    \* no two adds have overlapped
  orders,   \* order id -> store and total, the ids are 1, 2, ...
  lines,    \* order id -> its lines: place -> element
  open      \* the orders that may get more lines

vars == <<cart, sound, orders, lines, open>>

Empty     == [x \in {} |-> {}]
Count(t) == Cardinality(DOMAIN t)

Init == /\ cart = Empty /\ sound = TRUE
        /\ orders = Empty /\ lines = Empty /\ open = {}

Add(e) ==
  /\ sound
  /\ cart' = Insert(cart, Count(cart), e)
  /\ UNCHANGED <<sound, orders, lines, open>>

Overlap ==
  /\ sound' = FALSE /\ cart' = Empty
  /\ UNCHANGED <<orders, lines, open>>

Place(store, total) ==
  LET o == Count(orders) + 1
  IN  /\ open' = open \cup {o}
      /\ orders' = Insert(orders, o, [store |-> store, total |-> total])
      /\ sound => \E n \in 0 .. Count(cart) : total = Cost(Restrict(cart, 0 .. n - 1))
      /\ lines' = Insert(lines, o, Empty)
      /\ UNCHANGED <<cart, sound>>

AddLine(o, e) ==
  LET n == Count(lines[o])
  IN  /\ o \in open
      /\ sound => n \in DOMAIN cart /\ e = cart[n]
      /\ lines' = [lines EXCEPT ![o] = Insert(@, n, e)]
      /\ UNCHANGED <<cart, sound, orders, open>>

Close(o) ==
  /\ open' = open \ {o}
  /\ UNCHANGED <<cart, sound, orders, lines>>

Restart ==
  /\ cart' = Empty /\ open' = {}
  /\ UNCHANGED <<sound, orders, lines>>

Next ==
  \/ Overlap \/ Restart
  \/ \E e \in Elements : Add(e)
  \/ \E o \in open : Close(o) \/ \E e \in Elements : AddLine(o, e)
  \/ \E store \in Stores, total \in Totals : Place(store, total)

Spec == Init /\ [][Next]_vars
=============================================================================
