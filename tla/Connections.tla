----------------------------- MODULE Connections -----------------------------
(***************************************************************************)
(* The connections to MySQL.  There is no pool: every try block that talks *)
(* to the database opens a connection of its own, often while a servlet    *)
(* that includes it holds another.  Some blocks close theirs when nothing  *)
(* throws, the others never do.  A server that is at its limit refuses,    *)
(* which is an exception in the block that asked; nobody waits.  The       *)
(* driver's cleanup thread closes connections that were garbage collected. *)
(***************************************************************************)
EXTENDS Table, SequencesExt

CONSTANTS
  Requests,
  Limit,       \* max_connections of the server
  Visits       \* the pages that are visited, of AllVisits

\* The blocks: whether one ends in con.close(), and the blocks it may include,
\* in order, while its connection is open.  pom.jsp has two.
Block(closes, includes) == [closes |-> closes, includes |-> includes]
pom == <<"purchases", "wanted">>

NewServlet     == Block(TRUE, {<<>>, <<"StoreHomeList">>, pom})
ListAndOrders  == Block(TRUE, {<<"viewOrder">>})    \* mutant
StoreHomeList  == Block(TRUE, {<<>>})
viewOrder      == Block(TRUE, {<<>>})
Confirm_Cart   == Block(TRUE, {<<"StoreHomeList">>})
UpdateOrder    == Block(TRUE, {<<>>})
DeleteOrder    == Block(TRUE, {<<>>})
Warehouse      == Block(FALSE, {<<>>})
WarehouseOrder == Block(FALSE, {<<>>})
updateOrders   == Block(FALSE, {<<>>})
executeQuery   == Block(FALSE, {<<>>, <<"updateOrders">>})
insertPurchase == Block(FALSE, {<<>>})
purchases      == Block(FALSE, {<<>>})
wanted         == Block(FALSE, {<<>>})

Code == [NewServlet |-> NewServlet, StoreHomeList |-> StoreHomeList,
         viewOrder |-> viewOrder, Confirm_Cart |-> Confirm_Cart,
         UpdateOrder |-> UpdateOrder, DeleteOrder |-> DeleteOrder,
         Warehouse |-> Warehouse, WarehouseOrder |-> WarehouseOrder,
         updateOrders |-> updateOrders, executeQuery |-> executeQuery,
         insertPurchase |-> insertPurchase, purchases |-> purchases, wanted |-> wanted]
Blocks == DOMAIN Code
StaffBlocks == {"Warehouse", "WarehouseOrder", "updateOrders", "executeQuery",
                "insertPurchase", "purchases", "wanted"}

\* The blocks of a request, one after the other.  InsertPom runs the first
\* ticked box and fails at a second.
AllVisits == {<<b>> : b \in Blocks \ {"purchases", "wanted"}}
               \cup {pom, <<"insertPurchase">> \o pom}

ASSUME ConnectionsAssumption ==
  IsFiniteSet(Requests) /\ Limit \in Nat /\ Visits \subseteq AllVisits

VARIABLES
  run,        \* request -> its blocks that have begun, the innermost last
  lost,       \* connections that no code can close any more
  careless    \* history: the requests that threw, or ran a block of StaffBlocks

vars == <<run, lost, careless>>

-----------------------------------------------------------------------------
\* todo: the blocks still to run inside.  "page" is the request itself, which
\* has no connection.
Frame == [block: Blocks \cup {"page"}, todo: Seq(Blocks)]

Running(r) == r \in DOMAIN run /\ run[r] # <<>>
Top(r)     == Last(run[r])

\* The connections that blocks hold, named for the request and the depth.
Held(r) == {n \in 1 .. Len(run[r]) : run[r][n].block # "page"}
Open    == UNION {{r} \X Held(r) : r \in DOMAIN run}
Used    == lost + Cardinality(Open)

Init == run = [r \in {} |-> <<>>] /\ lost = 0 /\ careless = {}

Arrive(r) ==
  /\ r \notin DOMAIN run
  /\ \E visit \in Visits : run' = Insert(run, r, <<[block |-> "page", todo |-> visit]>>)
  /\ UNCHANGED <<lost, careless>>

\* DriverManager.getConnection, in the next block of the innermost one.
WantsOne(r) == Running(r) /\ Top(r).todo # <<>>
Going(r)    == Append(Front(run[r]), [Top(r) EXCEPT !.todo = Tail(@)])

Connect(r) ==
  /\ WantsOne(r)
  /\ Used < Limit
  /\ LET b == Head(Top(r).todo)
     IN  /\ \E inner \in Code[b].includes :
              run' = [run EXCEPT ![r] = Append(Going(r), [block |-> b, todo |-> inner])]
         /\ careless' = IF b \in StaffBlocks THEN careless \cup {r} ELSE careless
  /\ UNCHANGED lost

\* The block's own catch ends it; the block around it goes on.
RefuseLater(r) ==    \* mutant: a full server makes the caller wait
  /\ WantsOne(r)
  /\ Used < Limit
  /\ run' = [run EXCEPT ![r] = Going(r)]
  /\ UNCHANGED <<lost, careless>>
RefuseOutwards(r) ==    \* mutant: the caller's block ends too
  /\ WantsOne(r)
  /\ run' = [run EXCEPT ![r] = Front(@)]
  /\ lost' = IF Top(r).block = "page" THEN lost ELSE lost + 1
  /\ UNCHANGED careless
Refuse(r) ==
  /\ WantsOne(r)
  /\ run' = [run EXCEPT ![r] = Going(r)]
  /\ UNCHANGED <<lost, careless>>

\* The end of a block, with its con.close() if it has one.
Leave(r) ==
  /\ Running(r)
  /\ Top(r).todo = <<>>
  /\ run' = [run EXCEPT ![r] = Front(@)]
  /\ lost' = IF Top(r).block = "page" \/ Code[Top(r).block].closes THEN lost ELSE lost + 1
  /\ UNCHANGED careless

\* Any exception in a block skips what is left of it, its close included; so
\* does an action parameter that UpdateOrder or DeleteOrder does not know.
Throw(r) ==
  /\ Running(r)
  /\ Top(r).block # "page"
  /\ run' = [run EXCEPT ![r] = Front(@)]
  /\ lost' = lost + 1
  /\ careless' = careless \cup {r}

\* AbandonedConnectionCleanupThread, once the collector has found one.
CleanupTwice == lost' = lost - 1 /\ UNCHANGED <<run, careless>>    \* mutant
Cleanup ==
  /\ lost > 0
  /\ lost' = lost - 1
  /\ UNCHANGED <<run, careless>>

-----------------------------------------------------------------------------
Proceed(r) == Connect(r) \/ Refuse(r) \/ Leave(r)

Next == \/ \E r \in Requests : Arrive(r) \/ Proceed(r) \/ Throw(r)
        \/ Cleanup

Spec     == Init /\ [][Next]_vars
\* The container runs every thread; the collector may never run.
FairSpec == Spec /\ \A r \in Requests : WF_vars(Proceed(r))

-----------------------------------------------------------------------------
(***************************************************************************)
(* Properties.                                                             *)
(***************************************************************************)

\* The server never has more connections than it allows, lost ones included.
TypeOK ==
  /\ IsTable(run, Requests, Seq(Frame))
  /\ lost \in Nat /\ Used <= Limit
  /\ careless \subseteq Requests

\* The pages of a store lose no connection, even when the server refuses one
\* to a page they include: while no warehouse or purchasing page has run and
\* nothing has thrown, every connection in use belongs to a running block.
StoresLoseNothing == careless = {} => lost = 0

\* Two connections for each request are enough: a server with that limit is
\* full only when connections have been lost.
TwoEachSuffice ==
  Limit >= 2 * Cardinality(Requests) /\ Used = Limit =>
    lost > 0 \/ \A r \in Requests : ~WantsOne(r)

\* Requests that hold a connection and ask for a second one end all the same.
PagesEnd == \A r \in Requests : Running(r) ~> ~Running(r)
=============================================================================
