-------------------------- MODULE ConnectionsProofs --------------------------
(***************************************************************************)
(* Theorems about Connections, for any number of requests and any limit.   *)
(***************************************************************************)
EXTENDS Connections, TableProofs, FiniteSetTheorems, SequenceTheorems

-----------------------------------------------------------------------------
(* The blocks and what they include.                                       *)

\* The blocks that include nothing, and so nest no further.
Leaves == {b \in Blocks : Code[b].includes = {<<>>}}

\* The blocks by name, as the provers do not take Code's domain apart.
LEMMA BlockNames ==
  Blocks = {"NewServlet", "StoreHomeList", "viewOrder", "Confirm_Cart", "UpdateOrder",
            "DeleteOrder", "Warehouse", "WarehouseOrder", "updateOrders", "executeQuery",
            "insertPurchase", "purchases", "wanted"}
BY DEF Blocks, Code

\* Whatever a block includes is a leaf: nesting ends at two.
LEMMA LeafNames == {"StoreHomeList", "purchases", "wanted", "updateOrders"} \subseteq Leaves
BY BlockNames DEF Leaves, Code, Block, StoreHomeList, purchases, wanted, updateOrders

\* A block includes only blocks that include nothing.
LEMMA IncludesAreLeaves ==
  ASSUME NEW b \in Blocks, NEW inner \in Code[b].includes
  PROVE  inner \in Seq(Leaves)
<1>1. <<>> \in Seq(Leaves)
  OBVIOUS
<1>2. <<"StoreHomeList">> \in Seq(Leaves) /\ <<"updateOrders">> \in Seq(Leaves)
  BY LeafNames
<1>3. pom \in Seq(Leaves)
  BY LeafNames DEF pom
<1>4. inner \in {<<>>, <<"StoreHomeList">>, <<"updateOrders">>, pom}
  BY BlockNames DEF Code, Block, NewServlet, StoreHomeList, viewOrder, Confirm_Cart,
     UpdateOrder, DeleteOrder, Warehouse, WarehouseOrder, updateOrders, executeQuery,
     insertPurchase, purchases, wanted
<1> QED
  BY <1>1, <1>2, <1>3, <1>4

\* The blocks of a store's pages close their connection.
LEMMA StoreBlocksClose == \A b \in Blocks \ StaffBlocks : Code[b].closes
BY BlockNames DEF StaffBlocks, Code, Block, NewServlet, StoreHomeList, viewOrder,
   Confirm_Cart, UpdateOrder, DeleteOrder

\* A visit is a sequence of blocks.
LEMMA VisitsAreBlocks == AllVisits \subseteq Seq(Blocks)
<1>1. pom \in Seq(Blocks)
  BY BlockNames DEF pom
<1>2. <<"insertPurchase">> \in Seq(Blocks)
  BY BlockNames
<1>3. <<"insertPurchase">> \o pom \in Seq(Blocks)
  BY <1>1, <1>2, ConcatProperties
<1>4. \A b \in Blocks : <<b>> \in Seq(Blocks)
  OBVIOUS
<1> QED
  BY <1>1, <1>3, <1>4 DEF AllVisits

-----------------------------------------------------------------------------
(* A request's stack of blocks.                                            *)

\* Leaving the innermost block keeps those around it.
LEMMA FrontFacts ==
  ASSUME NEW S, NEW s \in Seq(S), s # <<>>
  PROVE  /\ Len(s) \in Nat \ {0} /\ Last(s) \in S
         /\ Front(s) \in Seq(S) /\ Len(Front(s)) = Len(s) - 1
         /\ \A n \in 1 .. Len(s) - 1 : Front(s)[n] = s[n]
<1>1. Len(s) \in Nat \ {0}
  BY EmptySeq
<1>2. \A n \in 1 .. Len(s) - 1 : s[n] \in S
  BY <1>1, ElementOfSeq
<1>3. s[Len(s)] \in S
  BY <1>1, ElementOfSeq
<1>4. /\ SubSeq(s, 1, Len(s) - 1) \in Seq(S)
      /\ Len(SubSeq(s, 1, Len(s) - 1)) = IF 1 <= Len(s) - 1 THEN Len(s) - 1 - 1 + 1 ELSE 0
      /\ \A i \in 1 .. Len(s) - 1 - 1 + 1 : SubSeq(s, 1, Len(s) - 1)[i] = s[1 + i - 1]
  <2>1. Len(s) - 1 \in Int /\ 1 \in Int
    BY <1>1
  <2> QED
    BY ONLY <2>1, <1>2, SubSeqProperties
<1>5. Len(s) - 1 - 1 + 1 = Len(s) - 1 /\ \A i \in 1 .. Len(s) - 1 : 1 + i - 1 = i
  BY <1>1
<1> QED
  BY <1>1, <1>3, <1>4, <1>5 DEF Front, Last

\* Before the next block of the innermost one begins, it is struck off there.
LEMMA GoingFacts ==
  ASSUME NEW r \in DOMAIN run, run[r] \in Seq(Frame), WantsOne(r)
  PROVE  LET n == Len(run[r])
         IN  /\ n \in Nat \ {0} /\ run[r][n] \in Frame
             /\ Going(r) \in Seq(Frame) /\ Len(Going(r)) = n
             /\ \A i \in 1 .. n - 1 : Going(r)[i] = run[r][i]
             /\ Going(r)[n].block = run[r][n].block
             /\ Going(r)[n].todo = Tail(run[r][n].todo)
             /\ run[r][n].todo # <<>>
<1> DEFINE n == Len(run[r])
           f == [Top(r) EXCEPT !.todo = Tail(@)]
<1>1. run[r] # <<>> /\ Top(r).todo # <<>>
  BY DEF WantsOne, Running
<1>2. /\ n \in Nat \ {0} /\ Top(r) \in Frame /\ Top(r) = run[r][n]
      /\ Front(run[r]) \in Seq(Frame) /\ Len(Front(run[r])) = n - 1
      /\ \A i \in 1 .. n - 1 : Front(run[r])[i] = run[r][i]
  BY <1>1, FrontFacts DEF Top, Last
<1>3. f \in Frame /\ f.block = Top(r).block /\ f.todo = Tail(Top(r).todo)
  BY <1>1, <1>2, HeadTailProperties DEF Frame
<1> HIDE DEF f
<1>4. /\ Append(Front(run[r]), f) \in Seq(Frame)
      /\ Len(Append(Front(run[r]), f)) = n
      /\ \A i \in 1 .. n - 1 : Append(Front(run[r]), f)[i] = run[r][i]
      /\ Append(Front(run[r]), f)[n] = f
  BY <1>2, <1>3, AppendProperties
<1> QED
  BY <1>1, <1>2, <1>3, <1>4 DEF Going, f

-----------------------------------------------------------------------------
(* How deep blocks nest.                                                   *)

\* A request is a page, in it a block, and in that at most one more, which
\* includes nothing.
Fits(s) ==
  /\ Len(s) <= 3
  /\ Len(s) >= 1 => s[1].block = "page"
  /\ Len(s) >= 2 => s[2].block # "page" /\ s[2].todo \in Seq(Leaves)
  /\ Len(s) >= 3 => s[3].block # "page" /\ s[3].todo = <<>>

Nested == \A r \in DOMAIN run : Fits(run[r])

\* Only careless requests have run blocks that never close their connection.
Careful ==
  \A r \in DOMAIN run \ careless :
    \A n \in 1 .. Len(run[r]) : run[r][n].block \notin StaffBlocks

Types == /\ IsTable(run, Requests, Seq(Frame))
         /\ lost \in Nat
         /\ careless \subseteq Requests

\* What a step does to the stack of its request.
Entered(r, b, inner) == run' = [run EXCEPT ![r] = Append(Going(r), [block |-> b, todo |-> inner])]

\* What a stack is after a block has begun inside it.
LEMMA EnteredFacts ==
  ASSUME Types, NEW r \in DOMAIN run, WantsOne(r),
         NEW b \in Blocks, NEW inner \in Code[b].includes, Entered(r, b, inner)
  PROVE  LET n == Len(run[r])
         IN  /\ n \in Nat \ {0} /\ DOMAIN run' = DOMAIN run
             /\ run'[r] \in Seq(Frame) /\ Len(run'[r]) = n + 1
             /\ \A i \in 1 .. n : run'[r][i].block = run[r][i].block
             /\ \A i \in 1 .. n - 1 : run'[r][i] = run[r][i]
             /\ run'[r][n].todo = Tail(run[r][n].todo) /\ run[r][n].todo # <<>>
             /\ run[r][n].todo \in Seq(Blocks)
             /\ run'[r][n + 1] = [block |-> b, todo |-> inner]
             /\ \A q \in DOMAIN run : q # r => run'[q] = run[q]
<1> DEFINE n == Len(run[r])
           new == [block |-> b, todo |-> inner]
<1>1. run[r] \in Seq(Frame)
  BY DEF Types, IsTable
<1>2. inner \in Seq(Blocks)
  BY IncludesAreLeaves, SeqMonotonic DEF Leaves
<1>3. new \in Frame
  BY <1>2 DEF Frame
<1>4. /\ n \in Nat \ {0} /\ run[r][n] \in Frame
      /\ Going(r) \in Seq(Frame) /\ Len(Going(r)) = n
      /\ \A i \in 1 .. n - 1 : Going(r)[i] = run[r][i]
      /\ Going(r)[n].block = run[r][n].block
      /\ Going(r)[n].todo = Tail(run[r][n].todo)
      /\ run[r][n].todo # <<>>
  BY <1>1, GoingFacts
<1> HIDE DEF new
<1>5. /\ Append(Going(r), new) \in Seq(Frame)
      /\ Len(Append(Going(r), new)) = n + 1
      /\ \A i \in 1 .. n : Append(Going(r), new)[i] = Going(r)[i]
      /\ Append(Going(r), new)[n + 1] = new
  BY <1>3, <1>4, AppendProperties
<1>6. /\ run'[r] = Append(Going(r), new) /\ DOMAIN run' = DOMAIN run
      /\ \A q \in DOMAIN run : q # r => run'[q] = run[q]
  BY DEF Entered, new
<1>7. run[r][n].todo \in Seq(Blocks)
  BY <1>4 DEF Frame
<1>8. \A i \in 1 .. n : i = n \/ i \in 1 .. n - 1
  BY <1>4
<1>9. n \in 1 .. n /\ \A i \in 1 .. n - 1 : i \in 1 .. n
  BY <1>4
<1> QED
  BY <1>4, <1>5, <1>6, <1>7, <1>8, <1>9 DEF new

\* What it is after a refusal: one block less to do.
LEMMA RefusedFacts ==
  ASSUME Types, NEW r \in DOMAIN run, Refuse(r)
  PROVE  LET n == Len(run[r])
         IN  /\ n \in Nat \ {0} /\ DOMAIN run' = DOMAIN run
             /\ run'[r] \in Seq(Frame) /\ Len(run'[r]) = n
             /\ \A i \in 1 .. n : run'[r][i].block = run[r][i].block
             /\ \A i \in 1 .. n - 1 : run'[r][i] = run[r][i]
             /\ run'[r][n].todo = Tail(run[r][n].todo) /\ run[r][n].todo # <<>>
             /\ run[r][n].todo \in Seq(Blocks)
             /\ \A q \in DOMAIN run : q # r => run'[q] = run[q]
<1> DEFINE n == Len(run[r])
<1>1. run[r] \in Seq(Frame) /\ WantsOne(r)
  BY DEF Types, IsTable, Refuse
<1>2. /\ n \in Nat \ {0} /\ run[r][n] \in Frame
      /\ Going(r) \in Seq(Frame) /\ Len(Going(r)) = n
      /\ \A i \in 1 .. n - 1 : Going(r)[i] = run[r][i]
      /\ Going(r)[n].block = run[r][n].block
      /\ Going(r)[n].todo = Tail(run[r][n].todo)
      /\ run[r][n].todo # <<>>
  BY <1>1, GoingFacts
<1>3. /\ run'[r] = Going(r) /\ DOMAIN run' = DOMAIN run
      /\ \A q \in DOMAIN run : q # r => run'[q] = run[q]
  BY DEF Refuse
<1>4. run[r][n].todo \in Seq(Blocks)
  BY <1>2 DEF Frame
<1>5. \A i \in 1 .. n : i = n \/ i \in 1 .. n - 1
  BY <1>2
<1> QED
  BY <1>2, <1>3, <1>4, <1>5

\* What it is after its innermost block ended.
LEMMA LeftFacts ==
  ASSUME Types, NEW r \in DOMAIN run, Running(r), run' = [run EXCEPT ![r] = Front(@)]
  PROVE  LET n == Len(run[r])
         IN  /\ n \in Nat \ {0} /\ DOMAIN run' = DOMAIN run
             /\ run'[r] \in Seq(Frame) /\ Len(run'[r]) = n - 1
             /\ Top(r) = run[r][n]
             /\ \A i \in 1 .. n - 1 : run'[r][i] = run[r][i]
             /\ \A q \in DOMAIN run : q # r => run'[q] = run[q]
<1>1. run[r] \in Seq(Frame) /\ run[r] # <<>>
  BY DEF Types, IsTable, Running
<1>2. run'[r] = Front(run[r])
  OBVIOUS
<1> QED
  BY <1>1, <1>2, FrontFacts DEF Top, Last

\* A request that arrives holds no connection.
LEMMA ArrivedFacts ==
  ASSUME NEW r, Arrive(r)
  PROVE  /\ r \notin DOMAIN run /\ DOMAIN run' = DOMAIN run \cup {r}
         /\ run'[r] \in Seq(Frame) /\ Len(run'[r]) = 1 /\ run'[r][1].block = "page"
         /\ \A q \in DOMAIN run : run'[q] = run[q]
<1>1. PICK visit \in Visits : run' = Insert(run, r, <<[block |-> "page", todo |-> visit]>>)
  BY DEF Arrive
<1>2. visit \in Seq(Blocks)
  BY VisitsAreBlocks, ConnectionsAssumption
<1>3. [block |-> "page", todo |-> visit] \in Frame
  BY <1>2 DEF Frame
<1> QED
  BY <1>1, <1>3 DEF Arrive, Insert

\* How a connection opens.
LEMMA ConnectFacts ==
  ASSUME Types, NEW r \in DOMAIN run, Connect(r)
  PROVE  /\ WantsOne(r) /\ Used < Limit /\ lost' = lost
         /\ \E b \in Blocks : \E inner \in Code[b].includes :
              /\ Entered(r, b, inner)
              /\ b = Head(run[r][Len(run[r])].todo)
              /\ careless' = IF b \in StaffBlocks THEN careless \cup {r} ELSE careless
<1>1. run[r] \in Seq(Frame) /\ WantsOne(r)
  BY DEF Types, IsTable, Connect
<1>2. /\ Top(r) = run[r][Len(run[r])] /\ run[r][Len(run[r])] \in Frame
      /\ run[r][Len(run[r])].todo # <<>>
  BY <1>1, GoingFacts DEF Top, Last
<1>3. Head(run[r][Len(run[r])].todo) \in Blocks
  BY <1>2, HeadTailProperties DEF Frame
<1> QED
  BY <1>1, <1>2, <1>3 DEF Connect, Entered

-----------------------------------------------------------------------------
(* Every step keeps the stacks as they should be.                          *)

\* Each step keeps the types of the stacks.
LEMMA StepKeepsTypes == Types /\ [Next]_vars => Types'
<1> SUFFICES ASSUME Types, [Next]_vars PROVE Types'
  OBVIOUS
<1>a. ASSUME NEW r \in DOMAIN run, DOMAIN run' = DOMAIN run, run'[r] \in Seq(Frame),
             \A q \in DOMAIN run : q # r => run'[q] = run[q],
             run' = [q \in DOMAIN run' |-> run'[q]]
      PROVE  IsTable(run', Requests, Seq(Frame))
  BY <1>a DEF Types, IsTable
<1>1. ASSUME NEW r \in Requests, Arrive(r) PROVE Types'
  <2>1. run' = [q \in DOMAIN run' |-> run'[q]]
    BY <1>1 DEF Arrive, Insert
  <2>2. IsTable(run', Requests, Seq(Frame))
    BY <1>1, <2>1, ArrivedFacts DEF Types, IsTable
  <2> QED
    BY <1>1, <2>2 DEF Arrive, Types
<1>2. ASSUME NEW r \in Requests, Connect(r) PROVE Types'
  <2>1. r \in DOMAIN run
    BY <1>2 DEF Connect, WantsOne, Running
  <2>2. PICK b \in Blocks : \E inner \in Code[b].includes :
          /\ Entered(r, b, inner)
          /\ careless' = IF b \in StaffBlocks THEN careless \cup {r} ELSE careless
    BY <1>2, <2>1, ConnectFacts
  <2>3. PICK inner \in Code[b].includes : Entered(r, b, inner)
    BY <2>2
  <2>4. WantsOne(r) /\ lost' = lost
    BY <1>2, <2>1, ConnectFacts
  <2>5. /\ DOMAIN run' = DOMAIN run /\ run'[r] \in Seq(Frame)
        /\ \A q \in DOMAIN run : q # r => run'[q] = run[q]
    BY <2>1, <2>3, <2>4, EnteredFacts
  <2>6. run' = [q \in DOMAIN run' |-> run'[q]]
    BY <2>3 DEF Entered
  <2> QED
    BY <1>a, <2>1, <2>2, <2>4, <2>5, <2>6 DEF Types
<1>3. ASSUME NEW r \in Requests, Refuse(r) PROVE Types'
  <2>1. r \in DOMAIN run /\ run' = [q \in DOMAIN run' |-> run'[q]]
    BY <1>3 DEF Refuse, WantsOne, Running
  <2> QED
    BY <1>a, <1>3, <2>1, RefusedFacts DEF Refuse, Types
<1>4. ASSUME NEW r \in Requests, Leave(r) \/ Throw(r) PROVE Types'
  <2>1. r \in DOMAIN run /\ run' = [q \in DOMAIN run' |-> run'[q]]
    BY <1>4 DEF Leave, Throw, Running
  <2>2. Running(r) /\ run' = [run EXCEPT ![r] = Front(@)]
    BY <1>4 DEF Leave, Throw
  <2>3. IsTable(run', Requests, Seq(Frame))
    BY <1>a, <2>1, <2>2, LeftFacts
  <2> QED
    BY <1>4, <2>3 DEF Leave, Throw, Types
<1>5. CASE Cleanup \/ UNCHANGED vars
  BY <1>5 DEF Cleanup, vars, Types
<1> QED
  BY <1>1, <1>2, <1>3, <1>4, <1>5 DEF Next, Proceed

\* A block that another includes is a leaf, so its own list is empty.
LEMMA StepKeepsNested == Types /\ Nested /\ [Next]_vars => Nested'
<1> SUFFICES ASSUME Types, Nested, [Next]_vars PROVE Nested'
  OBVIOUS
<1>a. ASSUME NEW r \in DOMAIN run, DOMAIN run' = DOMAIN run, Fits(run'[r]),
             \A q \in DOMAIN run : q # r => run'[q] = run[q]
      PROVE  Nested'
  <2>1. \A q \in DOMAIN run' : Fits(run'[q])
    BY <1>a DEF Nested
  <2> QED
    BY <2>1 DEF Nested, Fits
<1>1. ASSUME NEW r \in Requests, Arrive(r) PROVE Nested'
  <2>1. Fits(run'[r])
    <3>1. Len(run'[r]) = 1 /\ run'[r][1].block = "page"
      BY <1>1, ArrivedFacts
    <3> QED
      BY <3>1 DEF Fits
  <2>2. \A q \in DOMAIN run' : Fits(run'[q])
    BY <1>1, <2>1, ArrivedFacts DEF Nested
  <2> QED
    BY <2>2 DEF Nested, Fits
<1>2. ASSUME NEW r \in Requests, Connect(r) PROVE Nested'
  <2>1. r \in DOMAIN run
    BY <1>2 DEF Connect, WantsOne, Running
  <2> DEFINE n == Len(run[r])
  <2>2. PICK b \in Blocks : /\ b = Head(run[r][n].todo)
                            /\ \E inner \in Code[b].includes : Entered(r, b, inner)
    BY <1>2, <2>1, ConnectFacts
  <2>3. PICK inner \in Code[b].includes : Entered(r, b, inner)
    BY <2>2
  <2>4. /\ n \in Nat \ {0} /\ DOMAIN run' = DOMAIN run
        /\ Len(run'[r]) = n + 1
        /\ \A i \in 1 .. n : run'[r][i].block = run[r][i].block
        /\ \A i \in 1 .. n - 1 : run'[r][i] = run[r][i]
        /\ run'[r][n].todo = Tail(run[r][n].todo) /\ run[r][n].todo # <<>>
        /\ run'[r][n + 1] = [block |-> b, todo |-> inner]
        /\ \A q \in DOMAIN run : q # r => run'[q] = run[q]
    BY <1>2, <2>1, <2>3, ConnectFacts, EnteredFacts
  <2>5. Fits(run[r])
    BY <2>1 DEF Nested
  <2>6. n = 1 \/ n = 2
    <3>1. n # 3
      <4> SUFFICES ASSUME n = 3 PROVE FALSE
        OBVIOUS
      <4>1. run[r][3].todo = <<>>
        BY <2>5 DEF Fits
      <4> QED
        BY <2>4, <4>1
    <3>2. n <= 3
      BY <2>5 DEF Fits
    <3>3. n \in Nat \ {0}
      BY <2>4
    <3> HIDE DEF n
    <3> QED
      BY <3>1, <3>2, <3>3
  <2>7. b # "page" /\ inner \in Seq(Leaves)
    BY BlockNames, IncludesAreLeaves
  <2>8. CASE n = 1
    <3>1. /\ Len(run'[r]) = 2 /\ run'[r][1].block = run[r][1].block
          /\ run'[r][2] = [block |-> b, todo |-> inner]
      BY <2>4, <2>8
    <3>2. Fits(run'[r])
      BY <2>5, <2>7, <2>8, <3>1 DEF Fits
    <3> QED
      BY <1>a, <2>1, <2>4, <3>2
  <2>9. CASE n = 2
    <3>1. run[r][2].todo \in Seq(Leaves) /\ run[r][2].todo # <<>>
      BY <2>4, <2>5, <2>9 DEF Fits
    <3>2. b \in Leaves /\ Tail(run[r][2].todo) \in Seq(Leaves)
      BY <2>2, <2>9, <3>1, HeadTailProperties
    <3>3. inner = <<>>
      BY <2>3, <3>2 DEF Leaves
    <3>4. /\ Len(run'[r]) = 3 /\ run'[r][1] = run[r][1]
          /\ run'[r][2].block = run[r][2].block /\ run'[r][2].todo = Tail(run[r][2].todo)
          /\ run'[r][3] = [block |-> b, todo |-> inner]
      BY <2>4, <2>9
    <3>5. Fits(run'[r])
      BY <2>5, <2>7, <2>9, <3>2, <3>3, <3>4 DEF Fits
    <3> QED
      BY <1>a, <2>1, <2>4, <3>5
  <2> QED
    BY <2>6, <2>8, <2>9
<1>3. ASSUME NEW r \in Requests, Refuse(r) PROVE Nested'
  <2>1. r \in DOMAIN run
    BY <1>3 DEF Refuse, WantsOne, Running
  <2> DEFINE n == Len(run[r])
  <2>2. /\ n \in Nat \ {0} /\ DOMAIN run' = DOMAIN run
        /\ Len(run'[r]) = n
        /\ \A i \in 1 .. n : run'[r][i].block = run[r][i].block
        /\ \A i \in 1 .. n - 1 : run'[r][i] = run[r][i]
        /\ run'[r][n].todo = Tail(run[r][n].todo) /\ run[r][n].todo # <<>>
        /\ \A q \in DOMAIN run : q # r => run'[q] = run[q]
    BY <1>3, <2>1, RefusedFacts
  <2>3. Fits(run[r])
    BY <2>1 DEF Nested
  <2>4. n = 1 \/ n = 2
    <3>1. n # 3
      <4> SUFFICES ASSUME n = 3 PROVE FALSE
        OBVIOUS
      <4>1. run[r][3].todo = <<>>
        BY <2>3 DEF Fits
      <4> QED
        BY <2>2, <4>1
    <3>2. n <= 3
      BY <2>3 DEF Fits
    <3>3. n \in Nat \ {0}
      BY <2>2
    <3> HIDE DEF n
    <3> QED
      BY <3>1, <3>2, <3>3
  <2>5. CASE n = 1
    <3>1. Len(run'[r]) = 1 /\ run'[r][1].block = run[r][1].block
      BY <2>2, <2>5
    <3>2. Fits(run'[r])
      BY <2>3, <2>5, <3>1 DEF Fits
    <3> QED
      BY <1>a, <2>1, <2>2, <3>2
  <2>6. CASE n = 2
    <3>1. /\ Len(run'[r]) = 2 /\ run'[r][1].block = run[r][1].block
          /\ run'[r][2].block = run[r][2].block /\ run'[r][2].todo = Tail(run[r][2].todo)
      BY <2>2, <2>6
    <3>2. run[r][2].todo \in Seq(Leaves) /\ run[r][2].todo # <<>>
      BY <2>2, <2>3, <2>6 DEF Fits
    <3>3. Tail(run[r][2].todo) \in Seq(Leaves)
      BY <3>2, HeadTailProperties
    <3>4. Fits(run'[r])
      BY <2>3, <2>6, <3>1, <3>3 DEF Fits
    <3> QED
      BY <1>a, <2>1, <2>2, <3>4
  <2> QED
    BY <2>4, <2>5, <2>6
<1>4. ASSUME NEW r \in Requests, Leave(r) \/ Throw(r) PROVE Nested'
  <2>1. /\ r \in DOMAIN run /\ Running(r)
        /\ run' = [run EXCEPT ![r] = Front(@)]
    BY <1>4 DEF Leave, Throw, Running
  <2>2. /\ Len(run[r]) \in Nat \ {0} /\ DOMAIN run' = DOMAIN run
        /\ Len(run'[r]) = Len(run[r]) - 1
        /\ \A i \in 1 .. Len(run[r]) - 1 : run'[r][i] = run[r][i]
        /\ \A q \in DOMAIN run : q # r => run'[q] = run[q]
    BY <2>1, LeftFacts
  <2>3. Fits(run[r])
    BY <2>1 DEF Nested
  <2>4. Fits(run'[r])
    <3>1. \A i \in {1, 2, 3} : Len(run'[r]) >= i => run'[r][i] = run[r][i] /\ Len(run[r]) >= i
      BY <2>2
    <3> QED
      BY <2>2, <2>3, <3>1 DEF Fits
  <2> QED
    BY <1>a, <2>1, <2>2, <2>4
<1>5. CASE Cleanup \/ UNCHANGED vars
  BY <1>5 DEF Cleanup, vars, Nested, Fits
<1> QED
  BY <1>1, <1>2, <1>3, <1>4, <1>5 DEF Next, Proceed

\* A request that runs a block of the staff's pages, or throws, is careless.
LEMMA StepKeepsCareful == Types /\ Careful /\ [Next]_vars => Careful'
<1> SUFFICES ASSUME Types, Careful, [Next]_vars PROVE Careful'
  OBVIOUS
<1>a. ASSUME NEW r \in DOMAIN run, DOMAIN run' = DOMAIN run, careless \subseteq careless',
             r \notin careless' =>
               \A n \in 1 .. Len(run'[r]) : run'[r][n].block \notin StaffBlocks,
             \A q \in DOMAIN run : q # r => run'[q] = run[q]
      PROVE  Careful'
  <2>1. ASSUME NEW q \in DOMAIN run \ careless'
        PROVE  \A n \in 1 .. Len(run'[q]) : run'[q][n].block \notin StaffBlocks
    BY <1>a, <2>1 DEF Careful
  <2> QED
    BY <1>a, <2>1 DEF Careful
<1>1. ASSUME NEW r \in Requests, Arrive(r) PROVE Careful'
  <2>1. "page" \notin StaffBlocks
    BY DEF StaffBlocks
  <2>2. Len(run'[r]) = 1 /\ run'[r][1].block = "page"
    BY <1>1, ArrivedFacts
  <2>3. \A n \in 1 .. Len(run'[r]) : run'[r][n].block \notin StaffBlocks
    BY <2>1, <2>2
  <2>4. ASSUME NEW q \in DOMAIN run' \ careless
        PROVE  \A n \in 1 .. Len(run'[q]) : run'[q][n].block \notin StaffBlocks
    <3>1. CASE q = r
      BY <2>3, <3>1
    <3>2. CASE q # r
      <4>1. q \in DOMAIN run /\ run'[q] = run[q]
        BY <1>1, <2>4, <3>2, ArrivedFacts
      <4>2. q \in DOMAIN run \ careless
        BY <2>4, <4>1
      <4> QED
        BY <4>1, <4>2 DEF Careful
    <3> QED
      BY <3>1, <3>2
  <2> QED
    BY <1>1, <2>4 DEF Arrive, Careful
<1>2. ASSUME NEW r \in Requests, Connect(r) PROVE Careful'
  <2>1. r \in DOMAIN run
    BY <1>2 DEF Connect, WantsOne, Running
  <2> DEFINE n == Len(run[r])
  <2>2. PICK b \in Blocks : \E inner \in Code[b].includes :
          /\ Entered(r, b, inner)
          /\ careless' = IF b \in StaffBlocks THEN careless \cup {r} ELSE careless
    BY <1>2, <2>1, ConnectFacts
  <2>3. PICK inner \in Code[b].includes : Entered(r, b, inner)
    BY <2>2
  <2>4. /\ n \in Nat \ {0} /\ DOMAIN run' = DOMAIN run
        /\ Len(run'[r]) = n + 1
        /\ \A i \in 1 .. n : run'[r][i].block = run[r][i].block
        /\ run'[r][n + 1] = [block |-> b, todo |-> inner]
        /\ \A q \in DOMAIN run : q # r => run'[q] = run[q]
    BY <1>2, <2>1, <2>3, ConnectFacts, EnteredFacts
  <2>5. ASSUME r \notin careless', NEW i \in 1 .. Len(run'[r])
        PROVE  run'[r][i].block \notin StaffBlocks
    <3>1. r \notin careless /\ b \notin StaffBlocks
      BY <2>2, <2>5
    <3>2. CASE i = n + 1
      BY <2>4, <3>1, <3>2
    <3>3. CASE i # n + 1
      <4>1. i \in 1 .. n
        BY <2>4, <3>3
      <4> QED
        BY <2>1, <2>4, <3>1, <4>1 DEF Careful
    <3> QED
      BY <3>2, <3>3
  <2>6. careless \subseteq careless'
    BY <2>2
  <2> QED
    BY <1>a, <2>1, <2>4, <2>5, <2>6
<1>3. ASSUME NEW r \in Requests, Refuse(r) PROVE Careful'
  <2>1. r \in DOMAIN run
    BY <1>3 DEF Refuse, WantsOne, Running
  <2>2. /\ DOMAIN run' = DOMAIN run /\ Len(run'[r]) = Len(run[r])
        /\ \A i \in 1 .. Len(run[r]) : run'[r][i].block = run[r][i].block
        /\ \A q \in DOMAIN run : q # r => run'[q] = run[q]
    BY <1>3, <2>1, RefusedFacts
  <2>3. r \notin careless' =>
          \A n \in 1 .. Len(run'[r]) : run'[r][n].block \notin StaffBlocks
    BY <1>3, <2>1, <2>2 DEF Refuse, Careful
  <2> QED
    BY <1>3, <1>a, <2>1, <2>2, <2>3 DEF Refuse
<1>4. ASSUME NEW r \in Requests, Leave(r) \/ Throw(r) PROVE Careful'
  <2>1. /\ r \in DOMAIN run /\ Running(r)
        /\ run' = [run EXCEPT ![r] = Front(@)]
    BY <1>4 DEF Leave, Throw, Running
  <2>2. /\ Len(run[r]) \in Nat \ {0} /\ DOMAIN run' = DOMAIN run
        /\ Len(run'[r]) = Len(run[r]) - 1
        /\ \A i \in 1 .. Len(run[r]) - 1 : run'[r][i] = run[r][i]
        /\ \A q \in DOMAIN run : q # r => run'[q] = run[q]
    BY <2>1, LeftFacts
  <2>3. careless \subseteq careless'
    BY <1>4 DEF Leave, Throw
  <2>4. ASSUME r \notin careless', NEW i \in 1 .. Len(run'[r])
        PROVE  run'[r][i].block \notin StaffBlocks
    <3>1. i \in 1 .. Len(run[r]) /\ run'[r][i] = run[r][i]
      BY <2>2
    <3> QED
      BY <2>1, <2>3, <2>4, <3>1 DEF Careful
  <2> QED
    BY <1>a, <2>1, <2>2, <2>3, <2>4
<1>5. CASE Cleanup \/ UNCHANGED vars
  BY <1>5 DEF Cleanup, vars, Careful
<1> QED
  BY <1>1, <1>2, <1>3, <1>4, <1>5 DEF Next, Proceed

-----------------------------------------------------------------------------
(* The connections in use.                                                 *)

\* They are those of every depth but a request's first, which is its page.
OpenBelow == \A p : p \in Open <=> \E r \in DOMAIN run : \E n \in 2 .. Len(run[r]) : p = <<r, n>>

\* A page holds none: what is open is at depth two and three.
LEMMA NestedOpens == Types /\ Nested => OpenBelow
<1> SUFFICES ASSUME Types, Nested PROVE OpenBelow
  OBVIOUS
<1>1. ASSUME NEW r \in DOMAIN run, NEW n PROVE n \in Held(r) <=> n \in 2 .. Len(run[r])
  <2>1. Len(run[r]) \in Nat
    BY DEF Types, IsTable
  <2>2. Fits(run[r])
    BY DEF Nested
  <2>3. ASSUME n \in 1 .. Len(run[r]) PROVE n = 1 \/ n = 2 \/ n = 3
    BY <2>1, <2>2, <2>3 DEF Fits
  <2>4. ASSUME n \in 1 .. Len(run[r]) PROVE run[r][n].block # "page" <=> n # 1
    <3>1. CASE n = 1
      BY <2>1, <2>2, <2>4, <3>1 DEF Fits
    <3>2. CASE n = 2
      BY <2>1, <2>2, <2>4, <3>2 DEF Fits
    <3>3. CASE n = 3
      BY <2>1, <2>2, <2>4, <3>3 DEF Fits
    <3> QED
      BY <2>3, <2>4, <3>1, <3>2, <3>3
  <2>5. n \in 2 .. Len(run[r]) <=> n \in 1 .. Len(run[r]) /\ n # 1
    BY <2>1
  <2> QED
    BY <2>4, <2>5 DEF Held
<1>2. ASSUME NEW p PROVE p \in Open <=> \E r \in DOMAIN run : \E n \in Held(r) : p = <<r, n>>
  BY DEF Open
<1> QED
  BY <1>1, <1>2 DEF OpenBelow

\* The same after a step.
LEMMA NestedOpensNext == Types' /\ Nested' => OpenBelow'
BY NestedOpens, PTL

\* A block that begins opens one, a block that ends closes or loses one.
LEMMA OpenMoves ==
  ASSUME Types, Nested, [Next]_vars
  PROVE  \/ Open' = Open /\ lost' = lost
         \/ Open' = Open /\ lost > 0 /\ lost' = lost - 1
         \/ /\ Used < Limit /\ lost' = lost
            /\ \E p : p \notin Open /\ Open' = Open \cup {p}
         \/ /\ lost' \in {lost, lost + 1}
            /\ \E p \in Open : Open' = Open \ {p}
<1> DEFINE Moves == \/ Open' = Open /\ lost' = lost
                    \/ Open' = Open /\ lost > 0 /\ lost' = lost - 1
                    \/ /\ Used < Limit /\ lost' = lost
                       /\ \E p : p \notin Open /\ Open' = Open \cup {p}
                    \/ /\ lost' \in {lost, lost + 1}
                       /\ \E p \in Open : Open' = Open \ {p}
<1>a. OpenBelow /\ OpenBelow'
  BY NestedOpens, NestedOpensNext, StepKeepsTypes, StepKeepsNested
<1>1. ASSUME NEW r \in Requests, Arrive(r) PROVE Moves
  <2>1. /\ r \notin DOMAIN run /\ DOMAIN run' = DOMAIN run \cup {r}
        /\ Len(run'[r]) = 1 /\ \A q \in DOMAIN run : run'[q] = run[q]
    BY <1>1, ArrivedFacts
  <2>2. 2 .. Len(run'[r]) = {}
    BY <2>1
  <2>3. \A p : p \in Open' <=> p \in Open
    <3>1. \A p : p \in Open' <=> \E q \in DOMAIN run : \E n \in 2 .. Len(run'[q]) : p = <<q, n>>
      <4>1. \A p : p \in Open' <=> \E q \in DOMAIN run \cup {r} :
                                   \E n \in 2 .. Len(run'[q]) : p = <<q, n>>
        BY <1>a, <2>1 DEF OpenBelow
      <4> QED
        BY <2>2, <4>1
    <3>2. \A q \in DOMAIN run : Len(run'[q]) = Len(run[q])
      BY <2>1
    <3> QED
      BY <1>a, <3>1, <3>2 DEF OpenBelow
  <2> QED
    BY <1>1, <2>3 DEF Arrive
<1>2. ASSUME NEW r \in Requests, Connect(r) PROVE Moves
  <2>1. r \in DOMAIN run
    BY <1>2 DEF Connect, WantsOne, Running
  <2> DEFINE n == Len(run[r])
             new == <<r, n + 1>>
  <2>2. PICK b \in Blocks : \E inner \in Code[b].includes : Entered(r, b, inner)
    BY <1>2, <2>1, ConnectFacts
  <2>3. /\ n \in Nat \ {0} /\ DOMAIN run' = DOMAIN run /\ Len(run'[r]) = n + 1
        /\ \A q \in DOMAIN run : q # r => run'[q] = run[q]
    BY <1>2, <2>1, <2>2, ConnectFacts, EnteredFacts
  <2>4. 2 .. n + 1 = (2 .. n) \cup {n + 1} /\ n + 1 \notin 2 .. n
    BY <2>3
  <2>5. new \notin Open
    BY <1>a, <2>4 DEF OpenBelow
  <2>6. \A p : p \in Open' <=> p \in Open \/ p = new
    BY <1>a, <2>1, <2>3, <2>4 DEF OpenBelow
  <2>7. Open' = Open \cup {new}
    BY <2>6
  <2>8. Used < Limit /\ lost' = lost
    BY <1>2, <2>1, ConnectFacts
  <2> HIDE DEF new
  <2> QED
    BY <2>5, <2>7, <2>8
<1>3. ASSUME NEW r \in Requests, Refuse(r) PROVE Moves
  <2>1. r \in DOMAIN run
    BY <1>3 DEF Refuse, WantsOne, Running
  <2>2. /\ DOMAIN run' = DOMAIN run /\ Len(run'[r]) = Len(run[r])
        /\ \A q \in DOMAIN run : q # r => run'[q] = run[q]
    BY <1>3, <2>1, RefusedFacts
  <2>3. \A q \in DOMAIN run : Len(run'[q]) = Len(run[q])
    BY <2>2
  <2>4. \A p : p \in Open' <=> p \in Open
    BY <1>a, <2>2, <2>3 DEF OpenBelow
  <2> QED
    BY <1>3, <2>4 DEF Refuse
<1>4. ASSUME NEW r \in Requests, Leave(r) \/ Throw(r) PROVE Moves
  <2>1. /\ r \in DOMAIN run /\ Running(r)
        /\ run' = [run EXCEPT ![r] = Front(@)]
    BY <1>4 DEF Leave, Throw, Running
  <2> DEFINE n == Len(run[r])
             old == <<r, n>>
  <2>2. /\ n \in Nat \ {0} /\ DOMAIN run' = DOMAIN run
        /\ Len(run'[r]) = n - 1 /\ Top(r) = run[r][n]
        /\ \A q \in DOMAIN run : q # r => run'[q] = run[q]
    BY <2>1, LeftFacts
  <2>3. lost' \in {lost, lost + 1}
    BY <1>4 DEF Leave, Throw
  <2>4. CASE n = 1
    <3>1. 2 .. Len(run[r]) = {} /\ 2 .. Len(run'[r]) = {}
      BY <2>2, <2>4
    <3>2. \A p : p \in Open' <=> p \in Open
      BY <1>a, <2>2, <3>1 DEF OpenBelow
    <3>3. Top(r).block = "page"
      BY <2>1, <2>2, <2>4 DEF Nested, Fits
    <3>4. lost' = lost
      BY <1>4, <3>3 DEF Leave, Throw
    <3> QED
      BY <3>2, <3>4
  <2>5. CASE n # 1
    <3>1. 2 .. n - 1 = (2 .. n) \ {n} /\ n \in 2 .. n
      <4>1. n \in Nat \ {0, 1}
        BY <2>2, <2>5
      <4> HIDE DEF n
      <4> QED
        BY <4>1
    <3>2. old \in Open
      BY <1>a, <2>1, <3>1 DEF OpenBelow
    <3>3. \A p : p \in Open' <=> p \in Open /\ p # old
      BY <1>a, <2>1, <2>2, <3>1 DEF OpenBelow
    <3>4. Open' = Open \ {old}
      BY <3>3
    <3> HIDE DEF old
    <3> QED
      BY <2>3, <3>2, <3>4
  <2> QED
    BY <2>4, <2>5
<1>5. CASE Cleanup \/ UNCHANGED vars
  <2>1. run' = run
    BY <1>5 DEF Cleanup, vars
  <2>2. \A p : p \in Open' <=> p \in Open
    BY <1>a, <2>1 DEF OpenBelow
  <2> QED
    BY <1>5, <2>2 DEF Cleanup, vars
<1> QED
  BY <1>1, <1>2, <1>3, <1>4, <1>5 DEF Next, Proceed

-----------------------------------------------------------------------------
(* The invariant and the theorems.                                         *)

\* The server's count is that of a finite set and stays within the limit, and
\* only careless requests lose a connection.
Within   == IsFiniteSet(Open) /\ Used <= Limit
LossIsCareless == careless = {} => lost = 0

ConnectionsInv == Types /\ Nested /\ Careful /\ Within /\ LossIsCareless

\* No request, no connection.
LEMMA InitHolds == Init => ConnectionsInv
<1> SUFFICES ASSUME Init PROVE ConnectionsInv
  OBVIOUS
<1>1. DOMAIN run = {}
  BY DEF Init
<1>2. Open = {}
  BY <1>1 DEF Open
<1>3. Within
  BY <1>2, FS_EmptySet, ConnectionsAssumption DEF Within, Used, Init
<1>4. IsTable(run, Requests, Seq(Frame))
  BY <1>1 DEF Init, IsTable
<1> QED
  BY <1>1, <1>3, <1>4 DEF Init, ConnectionsInv, Types, Nested, Careful, LossIsCareless

\* A connection is opened only below the limit, and a lost one stays counted.
LEMMA StepKeepsWithin == Types /\ Nested /\ Within /\ [Next]_vars => Within'
<1> SUFFICES ASSUME Types, Nested, Within, [Next]_vars PROVE Within'
  OBVIOUS
<1>1. /\ IsFiniteSet(Open) /\ Cardinality(Open) \in Nat
      /\ lost \in Nat /\ Limit \in Nat /\ lost + Cardinality(Open) <= Limit
  BY FS_CardinalityType, ConnectionsAssumption DEF Within, Used, Types
<1>2. CASE Open' = Open /\ lost' = lost
  BY <1>1, <1>2 DEF Within, Used
<1>3. CASE Open' = Open /\ lost > 0 /\ lost' = lost - 1
  BY <1>1, <1>3 DEF Within, Used
<1>4. CASE /\ Used < Limit /\ lost' = lost
           /\ \E p : p \notin Open /\ Open' = Open \cup {p}
  <2>1. IsFiniteSet(Open') /\ Cardinality(Open') = Cardinality(Open) + 1
    BY <1>1, <1>4, FS_AddElement
  <2>2. lost' = lost /\ lost + Cardinality(Open) < Limit
    BY <1>4 DEF Used
  <2> QED
    BY <1>1, <2>1, <2>2 DEF Within, Used
<1>5. CASE /\ lost' \in {lost, lost + 1}
           /\ \E p \in Open : Open' = Open \ {p}
  <2>1. IsFiniteSet(Open') /\ Cardinality(Open') = Cardinality(Open) - 1
    BY <1>1, <1>5, FS_RemoveElement
  <2> QED
    BY <1>1, <1>5, <2>1 DEF Within, Used
<1> QED
  BY <1>2, <1>3, <1>4, <1>5, OpenMoves

\* A store's block closes its connection, even if it was refused one inside.
LEMMA StepKeepsLoss ==
  Types /\ Careful /\ LossIsCareless /\ [Next]_vars => LossIsCareless'
<1> SUFFICES ASSUME Types, Careful, LossIsCareless, [Next]_vars, careless' = {}
             PROVE  lost' = 0
  BY DEF LossIsCareless
<1>1. ASSUME NEW r \in Requests, Leave(r) PROVE lost' = 0
  <2>1. careless = {} /\ lost = 0 /\ r \in DOMAIN run
    BY <1>1 DEF Leave, Running, LossIsCareless
  <2>2. run[r] \in Seq(Frame) /\ run[r] # <<>>
    BY <1>1, <2>1 DEF Types, IsTable, Leave, Running
  <2>3. Len(run[r]) \in 1 .. Len(run[r]) /\ Top(r) = run[r][Len(run[r])] /\ Top(r) \in Frame
    BY <2>2, FrontFacts DEF Top, Last
  <2>4. Top(r).block \notin StaffBlocks /\ Top(r).block \in Blocks \cup {"page"}
    BY <2>1, <2>3 DEF Careful, Frame
  <2> QED
    BY <1>1, <2>1, <2>4, StoreBlocksClose DEF Leave
<1>2. ASSUME NEW r \in Requests, Throw(r) PROVE lost' = 0
  BY <1>2 DEF Throw
<1>3. ASSUME NEW r \in Requests, Connect(r) PROVE lost' = 0
  <2>1. careless = {} /\ lost' = lost
    <3>1. r \in DOMAIN run
      BY <1>3 DEF Connect, WantsOne, Running
    <3> QED
      BY <1>3, <3>1, ConnectFacts
  <2> QED
    BY <2>1 DEF LossIsCareless
<1>4. ASSUME NEW r \in Requests, Arrive(r) \/ Refuse(r) PROVE lost' = 0
  BY <1>4 DEF Arrive, Refuse, LossIsCareless
<1>5. CASE Cleanup \/ UNCHANGED vars
  BY <1>5 DEF Cleanup, vars, LossIsCareless, Types
<1> QED
  BY <1>1, <1>2, <1>3, <1>4, <1>5 DEF Next, Proceed

\* The invariant holds in every reachable state.
LEMMA ConnectionsInvHolds == Spec => []ConnectionsInv
<1>1. ConnectionsInv /\ [Next]_vars => ConnectionsInv'
  BY StepKeepsTypes, StepKeepsNested, StepKeepsCareful, StepKeepsWithin, StepKeepsLoss
     DEF ConnectionsInv
<1> QED
  BY InitHolds, <1>1, PTL DEF Spec

\* The server never has more connections than it allows, lost ones included,
\* however many threads ask: each of the code's try blocks asks for one at a
\* time, and is refused when the server is full.
THEOREM TypeCorrect == Spec => []TypeOK
<1>1. ConnectionsInv => TypeOK
  BY DEF ConnectionsInv, Types, Within, TypeOK
<1> QED
  BY <1>1, ConnectionsInvHolds, PTL

\* The pages of a store lose no connection while nothing throws and no page of
\* the staff has run: every block of theirs that began ends in con.close(),
\* whether the blocks it included were given a connection or refused one.
THEOREM StoresKeepAll == Spec => []StoresLoseNothing
<1>1. ConnectionsInv => StoresLoseNothing
  BY DEF ConnectionsInv, LossIsCareless, StoresLoseNothing
<1> QED
  BY <1>1, ConnectionsInvHolds, PTL

\* With two connections for each request the server refuses nobody before some
\* are lost: no block nests deeper than two, and one that is second asks for
\* no more.
THEOREM TwoEach == Spec => []TwoEachSuffice
<1>1. ASSUME ConnectionsInv PROVE TwoEachSuffice
  <2> SUFFICES ASSUME Limit >= 2 * Cardinality(Requests), Used = Limit, lost = 0,
                      NEW r \in Requests, WantsOne(r)
               PROVE  FALSE
    BY <1>1 DEF TwoEachSuffice, ConnectionsInv, Types
  <2> DEFINE All == Requests \X (2 .. 3)
  <2>1. OpenBelow
    BY <1>1, NestedOpens DEF ConnectionsInv
  <2>2. Open \subseteq All
    <3>1. ASSUME NEW q \in DOMAIN run, NEW n \in 2 .. Len(run[q]) PROVE <<q, n>> \in All
      <4>1. q \in Requests /\ Len(run[q]) \in Nat /\ Len(run[q]) <= 3
        BY <1>1 DEF ConnectionsInv, Types, IsTable, Nested, Fits
      <4> QED
        BY <4>1
    <3> QED
      BY <2>1, <3>1 DEF OpenBelow
  <2>3. IsFiniteSet(All) /\ Cardinality(All) = Cardinality(Requests) * 2
    <3>1. IsFiniteSet(2 .. 3) /\ Cardinality(2 .. 3) = 2
      <4>1. /\ IsFiniteSet(2 .. 3)
            /\ Cardinality(2 .. 3) = IF 2 > 3 THEN 0 ELSE 3 - 2 + 1
        BY ONLY FS_Interval, 2 \in Int, 3 \in Int
      <4> QED
        BY <4>1
    <3> QED
      BY <3>1, FS_Product, ConnectionsAssumption
  <2>4. Cardinality(Requests) \in Nat /\ Cardinality(Open) \in Nat /\ IsFiniteSet(Open)
    BY <1>1, FS_CardinalityType, ConnectionsAssumption DEF ConnectionsInv, Within
  <2>5. Cardinality(Open) >= 2 * Cardinality(Requests)
    BY <2>4, ConnectionsAssumption DEF Used
  <2>6. Open = All
    <3>1. Cardinality(Open) <= Cardinality(All)
      BY <2>2, <2>3, FS_Subset
    <3>2. Cardinality(Open) = Cardinality(All)
      BY <2>3, <2>4, <2>5, <3>1
    <3> QED
      BY <2>2, <2>3, <3>2, FS_Subset
  <2>7. <<r, 3>> \in Open
    BY <2>6
  <2>8. r \in DOMAIN run /\ 3 \in 2 .. Len(run[r])
    BY <2>1, <2>7 DEF OpenBelow
  <2>9. Len(run[r]) = 3 /\ run[r][3].todo = <<>>
    <3>1. Len(run[r]) \in Nat /\ Fits(run[r])
      BY <1>1, <2>8 DEF ConnectionsInv, Types, IsTable, Nested
    <3>2. Len(run[r]) >= 3
      BY <2>8, <3>1
    <3>3. Len(run[r]) <= 3 /\ run[r][3].todo = <<>>
      BY <3>1, <3>2 DEF Fits
    <3> DEFINE n == Len(run[r])
    <3>4. n \in Nat /\ n >= 3 /\ n <= 3
      BY <3>1, <3>2, <3>3
    <3> HIDE DEF n
    <3>5. n = 3
      BY <3>4
    <3> QED
      BY <3>3, <3>5 DEF n
  <2> QED
    BY <2>9 DEF WantsOne, Top, Last
<1> QED
  BY <1>1, ConnectionsInvHolds, PTL
=============================================================================
