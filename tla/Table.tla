-------------------------------- MODULE Table --------------------------------
(***************************************************************************)
(* A MySQL table as the servlets use it: a function from row keys to rows, *)
(* whose domain is the set of rows present.  Keys are AUTO_INCREMENT ids   *)
(* where the schema has one and hidden row ids where the code names none.  *)
(* Every statement of the program runs in autocommit mode, so each of them *)
(* is one atomic step of the table it writes.                              *)
(***************************************************************************)
EXTENDS Integers, Functions

\* INSERT of one row.
Insert(t, k, row) == [j \in DOMAIN t \cup {k} |-> IF j = k THEN row ELSE t[j]]

\* DELETE of the rows in K.
Delete(t, K) == Restrict(t, DOMAIN t \ K)

\* A hidden row id that no row of t has; Keys bounds the table's size.
HasRoom(t, Keys)  == Keys \ DOMAIN t # {}
FreshKey(t, Keys) == CHOOSE k \in Keys : k \notin DOMAIN t

\* t is a table with rows of type Row and keys in Keys.
IsTable(t, Keys, Row) == /\ DOMAIN t \subseteq Keys
                         /\ t \in [DOMAIN t -> Row]
==============================================================================
