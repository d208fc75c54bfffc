----------------------------- MODULE TableProofs -----------------------------
(***************************************************************************)
(* What the operators of Table do to any table, row type and set of keys.  *)
(***************************************************************************)
EXTENDS Table, TLAPS

\* A table stays a table when a row of its type is inserted under a key.
LEMMA InsertIsTable ==
  ASSUME NEW t, NEW Keys, NEW Row, NEW k \in Keys, NEW row \in Row,
         IsTable(t, Keys, Row)
  PROVE  IsTable(Insert(t, k, row), Keys, Row)
BY DEF IsTable, Insert

\* A table stays a table when rows are deleted.
LEMMA DeleteIsTable ==
  ASSUME NEW t, NEW Keys, NEW Row, NEW K, IsTable(t, Keys, Row)
  PROVE  IsTable(Delete(t, K), Keys, Row)
BY DEF IsTable, Delete, Restrict

\* A table stays a table when one of its rows is replaced by one of its type.
LEMMA ReplaceIsTable ==
  ASSUME NEW t, NEW Keys, NEW Row, NEW k \in DOMAIN t, NEW row \in Row,
         IsTable(t, Keys, Row)
  PROVE  IsTable([t EXCEPT ![k] = row], Keys, Row)
BY DEF IsTable

\* A fresh key is a key that no row has.
LEMMA FreshKeyFacts ==
  ASSUME NEW t, NEW Keys, HasRoom(t, Keys)
  PROVE  FreshKey(t, Keys) \in Keys /\ FreshKey(t, Keys) \notin DOMAIN t
BY DEF HasRoom, FreshKey
=============================================================================
