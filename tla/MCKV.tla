-------------------------------- MODULE MCKV --------------------------------
(* Instances of KV for TLC. *)
EXTENDS KV, TLC

CONSTANTS t1, t2, k1, k2, v1, v2

OneTable  == {t1}
TwoTables == {t1, t2}

\* The order in which flushAllLocked visits the merge keys.
OneTableOrder  == << <<t1, k1>>, <<t1, k2>> >>
TwoTablesOrder == << <<t1, k1>>, <<t1, k2>>, <<t2, k1>>, <<t2, k2>> >>

ValueSym == Permutations({v1, v2})

AllKinds == {"Set", "Delete", "BulkSet", "BulkDel"}
=============================================================================
