------------------------- MODULE MCEncryptionMigration -------------------------
(***************************************************************************)
(* EncryptionMigration with the table of the API token and two tables of   *)
(* at most one row, in batches of one: the last batch of a table is full,  *)
(* and there is a table after it.                                          *)
(***************************************************************************)
EXTENDS EncryptionMigration, TLC

CONSTANTS d1, d2, w1

MCDrivers == {d1, d2}
ThreeTables == <<"secrets", "topics", "history">>
FullOrNone == {{}, {"secrets", "topics", "history"}}
Symmetry == Permutations(MCDrivers)
=============================================================================
