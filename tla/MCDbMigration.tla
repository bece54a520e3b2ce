--------------------------- MODULE MCDbMigration ---------------------------
(* DbMigration with one process for each of three SDK versions. *)
EXTENDS DbMigration

MCProcesses == {"p1", "p2", "p3"}
MCSdk == [p1 |-> 1, p2 |-> 2, p3 |-> 3] \* versions of the SDKs
=============================================================================
