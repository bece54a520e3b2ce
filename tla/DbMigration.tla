---------------------------- MODULE DbMigration ----------------------------
(***************************************************************************)
(* Opening the management database (_sdk/_orm/session.py): every process   *)
(* that uses it creates the table run_info, or migrates it to the schema   *)
(* of its own SDK, under a file lock.  Processes with different SDKs share *)
(* one database.  Any statement may fail with an OperationalError, as when *)
(* an open session has the database locked for too long, and a process may *)
(* die at any point; the system then frees its lock.                       *)
(*                                                                         *)
(* A schema is its version number: a later version has all the columns of  *)
(* an earlier one and more.  Of legacy tables only those are kept whose    *)
(* names can be taken again; names with a timestamp never are.             *)
(***************************************************************************)
EXTENDS LocalStore, Naturals, FiniteSets

CONSTANTS Sdk,     \* [Processes -> version], __pf_schema_version__ of each one's SDK
          RunNames \* primary keys of the rows

ASSUME DbAssumption == Sdk \in [Processes -> Nat \ {0}]

VARIABLES
  pc,       \* where each process is
  lock,     \* the process that holds the file lock
  plan,     \* what a migrating process has read of the old table
  exists,   \* whether there is a table run_info
  columns,  \* the schema version of its columns
  rows,     \* the runs in it
  recorded, \* its version in schema_info, NoVersion if there is none
  legacy,   \* versions v with a table run_info_v<v>
  misread,  \* recorded versions that a process has taken for missing
  inserted  \* every run that was inserted

table == <<exists, columns, rows, recorded, legacy>>
vars == <<pc, lock, plan, table, misread, inserted>>

PCs == {"closed", "locked", "migrate", "record", "finish", "open", "raised", "blocked"}
Opening == {"locked", "migrate", "record", "finish"}
NoPlan == [columns |-> 0, version |-> 0]

\* get_db_schema_version without a row of its table.
NoVersion == 0

\* There is no database, or one of an SDK that kept no versions.
Init ==
  /\ pc = [p \in Processes |-> "closed"]
  /\ lock = None
  /\ plan = [p \in Processes |-> NoPlan]
  /\ exists \in BOOLEAN
  /\ columns = 0
  /\ rows \in SUBSET RunNames
  /\ exists \/ rows = {}
  /\ recorded = NoVersion
  /\ legacy = {}
  /\ misread = {}
  /\ inserted = rows

Goto(p, place) == pc' = [pc EXCEPT ![p] = place]

-----------------------------------------------------------------------------
\* mgmt_db_session in a process without a session maker.  (Mutant: no lock.)
MutantLockFree == TRUE
LockFree == lock = None

Acquire(p) ==
  /\ pc[p] \in {"closed", "raised", "blocked"}
  /\ LockFree
  /\ lock' = p
  /\ Goto(p, "locked")
  /\ UNCHANGED <<plan, table, misread, inserted>>

\* create_or_update_table finds no table: create_all.
CreateTable(p) ==
  /\ pc[p] = "locked"
  /\ ~ exists
  /\ exists' = TRUE
  /\ columns' = Sdk[p]
  /\ Goto(p, "record")
  /\ UNCHANGED <<lock, plan, rows, recorded, legacy, misread, inserted>>

\* A SELECT of the version that fails is taken for one that finds none.
VersionsRead == {recorded, NoVersion}

\* The table's version is compared with the SDK's.  (Mutant: a later table is
\* migrated too.)
MutantUpToDate(p, version) == version = Sdk[p]
UpToDate(p, version) == version >= Sdk[p]

KeepTable(p) ==
  /\ pc[p] = "locked"
  /\ exists
  /\ UpToDate(p, recorded)
  /\ Goto(p, "finish")
  /\ UNCHANGED <<lock, plan, table, misread, inserted>>

\* The version is read once to compare it and once for the name of the legacy table,
\* and the old columns are read, before the transaction.
PlanMigration(p) ==
  /\ pc[p] = "locked"
  /\ exists
  /\ \E found, named \in VersionsRead :
       /\ ~ UpToDate(p, found)
       /\ plan' = [plan EXCEPT ![p] = [columns |-> columns, version |-> named]]
       /\ misread' = IF found = recorded THEN misread ELSE misread \cup {recorded}
  /\ Goto(p, "migrate")
  /\ UNCHANGED <<lock, table, inserted>>

\* Without a recorded version the name has a timestamp.
NameTaken(p) == plan[p].version # NoVersion /\ plan[p].version \in legacy

\* The copy has a value for each old column and NULL for the others: the new table
\* must have at least as many.  (Mutant: too many values are cut off.)
MutantCopyFits(p) == TRUE
CopyFits(p) == plan[p].columns <= Sdk[p]

\* (Mutant: the copy is forgotten.)
MutantCopied == {}
Copied == rows

\* What was read is local to one opening.
Forgotten(p) == [plan EXCEPT ![p] = NoPlan]

\* Rename, create and copy in one transaction.
Migrate(p) ==
  /\ pc[p] = "migrate"
  /\ ~ NameTaken(p) /\ CopyFits(p)
  /\ columns' = Sdk[p]
  /\ rows' = Copied
  /\ legacy' = IF plan[p].version = NoVersion THEN legacy ELSE legacy \cup {plan[p].version}
  /\ plan' = Forgotten(p)
  /\ Goto(p, "record")
  /\ UNCHANGED <<lock, exists, recorded, misread, inserted>>

\* The name is taken, or the copy has too many values: the transaction is rolled back,
\* mgmt_db_session raises and frees the lock.
MigrationFails(p) ==
  /\ pc[p] = "migrate"
  /\ NameTaken(p) \/ ~ CopyFits(p)
  /\ lock' = None
  /\ plan' = Forgotten(p)
  /\ Goto(p, "blocked")
  /\ UNCHANGED <<table, misread, inserted>>

\* update_current_schema.
RecordVersion(p) ==
  /\ pc[p] = "record"
  /\ recorded' = Sdk[p]
  /\ Goto(p, "finish")
  /\ UNCHANGED <<lock, plan, exists, columns, rows, legacy, misread, inserted>>

\* The connection table and the index, which only matter if they are missing, and
\* the session maker.
FinishOpen(p) ==
  /\ pc[p] = "finish"
  /\ lock' = None
  /\ Goto(p, "open")
  /\ UNCHANGED <<plan, table, misread, inserted>>

\* Any statement on the way fails this time: its transaction is rolled back, those before
\* it stay, mgmt_db_session raises and frees the lock.
StatementFails(p) ==
  /\ pc[p] \in Opening
  /\ lock' = None
  /\ plan' = Forgotten(p)
  /\ Goto(p, "raised")
  /\ UNCHANGED <<table, misread, inserted>>

\* RunInfo.dump in an open session.
Insert(p, r) ==
  /\ pc[p] = "open"
  /\ r \notin rows
  /\ rows' = rows \cup {r}
  /\ inserted' = inserted \cup {r}
  /\ UNCHANGED <<pc, lock, plan, exists, columns, recorded, legacy, misread>>

\* The process ends, or dies while it opens the database; later there is another one.
Exit(p) ==
  /\ pc[p] # "closed"
  /\ lock' = IF lock = p THEN None ELSE lock
  /\ plan' = Forgotten(p)
  /\ Goto(p, "closed")
  /\ UNCHANGED <<table, misread, inserted>>

Next ==
  \E p \in Processes :
    \/ Acquire(p) \/ CreateTable(p) \/ KeepTable(p) \/ PlanMigration(p)
    \/ Migrate(p) \/ MigrationFails(p) \/ RecordVersion(p) \/ FinishOpen(p)
    \/ StatementFails(p)
    \/ \E r \in RunNames : Insert(p, r)
    \/ Exit(p)

Spec == Init /\ [][Next]_vars

-----------------------------------------------------------------------------
(* Properties *)

\* Every variable has its type.
TypeOK ==
  /\ pc \in [Processes -> PCs]
  /\ lock \in Processes \cup {None}
  /\ plan \in [Processes -> [columns : Nat, version : Nat]]
  /\ exists \in BOOLEAN
  /\ columns \in Nat
  /\ rows \subseteq RunNames
  /\ recorded \in Nat
  /\ legacy \subseteq Nat
  /\ misread \subseteq Nat
  /\ inserted \subseteq RunNames

\* No run is lost by any series of migrations, failed ones and crashes in between:
\* what was inserted is in the current table, not only in a legacy one.
RowsKept == rows = inserted

\* While a process uses the database, whatever processes with other SDKs do to it,
\* the table has every column of the process's own schema.
SessionsFit == \A p \in Processes : pc[p] = "open" => exists /\ columns >= Sdk[p]

\* The recorded version never promises columns that the table does not have, so
\* that a process that finds its version there need not look at the table.
RecordedWithinTable == recorded <= columns

\* No column of the table, and so no value in it, is lost: not even to an SDK with an
\* older schema that takes the table for a still older one.
ColumnsKept == [][exists => columns' >= columns]_vars

\* A migration that fails for what it finds, and not because a statement fails this time,
\* has one of two causes: the opening that created or migrated the table was interrupted,
\* by a crash or a failing statement, before it recorded the version; or the version the
\* table has now was taken for missing when the SELECT for it failed, which makes an older
\* SDK migrate a table it could have used as it is, and one of the same version take the
\* name that the next upgrade needs for its legacy table.
BlockedWithCause ==
  [][\A p \in Processes : pc[p] # "blocked" /\ pc'[p] = "blocked" =>
       recorded < columns \/ recorded \in misread]_vars
=============================================================================
