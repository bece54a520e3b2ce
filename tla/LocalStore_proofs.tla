------------------------- MODULE LocalStore_proofs -------------------------
(***************************************************************************)
(* Theorems about what processes of one machine share: the management      *)
(* database, for every set of processes and every assignment of SDK        *)
(* versions to them (DbMigration), the key in the keyring, for every       *)
(* number of calls (EncryptionKey), and the row of a run, for every set of *)
(* editors and every number of tries (RunEdits).                           *)
(***************************************************************************)
EXTENDS DbMigration, EncryptionKey, RunEdits, TLAPS

-----------------------------------------------------------------------------
(* The management database: the inductive invariant *)

\* The file lock excludes processes from each other while they open the database.
LockHeld == \A p \in Processes : pc[p] \in Opening => lock = p

\* What a migrating process read is still so, but for a version whose SELECT failed.
PlanIsCurrent ==
  \A p \in Processes : pc[p] = "migrate" =>
    /\ exists
    /\ plan[p].columns = columns
    /\ plan[p].version \in VersionsRead
    /\ recorded < Sdk[p] \/ recorded \in misread

\* From its own migration on a process has its columns.
TableFits ==
  \A p \in Processes : pc[p] \in {"record", "finish", "open"} =>
    exists /\ columns >= Sdk[p]

\* Columns and versions are those of a table there is; a legacy table is older than the
\* table, or was made by a process that took the table's version for missing.
VersionsWithinTable ==
  /\ recorded <= columns
  /\ exists \/ (columns = 0 /\ recorded = 0)
  /\ \A v \in legacy : v < columns \/ v \in misread

IInv ==
  /\ TypeOK
  /\ RowsKept
  /\ LockHeld
  /\ PlanIsCurrent
  /\ TableFits
  /\ VersionsWithinTable

-----------------------------------------------------------------------------
\* The invariant holds initially.
LEMMA Initially == Init => IInv
  BY DbAssumption, ProcessAssumption
  DEF Init, IInv, TypeOK, RowsKept, LockHeld, PlanIsCurrent, TableFits,
      VersionsWithinTable, NoVersion, NoPlan, PCs, Opening

\* Each action preserves the types.
LEMMA TypePreserved == IInv /\ [Next]_vars => TypeOK'
<1> SUFFICES ASSUME IInv, [Next]_vars PROVE TypeOK'
  OBVIOUS
<1> USE DbAssumption, ProcessAssumption DEF IInv, TypeOK, PCs, Goto
<1>1. CASE UNCHANGED vars
  BY <1>1 DEF vars, table
<1>2. ASSUME NEW p \in Processes, Acquire(p) PROVE TypeOK'
  BY <1>2 DEF Acquire, table
<1>3. ASSUME NEW p \in Processes, CreateTable(p) PROVE TypeOK'
  BY <1>3 DEF CreateTable
<1>4. ASSUME NEW p \in Processes, KeepTable(p) PROVE TypeOK'
  BY <1>4 DEF KeepTable, table
<1>5. ASSUME NEW p \in Processes, PlanMigration(p) PROVE TypeOK'
  BY <1>5 DEF PlanMigration, VersionsRead, NoVersion, table
<1>6. ASSUME NEW p \in Processes, Migrate(p) PROVE TypeOK'
  BY <1>6 DEF Migrate, Copied, Forgotten, NoPlan
<1>7. ASSUME NEW p \in Processes, MigrationFails(p) PROVE TypeOK'
  BY <1>7 DEF MigrationFails, Forgotten, NoPlan, table
<1>8. ASSUME NEW p \in Processes, RecordVersion(p) PROVE TypeOK'
  BY <1>8 DEF RecordVersion
<1>9. ASSUME NEW p \in Processes, FinishOpen(p) PROVE TypeOK'
  BY <1>9 DEF FinishOpen, table
<1>10. ASSUME NEW p \in Processes, NEW r \in RunNames, Insert(p, r) PROVE TypeOK'
  BY <1>10 DEF Insert
<1>11. ASSUME NEW p \in Processes, Exit(p) PROVE TypeOK'
  BY <1>11 DEF Exit, Forgotten, NoPlan, table
<1>12. ASSUME NEW p \in Processes, StatementFails(p) PROVE TypeOK'
  BY <1>12 DEF StatementFails, Forgotten, NoPlan, table
<1> QED
  BY <1>1, <1>2, <1>3, <1>4, <1>5, <1>6, <1>7, <1>8, <1>9, <1>10, <1>11, <1>12 DEF Next

\* A process that is opening the database keeps every other one out: if one of them
\* moves, the others are not opening.
LEMMA Excluded ==
  ASSUME IInv, NEW p \in Processes, pc[p] \in Opening,
         NEW q \in Processes, pc[q] \in Opening
  PROVE  p = q
  BY DEF IInv, LockHeld

\* The steps that leave the table alone preserve the rest of the invariant.
LEMMA TableAlone ==
  ASSUME IInv, TypeOK', NEW p \in Processes,
         \/ Acquire(p) \/ KeepTable(p) \/ PlanMigration(p) \/ MigrationFails(p)
         \/ FinishOpen(p) \/ StatementFails(p) \/ Exit(p)
  PROVE  IInv'
<1> USE DbAssumption, ProcessAssumption DEF IInv, TypeOK, RowsKept, LockHeld, PlanIsCurrent, TableFits,
        VersionsWithinTable, VersionsRead, Goto, table, Opening
<1>1. CASE Acquire(p)
  BY <1>1 DEF Acquire, LockFree
<1>2. CASE KeepTable(p)
  BY <1>2 DEF KeepTable, UpToDate
<1>3. CASE PlanMigration(p)
  BY <1>3 DEF PlanMigration, UpToDate, NoVersion
<1>4. CASE MigrationFails(p)
  BY <1>4 DEF MigrationFails, Forgotten
<1>5. CASE FinishOpen(p)
  BY <1>5 DEF FinishOpen
<1>6. CASE Exit(p)
  BY <1>6 DEF Exit, Forgotten
<1>7. CASE StatementFails(p)
  BY <1>7 DEF StatementFails, Forgotten
<1> QED BY <1>1, <1>2, <1>3, <1>4, <1>5, <1>6, <1>7

\* The steps that change the table do, since no other process is opening it and the
\* columns only grow.
LEMMA TableChanged ==
  ASSUME IInv, TypeOK', NEW p \in Processes,
         CreateTable(p) \/ Migrate(p) \/ RecordVersion(p)
  PROVE  IInv'
<1>1. pc[p] \in Opening
  BY DEF CreateTable, Migrate, RecordVersion, Opening
<1>2. \A q \in Processes \ {p} : pc[q] \notin Opening /\ pc'[q] = pc[q]
  BY <1>1, Excluded DEF CreateTable, Migrate, RecordVersion, Goto, IInv, TypeOK
<1>3. lock = p /\ lock' = p
  BY <1>1 DEF CreateTable, Migrate, RecordVersion, IInv, LockHeld
<1>4. Sdk[p] \in Nat \ {0}
  BY DbAssumption, ProcessAssumption
<1>5. columns' >= columns /\ exists' /\ columns' >= Sdk[p] /\ recorded' <= columns'
      /\ (\A v \in legacy' : v < columns' \/ v \in misread')
  <2>1. CASE CreateTable(p)
    BY <2>1, <1>4 DEF CreateTable, IInv, TypeOK, VersionsWithinTable
  <2>2. CASE Migrate(p)
    BY <2>2, <1>4 DEF Migrate, CopyFits, IInv, TypeOK, PlanIsCurrent, VersionsRead, VersionsWithinTable
  <2>3. CASE RecordVersion(p)
    BY <2>3, <1>4 DEF RecordVersion, IInv, TypeOK, TableFits, VersionsWithinTable
  <2> QED BY <2>1, <2>2, <2>3
<1>6. RowsKept'
  BY DEF CreateTable, Migrate, RecordVersion, Copied, IInv, RowsKept
<1>7. pc'[p] \in {"record", "finish"}
  BY DEF CreateTable, Migrate, RecordVersion, Goto, IInv, TypeOK
<1>8. LockHeld'
  BY <1>2, <1>3, <1>7 DEF LockHeld, Opening
<1>9. PlanIsCurrent'
  BY <1>2, <1>7 DEF PlanIsCurrent, Opening
<1>10. TableFits'
  <2> SUFFICES ASSUME NEW q \in Processes, pc'[q] \in {"record", "finish", "open"}
               PROVE  exists' /\ columns' >= Sdk[q]
    BY DEF TableFits
  <2>1. CASE q = p
    BY <2>1, <1>5
  <2>2. CASE q # p
    <3>1. columns >= Sdk[q]
      BY <2>2, <1>2 DEF IInv, TableFits
    <3>2. Sdk[q] \in Nat /\ columns \in Nat /\ columns' \in Nat
      BY DbAssumption, ProcessAssumption DEF IInv, TypeOK
    <3> QED BY <3>1, <3>2, <1>5
  <2> QED BY <2>1, <2>2
<1> QED BY <1>5, <1>6, <1>8, <1>9, <1>10 DEF IInv, VersionsWithinTable

\* Every step preserves the invariant.
LEMMA Preserved == IInv /\ [Next]_vars => IInv'
<1> SUFFICES ASSUME IInv, [Next]_vars PROVE IInv'
  OBVIOUS
<1>1. TypeOK'
  BY TypePreserved
<1>2. CASE UNCHANGED vars
  BY <1>2 DEF IInv, TypeOK, RowsKept, LockHeld, PlanIsCurrent, TableFits,
              VersionsWithinTable, VersionsRead, vars, table
<1>3. ASSUME NEW p \in Processes, NEW r \in RunNames, Insert(p, r) PROVE IInv'
  BY <1>1, <1>3 DEF Insert, IInv, RowsKept, LockHeld, PlanIsCurrent, TableFits,
                    VersionsWithinTable, VersionsRead
<1> QED
  BY <1>1, <1>2, <1>3, TableAlone, TableChanged DEF Next

-----------------------------------------------------------------------------
\* The invariant of mgmt_db_session: mutual exclusion, plans that are current, tables
\* that fit, versions within the table.
THEOREM Invariance == Spec => []IInv
  BY Initially, Preserved, PTL DEF Spec

\* Every variable keeps its type.
THEOREM TypeCorrect == Spec => []TypeOK
<1>1. IInv => TypeOK
  BY DEF IInv
<1> QED BY <1>1, Invariance, PTL

\* No run is lost by create_or_update_table, whoever opens the database and dies.
THEOREM NoRunLost == Spec => []RowsKept
<1>1. IInv => RowsKept
  BY DEF IInv
<1> QED BY <1>1, Invariance, PTL

\* An open session finds the columns of its own schema.
THEOREM SessionsWork == Spec => []SessionsFit
<1>1. IInv => SessionsFit
  BY DEF IInv, TableFits, SessionsFit
<1> QED BY <1>1, Invariance, PTL

\* schema_info promises no columns that the table does not have.
THEOREM VersionIsHonest == Spec => []RecordedWithinTable
<1>1. IInv => RecordedWithinTable
  BY DEF IInv, VersionsWithinTable, RecordedWithinTable
<1> QED BY <1>1, Invariance, PTL

\* No migration loses a column.
THEOREM NoColumnLost == Spec => ColumnsKept
<1>1. IInv /\ [Next]_vars => [exists => columns' >= columns]_vars
  <2> SUFFICES ASSUME IInv, Next, exists PROVE columns' >= columns
    BY DEF vars, table
  <2>0. columns \in Nat
    BY DEF IInv, TypeOK
  <2>1. ASSUME NEW p \in Processes, CreateTable(p) PROVE columns' >= columns
    BY <2>1 DEF CreateTable
  <2>2. ASSUME NEW p \in Processes, Migrate(p) PROVE columns' >= columns
    BY <2>2, DbAssumption, ProcessAssumption DEF Migrate, CopyFits, IInv, TypeOK, PlanIsCurrent
  <2>3. ASSUME columns' = columns PROVE columns' >= columns
    BY <2>0, <2>3
  <2> QED
    BY <2>1, <2>2, <2>3
    DEF Next, Acquire, KeepTable, PlanMigration, MigrationFails, RecordVersion,
        FinishOpen, StatementFails, Insert, Exit, table
<1> QED BY <1>1, Invariance, PTL DEF Spec, ColumnsKept

\* A migration runs into what it finds only if an opening was interrupted before it
\* recorded the version, or a failing SELECT has made the version seem missing.
THEOREM FailureHasCause == Spec => BlockedWithCause
<1> DEFINE Caused == \A p \in Processes : pc[p] # "blocked" /\ pc'[p] = "blocked" =>
                       recorded < columns \/ recorded \in misread
<1>1. IInv /\ [Next]_vars => [Caused]_vars
  <2> SUFFICES ASSUME IInv, Next, NEW p \in Processes, pc[p] # "blocked", pc'[p] = "blocked",
                      recorded \notin misread
               PROVE  recorded < columns
    OBVIOUS
  <2>1. MigrationFails(p)
    BY DEF IInv, TypeOK, Next, Goto, Acquire, CreateTable, KeepTable, PlanMigration,
           Migrate, MigrationFails, RecordVersion, FinishOpen, StatementFails, Insert, Exit
  <2>2. /\ plan[p].columns = columns /\ recorded < Sdk[p]
        /\ plan[p].version # NoVersion => plan[p].version = recorded
    BY <2>1 DEF MigrationFails, IInv, PlanIsCurrent, VersionsRead
  <2>3. Sdk[p] \in Nat /\ columns \in Nat /\ recorded \in Nat
    BY DbAssumption, ProcessAssumption DEF IInv, TypeOK
  <2>4. CASE NameTaken(p)
    BY <2>2, <2>4 DEF NameTaken, IInv, VersionsWithinTable
  <2>5. CASE ~ CopyFits(p)
    BY <2>2, <2>3, <2>5 DEF CopyFits
  <2> QED BY <2>1, <2>4, <2>5 DEF MigrationFails
<1> QED BY <1>1, Invariance, PTL DEF Spec, BlockedWithCause

\* The lock of the database is held by a process that is opening it.
LockInUse == lock # None => pc[lock] \in Opening

\* Every way out of mgmt_db_session frees the lock, failing statements, failing migrations
\* and processes that die included: who waits for it waits for a process that is opening the database.
THEOREM DatabaseLockIsFreed == Spec => []LockInUse
<1>1. Init => LockInUse
  BY DEF Init, LockInUse
<1>2. IInv /\ LockInUse /\ [Next]_vars => LockInUse'
  <2> SUFFICES ASSUME IInv, LockInUse, [Next]_vars PROVE LockInUse'
    OBVIOUS
  <2>0. pc \in [Processes -> PCs] /\ (lock # None => lock \in Processes)
    BY DEF IInv, TypeOK
  <2>1. ASSUME NEW p \in Processes, Acquire(p) PROVE LockInUse'
    BY <2>0, <2>1 DEF Acquire, Goto, LockInUse, Opening
  <2>2. ASSUME NEW p \in Processes,
               CreateTable(p) \/ KeepTable(p) \/ PlanMigration(p) \/ Migrate(p) \/ RecordVersion(p)
        PROVE  LockInUse'
    <3>1. /\ lock' = lock
          /\ \E place \in Opening : Goto(p, place)
      BY <2>2 DEF CreateTable, KeepTable, PlanMigration, Migrate, RecordVersion, Opening
    <3>2. \A q \in Processes : pc[q] \in Opening => pc'[q] \in Opening
      BY <2>0, <3>1 DEF Goto
    <3> QED BY <2>0, <3>1, <3>2 DEF LockInUse
  <2>3. ASSUME NEW p \in Processes, MigrationFails(p) \/ StatementFails(p) \/ FinishOpen(p)
        PROVE  LockInUse'
    BY <2>3 DEF MigrationFails, StatementFails, FinishOpen, LockInUse
  <2>4. ASSUME NEW p \in Processes, Exit(p) PROVE LockInUse'
    BY <2>0, <2>4 DEF Exit, Goto, LockInUse
  <2>5. ASSUME UNCHANGED <<pc, lock>> PROVE LockInUse'
    BY <2>5 DEF LockInUse
  <2>6. ASSUME NEW p \in Processes, NEW r \in RunNames, Insert(p, r) PROVE LockInUse'
    BY <2>5, <2>6 DEF Insert
  <2>7. CASE UNCHANGED vars
    BY <2>5, <2>7 DEF vars
  <2> QED BY <2>1, <2>2, <2>3, <2>4, <2>6, <2>7 DEF Next
<1> QED BY <1>1, <1>2, Invariance, PTL DEF Spec

-----------------------------------------------------------------------------
(* The key in the keyring: the inductive invariant *)

\* The lock covers the second look, the generating and the saving of a key.
KeyLockHeld == \A p \in Processes : keyPc[p] \in {"reread", "generate", "save"} => keyLock = p

\* A key is generated and saved only while the keyring has none.
NoKeyYet == \A p \in Processes : keyPc[p] \in {"generate", "save"} => keyring = None

\* Where the keys in the caches come from.
CachedKeys ==
  \A p \in Processes :
    /\ keyPc[p] # "idle" => calls[p] \in 1 .. MaxCalls
    /\ keyPc[p] = "save" => cached[p] # None
    /\ keyPc[p] = "return" /\ generate[p] => cached[p] # None
    /\ keyPc[p] = "acquire" => generate[p]
    /\ keyPc[p] \in {"reread", "generate", "save"} => generate[p]
    /\ cached[p] # None /\ keyPc[p] # "save" => cached[p] = keyring \/ cached[p] \in unsaved

KeyInv ==
  /\ KeyTypeOK
  /\ KeyLockHeld
  /\ NoKeyYet
  /\ CachedKeys
  /\ None \notin secrets
  /\ SecretsReadable

-----------------------------------------------------------------------------
\* The invariant holds initially.
LEMMA KeyBegins == KeyInit => KeyInv
  BY KeyAssumption, ProcessAssumption
  DEF KeyInit, KeyInv, KeyTypeOK, KeyLockHeld, NoKeyYet, CachedKeys, SecretsReadable, Keys, KeyPlaces

\* The steps that change neither the keyring nor the secrets.
LEMMA KeyringAlone ==
  ASSUME KeyInv, NEW p \in Processes,
         \/ \E g \in BOOLEAN : Call(p, g)
         \/ ReadKeyring(p) \/ AcquireKeyLock(p) \/ RereadKeyring(p) \/ GenerateKey(p)
         \/ CallRaises(p) \/ RereadRaises(p) \/ SaveRaises(p) \/ EndProcess(p)
  PROVE  KeyInv'
<1> USE KeyAssumption, ProcessAssumption DEF KeyInv, KeyTypeOK, KeyLockHeld, NoKeyYet, CachedKeys, SecretsReadable,
        Keys, KeyPlaces, KeyGoto
<1>1. ASSUME NEW g \in BOOLEAN, Call(p, g) PROVE KeyInv'
  <2>1. calls[p] + 1 \in 1 .. MaxCalls
    BY <1>1 DEF Call
  <2> QED BY <1>1, <2>1 DEF Call
<1>2. CASE ReadKeyring(p)
  BY <1>2 DEF ReadKeyring
<1>3. CASE AcquireKeyLock(p)
  BY <1>3 DEF AcquireKeyLock, KeyLockFree
<1>4. CASE RereadKeyring(p)
  BY <1>4 DEF RereadKeyring, SecondLook
<1>5. CASE GenerateKey(p)
  BY <1>5 DEF GenerateKey, NewKey
<1>6. CASE SaveRaises(p)
  BY <1>6 DEF SaveRaises, Released
<1>7. CASE EndProcess(p)
  BY <1>7 DEF EndProcess
<1>8. CASE CallRaises(p) \/ RereadRaises(p)
  BY <1>8 DEF CallRaises, RereadRaises
<1> QED BY <1>1, <1>2, <1>3, <1>4, <1>5, <1>6, <1>7, <1>8

\* Saving a key: no other process is between its second look and its saving.
LEMMA Saved == ASSUME KeyInv, NEW p \in Processes, SaveKey(p) PROVE KeyInv'
<1> USE KeyAssumption, ProcessAssumption DEF KeyInv, SaveKey, KeyGoto, Released
<1>1. keyring = None /\ cached[p] # None /\ keyLock = p
  BY DEF KeyLockHeld, NoKeyYet, CachedKeys
<1>2. \A q \in Processes \ {p} : keyPc[q] \notin {"reread", "generate", "save"} /\ keyPc'[q] = keyPc[q]
  BY <1>1 DEF KeyLockHeld, KeyTypeOK
<1>3. KeyTypeOK'
  BY DEF KeyTypeOK, Keys, KeyPlaces
<1>4. KeyLockHeld' /\ NoKeyYet'
  BY <1>2 DEF KeyLockHeld, NoKeyYet, KeyTypeOK
<1>5. CachedKeys'
  BY <1>1, <1>2 DEF CachedKeys, KeyTypeOK
<1>6. SecretsReadable'
  BY <1>1 DEF SecretsReadable
<1> QED BY <1>3, <1>4, <1>5, <1>6

\* Returning a key, which may encrypt a secret.
LEMMA Returned == ASSUME KeyInv, NEW p \in Processes, Return(p) PROVE KeyInv'
<1> USE KeyAssumption, ProcessAssumption DEF KeyInv, Return, KeyGoto
<1>1. KeyTypeOK' /\ KeyLockHeld' /\ NoKeyYet' /\ CachedKeys'
  BY DEF KeyTypeOK, KeyLockHeld, NoKeyYet, CachedKeys, Keys, KeyPlaces
<1>2. CASE generate[p]
  <2>1. cached[p] # None /\ (cached[p] = keyring \/ cached[p] \in unsaved)
    BY <1>2 DEF CachedKeys
  <2> QED BY <1>1, <2>1 DEF SecretsReadable
<1>3. CASE ~ generate[p]
  BY <1>1, <1>3 DEF SecretsReadable
<1> QED BY <1>2, <1>3

\* Every step preserves the invariant.
LEMMA KeyPreserved == KeyInv /\ [KeyNext]_keyVars => KeyInv'
<1> SUFFICES ASSUME KeyInv, [KeyNext]_keyVars PROVE KeyInv'
  OBVIOUS
<1>1. CASE UNCHANGED keyVars
  BY <1>1 DEF KeyInv, KeyTypeOK, KeyLockHeld, NoKeyYet, CachedKeys, SecretsReadable, keyVars
<1>2. CASE KeyNext
  BY <1>2, KeyringAlone, Saved, Returned DEF KeyNext, KeyStep
<1> QED BY <1>1, <1>2

-----------------------------------------------------------------------------
\* The invariant of get_encryption_key.
THEOREM KeyInvariance == KeySpec => []KeyInv
  BY KeyBegins, KeyPreserved, PTL DEF KeySpec

\* Every variable keeps its type.
THEOREM KeyTypes == KeySpec => []KeyTypeOK
<1>1. KeyInv => KeyTypeOK
  BY DEF KeyInv
<1> QED BY <1>1, KeyInvariance, PTL

\* What encrypt_secret_value stores can be read by every process, unless its key
\* could not be saved.
THEOREM SecretsStayReadable == KeySpec => []SecretsReadable
<1>1. KeyInv => SecretsReadable
  BY DEF KeyInv
<1> QED BY <1>1, KeyInvariance, PTL

\* The key in the keyring is never replaced.
THEOREM OneKey == KeySpec => KeyIsKept
<1>1. KeyInv /\ [KeyNext]_keyVars => [keyring # None => keyring' = keyring]_keyVars
  <2> SUFFICES ASSUME KeyInv, KeyNext, keyring # None PROVE keyring' = keyring
    OBVIOUS
  <2>1. \A p \in Processes : ~ SaveKey(p)
    BY DEF SaveKey, KeyInv, NoKeyYet
  <2> QED
    BY <2>1 DEF KeyNext, KeyStep, Call, ReadKeyring, AcquireKeyLock, RereadKeyring, GenerateKey,
                CallRaises, RereadRaises, SaveRaises, Return, EndProcess
<1> QED BY <1>1, KeyInvariance, PTL DEF KeySpec, KeyIsKept

-----------------------------------------------------------------------------
(* Who has the lock of the keyring *)

\* The lock is held by a process that is about to look, generate or save, or was left by
\* one whose second look ended its call; and such a process has it for as long as it lives,
\* whatever calls it makes after that.
LockHasReason ==
  /\ keyLock # None => keyPc[keyLock] \in {"reread", "generate", "save"} \/ LockLeft
  /\ stranded \subseteq {keyLock}

\* A step of a process that leaves the lock alone, and is not at work under it, or of one
\* that stays at work.
LEMMA LockUntouched ==
  ASSUME KeyInv, LockHasReason, UNCHANGED <<keyLock, stranded>>,
         NEW p \in Processes, \A q \in Processes \ {p} : keyPc'[q] = keyPc[q],
         \/ keyPc[p] \notin {"reread", "generate", "save"}
         \/ keyPc'[p] \in {"reread", "generate", "save"}
  PROVE  LockHasReason'
<1>1. stranded' \subseteq {keyLock'}
  BY DEF LockHasReason
<1>2. ASSUME keyLock # None PROVE keyPc'[keyLock'] \in {"reread", "generate", "save"} \/ LockLeft'
  <2>1. PICK q \in Processes : q = keyLock
    BY <1>2 DEF KeyInv, KeyTypeOK
  <2>2. CASE keyLock \in stranded
    BY <2>2 DEF LockLeft
  <2>3. CASE keyLock \notin stranded
    <3>1. keyPc[q] \in {"reread", "generate", "save"}
      BY <1>2, <2>1, <2>3 DEF LockHasReason, LockLeft
    <3>2. keyPc'[q] \in {"reread", "generate", "save"}
      BY <3>1
    <3> QED BY <2>1, <3>2
  <2> QED BY <2>2, <2>3
<1> QED BY <1>1, <1>2 DEF LockHasReason

\* Whoever waits for the lock waits for a process on its way to free it, but for the two
\* exits from the second look on which the code keeps it.
THEOREM LockIsNotLost == KeySpec => []LockHasReason
<1>1. KeyInit => LockHasReason
  BY DEF KeyInit, LockHasReason
<1>2. KeyInv /\ LockHasReason /\ [KeyNext]_keyVars => LockHasReason'
  <2> SUFFICES ASSUME KeyInv, LockHasReason, [KeyNext]_keyVars PROVE LockHasReason'
    OBVIOUS
  <2>0. keyPc \in [Processes -> KeyPlaces]
    BY DEF KeyInv, KeyTypeOK
  <2>1. ASSUME NEW p \in Processes,
               \/ \E g \in BOOLEAN : Call(p, g)
               \/ ReadKeyring(p) \/ CallRaises(p) \/ Return(p)
        PROVE  LockHasReason'
    <3>1. /\ UNCHANGED <<keyLock, stranded>>
          /\ keyPc[p] \notin {"reread", "generate", "save"}
          /\ \A q \in Processes \ {p} : keyPc'[q] = keyPc[q]
      BY <2>0, <2>1 DEF Call, ReadKeyring, CallRaises, Return, KeyGoto
    <3> QED BY <3>1, LockUntouched
  <2>2. ASSUME NEW p \in Processes, GenerateKey(p) PROVE LockHasReason'
    <3>1. /\ UNCHANGED <<keyLock, stranded>>
          /\ keyPc'[p] = "save"
          /\ \A q \in Processes \ {p} : keyPc'[q] = keyPc[q]
      BY <2>0, <2>2 DEF GenerateKey, KeyGoto
    <3> QED BY <3>1, LockUntouched
  <2>3. ASSUME NEW p \in Processes, AcquireKeyLock(p) PROVE LockHasReason'
    <3>1. keyLock' = p /\ keyPc'[p] = "reread" /\ stranded' = stranded
      BY <2>0, <2>3 DEF AcquireKeyLock, KeyGoto
    <3>2. stranded \subseteq {p}
      BY <2>3, ProcessAssumption DEF AcquireKeyLock, KeyLockFree, LockHasReason, KeyInv, KeyTypeOK
    <3> QED BY <3>1, <3>2 DEF LockHasReason
  <2>4. ASSUME NEW p \in Processes, RereadKeyring(p) PROVE LockHasReason'
    <3>1. keyPc[p] = "reread" /\ keyLock = p /\ keyLock' = p
      BY <2>4 DEF RereadKeyring, KeyInv, KeyLockHeld
    <3>2. CASE SecondLook = None
      <4>1. keyPc'[p] = "generate" /\ stranded' = stranded
        BY <2>0, <2>4, <3>2 DEF RereadKeyring, KeyGoto
      <4> QED BY <3>1, <4>1 DEF LockHasReason
    <3>3. CASE SecondLook # None
      <4>1. stranded' = stranded \cup {p}
        BY <2>4, <3>3 DEF RereadKeyring
      <4> QED BY <3>1, <4>1 DEF LockHasReason, LockLeft
    <3> QED BY <3>2, <3>3
  <2>5. ASSUME NEW p \in Processes, RereadRaises(p) PROVE LockHasReason'
    <3>1. keyLock = p /\ keyLock' = p /\ stranded' = stranded \cup {p}
      BY <2>5 DEF RereadRaises, KeyInv, KeyLockHeld
    <3> QED BY <3>1 DEF LockHasReason, LockLeft
  <2>6. ASSUME NEW p \in Processes, SaveKey(p) \/ SaveRaises(p) PROVE LockHasReason'
    <3>1. keyLock = p /\ stranded' = stranded
      BY <2>6 DEF SaveKey, SaveRaises, KeyInv, KeyLockHeld
    <3>2. keyLock' = IF p \in stranded THEN p ELSE None
      BY <2>6, <3>1 DEF SaveKey, SaveRaises, Released
    <3> QED BY <3>1, <3>2 DEF LockHasReason, LockLeft
  <2>7. ASSUME NEW p \in Processes, EndProcess(p) PROVE LockHasReason'
    <3>1. stranded' = stranded \ {p} /\ \A q \in Processes \ {p} : keyPc'[q] = keyPc[q]
      BY <2>0, <2>7 DEF EndProcess, KeyGoto
    <3>2. CASE keyLock = p
      <4>1. keyLock' = None
        BY <2>7, <3>2 DEF EndProcess
      <4> QED BY <3>1, <3>2, <4>1 DEF LockHasReason
    <3>3. CASE keyLock # p
      <4>1. keyLock' = keyLock
        BY <2>7, <3>3 DEF EndProcess
      <4>2. keyLock # None => keyPc'[keyLock] = keyPc[keyLock]
        BY <3>1, <3>3 DEF KeyInv, KeyTypeOK
      <4> QED BY <3>1, <3>3, <4>1, <4>2 DEF LockHasReason, LockLeft
    <3> QED BY <3>2, <3>3
  <2>8. CASE UNCHANGED keyVars
    BY <2>8 DEF keyVars, LockHasReason, LockLeft
  <2> QED
    BY <2>1, <2>2, <2>3, <2>4, <2>5, <2>6, <2>7, <2>8 DEF KeyNext, KeyStep
<1> QED BY <1>1, <1>2, KeyInvariance, PTL DEF KeySpec

-----------------------------------------------------------------------------
(* The row of a run *)

\* The tries that were made and those that are left.
TriesCounted ==
  \A e \in Editors :
    /\ editPc[e] # "idle" => left[e] + attempts[e] = Tries + 1
    /\ editPc[e] = "raised" => left[e] = 1

\* A method that was not called before finds nothing to do only if the row was so when
\* it was read.
FreshObject ==
  \A e \in Editors :
    editPc[e] = "called" /\ attempts[e] = 1 /\ NothingToDo(e) => applied[e]

EditInv ==
  /\ EditTypeOK
  /\ TriesCounted
  /\ FreshObject
  /\ EditTakesEffectUnlessRetried

-----------------------------------------------------------------------------
\* The invariant holds initially.
LEMMA EditsBegin == EditInit => EditInv
  BY EditAssumption
  DEF EditInv, TriesCounted, FreshObject, EditInit, EditTypeOK,
      EditTakesEffectUnlessRetried, Rows, Ops, EditPlaces

\* An edit keeps rows rows and is what its editor wants.
LEMMA EditIsWanted ==
  ASSUME EditTypeOK, NEW e \in Editors, NEW r \in Rows
  PROVE  Edited(e, r) \in Rows /\ Wanted(e, op[e], Edited(e, r))
  BY DEF EditTypeOK, Edited, Wanted, Rows, Ops

\* Reading the run starts a call.
LEMMA GetRunStep ==
  ASSUME EditInv, NEW e \in Editors, NEW o \in Ops, GetRun(e, o)
  PROVE  EditInv'
<1> USE EditAssumption DEF EditInv, GetRun, EditGoto, EditTypeOK
<1>1. EditTypeOK'
  <2>1. applied' \in [Editors -> BOOLEAN]
    BY DEF Wanted
  <2> QED BY <2>1 DEF EditPlaces
<1>2. TriesCounted'
  BY DEF TriesCounted
<1>3. FreshObject'
  BY DEF FreshObject, NothingToDo
<1>4. EditTakesEffectUnlessRetried'
  BY DEF EditTakesEffectUnlessRetried
<1> QED BY <1>1, <1>2, <1>3, <1>4

\* The steps of a call before its commit.
LEMMA CallStep ==
  ASSUME EditInv, NEW e \in Editors, Skip(e) \/ EditObject(e)
  PROVE  EditInv'
<1> USE DEF EditInv, TriesCounted, FreshObject, EditTypeOK, EditGoto, EditPlaces,
        EditTakesEffectUnlessRetried
<1>1. CASE Skip(e)
  <2>1. attempts[e] = 1 \/ op[e] = "update" => applied[e]
    BY <1>1 DEF Skip, NothingToDo
  <2> QED BY <1>1, <2>1 DEF Skip, NothingToDo
<1>2. CASE EditObject(e)
  <2>1. object' \in [Editors -> Rows]
    BY <1>2, EditIsWanted DEF EditObject
  <2> QED BY <1>2, <2>1 DEF EditObject, NothingToDo
<1> QED BY <1>1, <1>2

\* A commit has its effect, and takes none of another call's away.
LEMMA CommitStep == ASSUME EditInv, NEW e \in Editors, Commit(e) PROVE EditInv'
<1> USE DEF EditInv, EditTypeOK, Commit, EditGoto
<1>1. row' \in Rows /\ Wanted(e, op[e], row')
  BY EditIsWanted DEF Written
<1>2. applied' \in [Editors -> BOOLEAN]
  BY DEF Wanted
<1>3. applied'[e] /\ \A x \in Editors : applied[x] => applied'[x]
  BY <1>1
<1>4. EditTypeOK'
  BY <1>1, <1>2 DEF EditPlaces
<1>5. TriesCounted'
  BY DEF TriesCounted
<1>6. FreshObject'
  BY <1>3 DEF FreshObject, NothingToDo
<1>7. EditTakesEffectUnlessRetried'
  BY <1>3 DEF EditTakesEffectUnlessRetried
<1> QED BY <1>4, <1>5, <1>6, <1>7

\* A failed commit counts as a try.
LEMMA FailedStep ==
  ASSUME EditInv, NEW e \in Editors, Retry(e) \/ LastTryFails(e)
  PROVE  EditInv'
<1> USE EditAssumption DEF EditInv, TriesCounted, FreshObject, EditTypeOK, EditGoto,
        EditPlaces, EditTakesEffectUnlessRetried
<1>1. left[e] + attempts[e] = Tries + 1
      /\ left[e] \in 1 .. Tries /\ attempts[e] \in 0 .. Tries
  BY DEF Retry, LastTryFails
<1>2. CASE Retry(e)
  <2>1. left[e] - 1 \in 1 .. Tries /\ attempts[e] + 1 \in 2 .. Tries
        /\ (left[e] - 1) + (attempts[e] + 1) = Tries + 1
    BY <1>1, <1>2 DEF Retry, MayRetry
  <2> QED BY <1>2, <2>1 DEF Retry, NothingToDo
<1>3. CASE LastTryFails(e)
  <2>1. left[e] = 1
    BY <1>1, <1>3 DEF LastTryFails, MayRetry
  <2> QED BY <1>3, <2>1 DEF LastTryFails, GivesUp, NothingToDo
<1> QED BY <1>2, <1>3

\* Every step preserves the invariant.
LEMMA EditsPreserve == EditInv /\ [EditNext]_editVars => EditInv'
<1> SUFFICES ASSUME EditInv, [EditNext]_editVars PROVE EditInv'
  OBVIOUS
<1>1. CASE UNCHANGED editVars
  BY <1>1 DEF EditInv, TriesCounted, FreshObject, EditTypeOK,
              EditTakesEffectUnlessRetried, NothingToDo, editVars
<1>2. CASE EditNext
  BY <1>2, GetRunStep, CallStep, CommitStep, FailedStep DEF EditNext
<1> QED BY <1>1, <1>2

-----------------------------------------------------------------------------
\* The invariant of the decorated methods.
THEOREM EditInvariance == EditSpec => []EditInv
  BY EditsBegin, EditsPreserve, PTL DEF EditSpec

\* Every variable keeps its type.
THEOREM EditTypes == EditSpec => []EditTypeOK
<1>1. EditInv => EditTypeOK
  BY DEF EditInv
<1> QED BY <1>1, EditInvariance, PTL

\* An update that returns took effect, retried or not, and so did an archive or
\* restore that was not retried.
THEOREM EffectOfEdits ==
  EditSpec => []EditTakesEffectUnlessRetried
<1>1. EditInv => EditTakesEffectUnlessRetried
  BY DEF EditInv
<1> QED BY <1>1, EditInvariance, PTL

\* sqlite_retry raises after exactly the given number of tries.
THEOREM NumberOfTries == EditSpec => []RaisesAfterAllTries
<1>1. EditInv => RaisesAfterAllTries
  <2> SUFFICES ASSUME EditInv, NEW e \in Editors, editPc[e] = "raised"
               PROVE  attempts[e] = Tries
    BY DEF RaisesAfterAllTries
  <2>1. 1 + attempts[e] = Tries + 1 /\ attempts[e] \in Nat /\ Tries \in Nat
    BY EditAssumption DEF EditInv, EditTypeOK, TriesCounted
  <2> QED BY <2>1
<1> QED BY <1>1, EditInvariance, PTL

\* An edit undoes no edit of another column.
THEOREM ColumnsApart == EditSpec => EditsKeepOtherColumns
<1> DEFINE Kept == \A e \in Editors : editPc[e] = "commit" /\ editPc'[e] = "returned" =>
                     IF op[e] = "update" THEN row'.archived = row.archived
                     ELSE row'.name = row.name
<1>1. EditInv /\ [EditNext]_editVars => [Kept]_editVars
  <2> SUFFICES ASSUME EditInv, EditNext, NEW e \in Editors,
                      editPc[e] = "commit", editPc'[e] = "returned"
               PROVE  IF op[e] = "update" THEN row'.archived = row.archived
                      ELSE row'.name = row.name
    OBVIOUS
  <2>1. Commit(e)
    BY DEF EditInv, EditTypeOK, EditNext, EditGoto, GetRun, Skip,
           EditObject, Commit, Retry, LastTryFails, GivesUp
  <2> QED
    BY <2>1 DEF EditInv, EditTypeOK, Rows, Commit, Written, Edited
<1> QED BY <1>1, EditInvariance, PTL DEF EditSpec, EditsKeepOtherColumns

\* What a call has still to do at most.
Effort(e) ==
  CASE editPc[e] = "called" -> 2 * left[e] + 1
    [] editPc[e] = "commit" -> 2 * left[e]
    [] OTHER -> 0

\* A step of a call leaves it less to do.
EffortFalls ==
  \A e \in Editors :
    /\ Effort(e) \in Nat /\ Effort(e)' \in Nat
    /\ Skip(e) \/ EditObject(e) \/ Commit(e) \/ Retry(e) \/ LastTryFails(e) =>
         Effort(e)' < Effort(e)
CallsEnd == [][EffortFalls]_editVars

\* However others keep the database locked, a call that has read the run ends: each of
\* its steps, a retry on the used object included, leaves less to do.
THEOREM EditCallsEnd == EditSpec => CallsEnd
<1>1. ASSUME EditTypeOK, NEW e \in Editors PROVE Effort(e) \in Nat
  BY <1>1, EditAssumption DEF EditTypeOK, Effort
<1>2. ASSUME EditTypeOK', NEW e \in Editors PROVE Effort(e)' \in Nat
  BY <1>2, EditAssumption DEF EditTypeOK, Effort
<1>3. ASSUME EditTypeOK, NEW e \in Editors,
             Skip(e) \/ EditObject(e) \/ Commit(e) \/ Retry(e) \/ LastTryFails(e)
      PROVE  Effort(e)' < Effort(e)
  <2>1. left[e] \in Nat \ {0} /\ editPc \in [Editors -> EditPlaces]
        /\ left \in [Editors -> 1 .. Tries]
    BY <1>3, EditAssumption DEF EditTypeOK
  <2>2. CASE Skip(e) \/ EditObject(e)
    <3>1. /\ editPc[e] = "called" /\ editPc'[e] \in {"returned", "commit"}
          /\ left'[e] = left[e]
      BY <2>1, <2>2 DEF Skip, EditObject, EditGoto
    <3> QED BY <2>1, <3>1 DEF Effort
  <2>3. CASE Commit(e) \/ LastTryFails(e)
    <3>1. editPc[e] = "commit" /\ editPc'[e] \in {"returned", "raised"}
      BY <2>1, <2>3 DEF Commit, LastTryFails, EditGoto, GivesUp
    <3> QED BY <2>1, <3>1 DEF Effort
  <2>4. CASE Retry(e)
    <3>1. editPc[e] = "commit" /\ editPc'[e] = "called" /\ left'[e] = left[e] - 1
      BY <2>1, <2>4 DEF Retry, EditGoto
    <3> QED BY <2>1, <3>1 DEF Effort
  <2> QED BY <1>3, <2>2, <2>3, <2>4
<1>4. EditTypeOK /\ EditTypeOK' /\ [EditNext]_editVars => [EffortFalls]_editVars
  BY <1>1, <1>2, <1>3 DEF EffortFalls
<1> QED BY <1>4, EditTypes, PTL DEF EditSpec, CallsEnd
=============================================================================
