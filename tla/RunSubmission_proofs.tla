------------------------ MODULE RunSubmission_proofs ------------------------
(***************************************************************************)
(* Proofs about RunSubmission, for any number of submitters, viewers, run  *)
(* names and child processes, with crashes and failing dumps or without.   *)
(* The inductive invariant IInv says who owns the row a submitter works on *)
(* and which of its files it has written by the time it is where it is.    *)
(***************************************************************************)
EXTENDS RunSubmission, TLAPS

\* A submitter that has inserted its row, and has not finished.
Working == {"bulk", "get", "update"} \cup Files
OwnsRow ==
  \A s \in Submitters : pc[s] \in Working =>
    row[Name(s)].status = "NotStarted" /\ row[Name(s)].owner = s

\* A submitter past the choice of its run.
Named == \A s \in Submitters : pc[s] # "start" => Name(s) \in Names
Unnamed == \A s \in Submitters : pc[s] = "start" => Name(s) = None

\* A run that was never created has nobody's name on it.
NoOwnerWithoutRow == \A n \in Names : ~ Exists(n) => row[n].owner = None

\* The files written by the time a submitter is about to write the next.
Behind(f) ==
  CASE f = "snapshot" -> {"inputs", "outputs", "metrics", "exception", "get", "update"}
    [] f = "inputs" -> {"outputs", "metrics", "exception", "get", "update"}
    [] f = "outputs" -> {"metrics", "exception", "get", "update"}
    [] f = "metrics" -> {"exception", "get", "update"}
    [] OTHER -> {}

WrittenSoFar ==
  \A s \in Submitters : \A f \in {"snapshot", "inputs", "outputs", "metrics"} :
    pc[s] \in Behind(f) /\ Succeeded(s) => folder[Name(s)][f] = s

\* What a line logged is in the log while its submitter works, with the exceptions of
\* LineLogsKept.
Kept(s) ==
  \/ <<s, "line">> \in log[Name(s)]
  \/ children[s] > 1
  \/ \E other \in Submitters \ {s} : Name(other) = Name(s)

LogsSoFar ==
  \A s \in Submitters :
    /\ ran[s] => children[s] > 0 /\ Kept(s)
    /\ pc[s] \notin {"start", "chain", "enter", "prepare", "dump", "raised", "crashed"}
       /\ result[s] = "ok" => ran[s]

\* Nothing has happened to a submitter whose batch has not begun.
NotBegun ==
  \A s \in Submitters : pc[s] \in {"start", "chain", "enter", "prepare", "dump"} =>
    result[s] = "none" /\ children[s] = 0 /\ ~ ran[s]

Types == TypeOK /\ Named /\ Unnamed
Rows == OwnsRow /\ NoOwnerWithoutRow /\ WrittenSoFar /\ CompletedIsWhole /\ FilesOfOwner
Logs == LogsSoFar /\ NotBegun

-----------------------------------------------------------------------------
(* Types *)

\* A row stays a row when its status changes.
LEMMA RowWithStatus ==
  ASSUME NEW r \in RowType, NEW status \in {"none", "NotStarted", "Completed", "Failed"}
  PROVE  [r EXCEPT !.status = status] \in RowType
BY DEF RowType

\* A row stays a row when it is archived or restored.
LEMMA RowWithArchived ==
  ASSUME NEW r \in RowType, NEW archived \in BOOLEAN
  PROVE  [r EXCEPT !.archived = archived] \in RowType
BY DEF RowType

\* In every behaviour of the submitters and the viewers the variables keep their types,
\* and a submitter past its start has a run of one of the names.
THEOREM TypeCorrect == Spec => []Types
<1> USE SubmissionAssumption DEF Types, TypeOK, Named, Unnamed, Name
<1>1. Init => Types
  BY DEF Init, RowType, NoRow, PCs, Results
<1>2. Types /\ [Next]_vars => Types'
  <2> SUFFICES ASSUME Types, [Next]_vars
PROVE  Types'
    OBVIOUS
  <2>1. ASSUME NEW s \in Submitters, NEW n \in Names, NEW ref \in Names \cup {None},
               Submit(s, n, ref) PROVE Types'
    BY <2>1 DEF Submit, Goto, PCs
  <2>2. ASSUME NEW s \in Submitters, Chain(s) PROVE Types'
    BY <2>2 DEF Chain, Goto, PCs
  <2>3. ASSUME NEW s \in Submitters, EnterLogger(s) PROVE Types'
    BY <2>3 DEF EnterLogger, Goto, PCs, Emptied, Entries
  <2>4. ASSUME NEW s \in Submitters, Prepare(s) PROVE Types'
    BY <2>4 DEF Prepare, Goto, PCs, Entries
  <2>5. ASSUME NEW s \in Submitters, DumpRun(s) PROVE Types'
    <3>1. [status |-> "NotStarted", owner |-> s, archived |-> FALSE] \in RowType
      BY DEF RowType
    <3>2. row' \in [Names -> RowType]
      BY <2>5, <3>1 DEF DumpRun
    <3> QED BY <2>5, <3>2 DEF DumpRun, Goto, PCs
  <2>6. ASSUME NEW s \in Submitters, Dump(s) PROVE Types'
    BY <2>6 DEF Dump, Goto, PCs, Files, AfterDump
  <2>7. ASSUME NEW s \in Submitters, DumpRaises(s) PROVE Types'
    BY <2>7 DEF DumpRaises, Goto, PCs, Files
  <2>8. ASSUME NEW s \in Submitters, GetRow(s) PROVE Types'
    BY <2>8 DEF GetRow, Goto, PCs
  <2>9. ASSUME NEW s \in Submitters, UpdateRow(s) PROVE Types'
    <3>1. Updated(s) \in RowType
      <4>1. row[Name(s)] \in RowType
        BY <2>9 DEF UpdateRow
      <4>2. FinalStatus(s) \in {"none", "NotStarted", "Completed", "Failed"}
        BY DEF FinalStatus
      <4> QED BY <4>1, <4>2, RowWithStatus DEF Updated
    <3>2. row' \in [Names -> RowType]
      BY <2>9, <3>1 DEF UpdateRow
    <3> QED BY <2>9, <3>2 DEF UpdateRow, Goto, PCs
  <2>10. ASSUME NEW s \in Submitters, ChildStarts(s) PROVE Types'
    BY <2>10 DEF ChildStarts, Emptied, Entries
  <2>11. ASSUME NEW s \in Submitters, ChildRunsLine(s) PROVE Types'
    BY <2>11 DEF ChildRunsLine, Entries
  <2>12. ASSUME NEW s \in Submitters, Crash(s) PROVE Types'
    BY <2>12 DEF Crash, Goto, PCs
  <2>13. ASSUME NEW s \in Submitters, NEW r \in Results \ {"none"}, BulkEnds(s, r) PROVE Types'
    BY <2>13 DEF BulkEnds, Goto, PCs
  <2>14. ASSUME NEW n \in Names, NEW archived \in BOOLEAN, SetArchived(n, archived) PROVE Types'
    <3>1. [row[n] EXCEPT !.archived = archived] \in RowType
      BY RowWithArchived
    <3>2. row' \in [Names -> RowType]
      BY <2>14, <3>1 DEF SetArchived
    <3> QED BY <2>14, <3>2 DEF SetArchived
  <2>15. ASSUME NEW v \in Viewers, NEW n \in Names, StartStream(v, n) PROVE Types'
    BY <2>15 DEF StartStream
  <2>16. ASSUME NEW v \in Viewers, EndStream(v) PROVE Types'
    BY <2>16 DEF EndStream
  <2>17. CASE UNCHANGED vars
    BY <2>17 DEF vars
  <2> HIDE DEF Types, TypeOK, Named, Unnamed, Name
  <2> QED BY <2>1, <2>2, <2>3, <2>4, <2>5, <2>6, <2>7, <2>8, <2>9, <2>10, <2>11, <2>12, <2>13,
             <2>14, <2>15, <2>16, <2>17 DEF Next, SubmitterStep
<1> QED BY <1>1, <1>2, PTL DEF Spec
-----------------------------------------------------------------------------
(* Rows and files *)

Dumps == {"snapshot", "inputs", "outputs", "metrics"}

\* A step in which no submitter inserts its row or gets past a dump.
Onward ==
  \A s \in Submitters :
    /\ pc'[s] \in Working => pc[s] \in Working /\ Name(s)' = Name(s)
    /\ \A f \in Dumps : pc'[s] \in Behind(f) /\ Succeeded(s)' => pc[s] \in Behind(f) /\ Succeeded(s)

\* Behind a dump a submitter is working.
LEMMA BehindIsWorking == \A f \in Dumps : Behind(f) \subseteq Working
BY DEF Behind, Working, Files, Dumps

\* A step that goes onward and writes nothing.
LEMMA QuietStep ==
  ASSUME Types, Rows, Onward, UNCHANGED <<row, folder>>
  PROVE  Rows'
<1>1. OwnsRow'
  BY DEF Rows, OwnsRow, Onward
<1>2. NoOwnerWithoutRow' /\ CompletedIsWhole' /\ FilesOfOwner'
  BY DEF Rows, NoOwnerWithoutRow, CompletedIsWhole, FilesOfOwner, Exists
<1>3. WrittenSoFar'
  BY BehindIsWorking DEF Rows, WrittenSoFar, Onward, Dumps
<1> QED BY <1>1, <1>2, <1>3 DEF Rows

\* The steps that write no row and no file.
LEMMA QuietActions ==
  ASSUME Types, Rows
  PROVE  /\ \A s \in Submitters :
              /\ \A n \in Names, ref \in Names \cup {None} : Submit(s, n, ref) => Rows'
              /\ Chain(s) \/ EnterLogger(s) \/ Prepare(s) \/ DumpRaises(s) => Rows'
              /\ GetRow(s) \/ ChildStarts(s) \/ ChildRunsLine(s) \/ Crash(s) => Rows'
              /\ \A r \in Results : BulkEnds(s, r) => Rows'
         /\ \A v \in Viewers :
              /\ \A n \in Names : StartStream(v, n) => Rows'
              /\ EndStream(v) => Rows'
         /\ UNCHANGED vars => Rows'
<1> USE DEF Types, TypeOK, Onward, Working, Files, Behind, Dumps, Succeeded, Name, Goto
<1>1. ASSUME NEW s \in Submitters, NEW n \in Names, NEW ref \in Names \cup {None}, Submit(s, n, ref)
      PROVE  Onward /\ UNCHANGED <<row, folder>>
  BY <1>1 DEF Submit
<1>2. ASSUME NEW s \in Submitters,
             Chain(s) \/ EnterLogger(s) \/ Prepare(s) \/ DumpRaises(s)
      PROVE  Onward /\ UNCHANGED <<row, folder>>
  <2>1. CASE Chain(s)
    BY <2>1 DEF Chain
  <2>2. CASE EnterLogger(s)
    BY <2>2 DEF EnterLogger
  <2>3. CASE Prepare(s)
    BY <2>3 DEF Prepare
  <2>4. CASE DumpRaises(s)
    BY <2>4 DEF DumpRaises
  <2> HIDE DEF Types, TypeOK, Onward
  <2> QED BY <1>2, <2>1, <2>2, <2>3, <2>4
<1>3. ASSUME NEW s \in Submitters,
             GetRow(s) \/ ChildStarts(s) \/ ChildRunsLine(s) \/ Crash(s)
      PROVE  Onward /\ UNCHANGED <<row, folder>>
  <2>1. CASE GetRow(s)
    BY <2>1 DEF GetRow
  <2>2. CASE ChildStarts(s)
    BY <2>2 DEF ChildStarts
  <2>3. CASE ChildRunsLine(s)
    BY <2>3 DEF ChildRunsLine
  <2>4. CASE Crash(s)
    BY <2>4 DEF Crash
  <2> HIDE DEF Types, TypeOK, Onward
  <2> QED BY <1>3, <2>1, <2>2, <2>3, <2>4
<1>4. ASSUME NEW s \in Submitters, NEW r \in Results, BulkEnds(s, r)
      PROVE  Onward /\ UNCHANGED <<row, folder>>
  BY <1>4 DEF BulkEnds
<1>5. ASSUME NEW v \in Viewers, (\E n \in Names : StartStream(v, n)) \/ EndStream(v)
      PROVE  Onward /\ UNCHANGED <<row, folder>>
  BY <1>5 DEF StartStream, EndStream
<1>6. UNCHANGED vars => Onward /\ UNCHANGED <<row, folder>>
  BY DEF vars
<1> QED
  <2> USE DEF Types
  <2> HIDE DEF Types, TypeOK, Onward, Working, Files, Behind, Dumps, Succeeded, Name, Goto
  <2> QED BY <1>1, <1>2, <1>3, <1>4, <1>5, <1>6, QuietStep

\* The insertion of a run's row.
LEMMA DumpRunKeeps ==
  ASSUME Types, Rows, NEW s \in Submitters, DumpRun(s)
  PROVE  Rows'
<1>1. CASE ~ Free(Name(s))
  <2>1. Onward /\ UNCHANGED <<row, folder>>
    BY <1>1 DEF DumpRun, Types, TypeOK, Onward, Working, Files, Behind, Dumps, Succeeded, Name, Goto
  <2> QED BY <2>1, QuietStep
<1>2. CASE Free(Name(s))
  <2>1. /\ Name(s) \in Names /\ ~ Exists(Name(s)) /\ UNCHANGED <<run, result, folder>>
        /\ row' = [row EXCEPT ![Name(s)] =
                     [status |-> "NotStarted", owner |-> s, archived |-> FALSE]]
        /\ pc' = [pc EXCEPT ![s] = "bulk"]
    BY <1>2 DEF DumpRun, Types, Named, Free, Goto
  <2>2. \A f \in Files : folder[Name(s)][f] = None
    BY <2>1, SubmissionAssumption DEF Rows, FilesOfOwner, NoOwnerWithoutRow
  <2>3. OwnsRow'
    BY <2>1 DEF Types, TypeOK, Rows, OwnsRow, Exists, Name, Working
  <2>4. NoOwnerWithoutRow'
    BY <2>1 DEF Types, TypeOK, Rows, NoOwnerWithoutRow, Exists
  <2>5. WrittenSoFar'
    BY <2>1 DEF Types, TypeOK, Rows, WrittenSoFar, Behind, Succeeded, Name
  <2>6. CompletedIsWhole'
    BY <2>1 DEF Types, TypeOK, Rows, CompletedIsWhole
  <2>7. FilesOfOwner'
    BY <2>1, <2>2 DEF Types, TypeOK, Rows, FilesOfOwner
  <2> QED BY <2>3, <2>4, <2>5, <2>6, <2>7 DEF Rows
<1> QED BY <1>1, <1>2

\* A dump of the finally block.
LEMMA DumpKeeps ==
  ASSUME Types, Rows, NEW s \in Submitters, Dump(s)
  PROVE  Rows'
<1> DEFINE n == Name(s)
           f == pc[s]
<1>1. /\ f \in Files /\ s \in Submitters /\ pc[s] \in Working
      /\ pc' = [pc EXCEPT ![s] = AfterDump[f]]
      /\ folder' = IF Written(s, f) THEN [folder EXCEPT ![n][f] = s] ELSE folder
      /\ UNCHANGED <<run, result, row>>
  BY DEF Dump, Goto, Working
<1>2. n \in Names /\ row[n].status = "NotStarted" /\ row[n].owner = s
  BY <1>1 DEF Types, Named, Rows, OwnsRow, Working, Files
<1>3. AfterDump[f] \in Working
  BY <1>1 DEF AfterDump, Working, Files
<1>4. OwnsRow'
  BY <1>1, <1>3 DEF Types, TypeOK, Rows, OwnsRow, Name
<1>5. NoOwnerWithoutRow'
  BY <1>1 DEF Rows, NoOwnerWithoutRow, Exists
<1>6. \A m \in Names, g \in Files :
        folder'[m][g] = IF m = n /\ g = f /\ Written(s, f) THEN s ELSE folder[m][g]
  BY <1>1, <1>2 DEF Types, TypeOK
<1>7. CompletedIsWhole'
  BY <1>1, <1>2, <1>6 DEF Rows, CompletedIsWhole, Files
<1>8. FilesOfOwner'
  BY <1>1, <1>2, <1>6 DEF Rows, FilesOfOwner
<1>9. WrittenSoFar'
  <2> SUFFICES ASSUME NEW t \in Submitters, NEW g \in Dumps, pc'[t] \in Behind(g), Succeeded(t)
               PROVE  folder'[Name(t)][g] = t
    BY <1>1 DEF WrittenSoFar, Dumps, Succeeded, Name
  <2>1. CASE t = s /\ g = f
    BY <2>1, <1>1, <1>2, <1>6 DEF Written, Dumps, Files
  <2>2. CASE t = s /\ g # f
    <3>1. pc'[s] = AfterDump[f]
      BY <1>1 DEF Types, TypeOK
    <3>2. pc[s] \in Behind(g)
      <4>1. CASE f = "snapshot"
        BY <2>2, <3>1, <4>1 DEF Behind, AfterDump, Dumps
      <4>2. CASE f = "inputs"
        BY <2>2, <3>1, <4>2 DEF Behind, AfterDump, Dumps
      <4>3. CASE f = "outputs"
        BY <2>2, <3>1, <4>3 DEF Behind, AfterDump, Dumps
      <4>4. CASE f = "metrics"
        BY <2>2, <3>1, <4>4 DEF Behind, AfterDump, Dumps
      <4>5. CASE f = "exception"
        BY <2>2, <3>1, <4>5 DEF Behind, AfterDump, Dumps
      <4> QED BY <1>1, <4>1, <4>2, <4>3, <4>4, <4>5 DEF Files
    <3>3. folder[n][g] = s
      BY <2>2, <3>2 DEF Rows, WrittenSoFar, Dumps
    <3> QED BY <2>2, <3>3, <1>2, <1>6 DEF Dumps, Files
  <2>3. CASE t # s
    <3>1. pc[t] \in Behind(g) /\ pc[t] \in Working
      BY <2>3, <1>1, BehindIsWorking DEF Types, TypeOK
    <3>2. Name(t) \in Names /\ row[Name(t)].owner = t /\ folder[Name(t)][g] = t
      BY <3>1 DEF Types, Named, Rows, OwnsRow, WrittenSoFar, Working, Files, Dumps
    <3> QED BY <2>3, <3>2, <1>2, <1>6 DEF Dumps, Files
  <2> QED BY <2>1, <2>2, <2>3
<1> QED BY <1>4, <1>5, <1>7, <1>8, <1>9 DEF Rows

\* The final update of a run's row.
LEMMA UpdateRowKeeps ==
  ASSUME Types, Rows, NEW s \in Submitters, UpdateRow(s)
  PROVE  Rows'
<1> DEFINE n == Name(s)
<1>1. /\ pc[s] = "update" /\ pc[s] \in Working
      /\ row' = [row EXCEPT ![n] = [row[n] EXCEPT !.status = FinalStatus(s)]]
      /\ \A t \in Submitters : pc'[t] = IF t = s THEN pc'[s] ELSE pc[t]
      /\ pc'[s] \in {"raised", "returned"}
      /\ UNCHANGED <<run, result, folder>>
  BY DEF UpdateRow, Goto, Updated, Working, Types, TypeOK
<1>2. n \in Names /\ row[n].status = "NotStarted" /\ row[n].owner = s /\ Exists(n)
  BY <1>1 DEF Types, Named, Rows, OwnsRow, Exists
<1>3. \A m \in Names : /\ row'[m].owner = row[m].owner
                       /\ m # n => row'[m].status = row[m].status
                       /\ m = n => row'[m].status = FinalStatus(s)
  BY <1>1, <1>2 DEF Types, TypeOK, RowType
<1>4. OwnsRow'
  <2> SUFFICES ASSUME NEW t \in Submitters, pc'[t] \in Working
               PROVE  row'[Name(t)].status = "NotStarted" /\ row'[Name(t)].owner = t
    BY <1>1 DEF OwnsRow, Name
  <2>1. t # s /\ pc[t] \in Working
    BY <1>1 DEF Working, Files
  <2>2. Name(t) \in Names /\ row[Name(t)].status = "NotStarted" /\ row[Name(t)].owner = t
    BY <2>1 DEF Types, Named, Rows, OwnsRow, Working, Files
  <2> QED BY <2>1, <2>2, <1>2, <1>3
<1>5. NoOwnerWithoutRow'
  BY <1>2, <1>3 DEF Rows, NoOwnerWithoutRow, Exists, FinalStatus
<1>6. FilesOfOwner'
  BY <1>1, <1>3 DEF Rows, FilesOfOwner
<1>7. WrittenSoFar'
  BY <1>1 DEF Rows, WrittenSoFar, Behind, Succeeded, Name
<1>8. CompletedIsWhole'
  <2> SUFFICES ASSUME NEW m \in Names, row'[m].status = "Completed", NEW g \in Dumps
               PROVE  folder'[m][g] = row'[m].owner
    BY DEF CompletedIsWhole, Dumps
  <2>1. CASE m # n
    BY <2>1, <1>1, <1>3 DEF Rows, CompletedIsWhole, Dumps
  <2>2. CASE m = n
    <3>1. Succeeded(s) /\ pc[s] \in Behind(g)
      BY <2>2, <1>1, <1>3 DEF FinalStatus, Behind, Dumps
    <3>2. folder[n][g] = s
      BY <3>1 DEF Rows, WrittenSoFar, Dumps
    <3> QED BY <2>2, <3>2, <1>1, <1>2, <1>3
  <2> QED BY <2>1, <2>2
<1> QED BY <1>4, <1>5, <1>6, <1>7, <1>8 DEF Rows

\* Archiving and restoring a run.
LEMMA SetArchivedKeeps ==
  ASSUME Types, Rows, NEW n \in Names, NEW archived \in BOOLEAN, SetArchived(n, archived)
  PROVE  Rows'
<1>1. /\ UNCHANGED <<pc, run, result, folder>>
      /\ \A m \in Names : row'[m].owner = row[m].owner /\ row'[m].status = row[m].status
  BY DEF SetArchived, Types, TypeOK, RowType
<1>2. \A s \in Submitters : pc[s] \in Working => Name(s) \in Names
  BY DEF Types, Named, Working, Files
<1>3. OwnsRow'
  BY <1>1, <1>2 DEF Rows, OwnsRow, Name
<1>4. NoOwnerWithoutRow' /\ CompletedIsWhole' /\ FilesOfOwner'
  BY <1>1 DEF Rows, NoOwnerWithoutRow, CompletedIsWhole, FilesOfOwner, Exists
<1>5. WrittenSoFar'
  BY <1>1 DEF Rows, WrittenSoFar, Succeeded, Name
<1> QED BY <1>3, <1>4, <1>5 DEF Rows

\* The inductive invariant of rows and files holds in every reachable state.
THEOREM RowsInvariance == Spec => []Rows
<1>1. Init => Rows
  BY DEF Init, NoRow, Rows, OwnsRow, NoOwnerWithoutRow, WrittenSoFar, CompletedIsWhole,
         FilesOfOwner, Working, Files, Behind, Exists
<1>2. Types /\ Rows /\ [Next]_vars => Rows'
  <2> SUFFICES ASSUME Types, Rows, [Next]_vars PROVE Rows'
    OBVIOUS
  <2>1. ASSUME NEW s \in Submitters, SubmitterStep(s) PROVE Rows'
    <3>1. ASSUME NEW r \in Results \ {"none"}, BulkEnds(s, r) PROVE Rows'
      BY <3>1, QuietActions
    <3>2. CASE Dump(s) \/ DumpRun(s) \/ UpdateRow(s)
      BY <3>2, DumpKeeps, DumpRunKeeps, UpdateRowKeeps
    <3>3. CASE Chain(s) \/ EnterLogger(s) \/ Prepare(s) \/ DumpRaises(s) \/ GetRow(s)
      BY <3>3, QuietActions
    <3> QED BY <2>1, <3>1, <3>2, <3>3 DEF SubmitterStep
  <2>2. ASSUME NEW s \in Submitters,
               \/ \E n \in Names, ref \in Names \cup {None} : Submit(s, n, ref)
               \/ ChildStarts(s) \/ ChildRunsLine(s) \/ Crash(s)
        PROVE  Rows'
    BY <2>2, QuietActions
  <2>3. ASSUME NEW v \in Viewers, NEW n \in Names, StartStream(v, n) PROVE Rows'
    BY <2>3, QuietActions
  <2>4. ASSUME NEW v \in Viewers, EndStream(v) PROVE Rows'
    BY <2>4, QuietActions
  <2>5. ASSUME NEW n \in Names, NEW archived \in BOOLEAN, SetArchived(n, archived) PROVE Rows'
    BY <2>5, SetArchivedKeeps
  <2>6. CASE UNCHANGED vars
    BY <2>6, QuietActions
  <2> QED BY <2>1, <2>2, <2>3, <2>4, <2>5, <2>6 DEF Next
<1> QED BY <1>1, <1>2, TypeCorrect, PTL DEF Spec

\* A run shown as Completed has all of its files, written by the submission that
\* created it.
THEOREM CompletedRunsAreWhole == Spec => []CompletedIsWhole
BY RowsInvariance, PTL DEF Rows

\* A submission leaves nothing in the folder of a run another one created.
THEOREM FilesAreTheOwners == Spec => []FilesOfOwner
BY RowsInvariance, PTL DEF Rows

\* The steps that leave the rows alone.
LEMMA RowStays ==
  ASSUME [Next]_vars
  PROVE  \/ UNCHANGED row
         \/ \E s \in Submitters : (DumpRun(s) /\ Free(Name(s))) \/ UpdateRow(s)
         \/ \E n \in Names, archived \in BOOLEAN : SetArchived(n, archived)
<1>1. ASSUME NEW s \in Submitters, SubmitterStep(s), ~ UpdateRow(s), ~ (DumpRun(s) /\ Free(Name(s)))
      PROVE  UNCHANGED row
  BY <1>1 DEF SubmitterStep, Chain, EnterLogger, Prepare, DumpRun, BulkEnds, Dump, DumpRaises,
              GetRow
<1>2. ASSUME NEW s \in Submitters, NEW n \in Names, NEW ref \in Names \cup {None}, Submit(s, n, ref)
      PROVE  UNCHANGED row
  BY <1>2 DEF Submit
<1>3. ASSUME NEW s \in Submitters, ChildStarts(s) \/ ChildRunsLine(s) \/ Crash(s)
      PROVE  UNCHANGED row
  BY <1>3 DEF ChildStarts, ChildRunsLine, Crash
<1>4. ASSUME NEW v \in Viewers, NEW n \in Names, StartStream(v, n) PROVE UNCHANGED row
  BY <1>4 DEF StartStream
<1>5. ASSUME NEW v \in Viewers, EndStream(v) PROVE UNCHANGED row
  BY <1>5 DEF EndStream
<1>6. CASE UNCHANGED vars
  BY <1>6 DEF vars
<1> QED BY <1>1, <1>2, <1>3, <1>4, <1>5, <1>6 DEF Next

\* A run's row is created once and its final status is final.
THEOREM FinalStatusStays == Spec => FinalStatusIsFinal
<1> DEFINE Stays == \A n \in Names :
                      /\ Exists(n) => row'[n].owner = row[n].owner
                      /\ row[n].status \in {"Completed", "Failed"} => row'[n].status = row[n].status
<1>1. Types /\ Rows /\ [Next]_vars => Stays
  <2> SUFFICES ASSUME Types, Rows, [Next]_vars, NEW n \in Names
               PROVE  /\ Exists(n) => row'[n].owner = row[n].owner
                      /\ row[n].status \in {"Completed", "Failed"} => row'[n].status = row[n].status
    OBVIOUS
  <2>1. CASE UNCHANGED row
    BY <2>1
  <2>2. ASSUME NEW s \in Submitters, DumpRun(s), Free(Name(s))
        PROVE  Exists(n) => row'[n] = row[n]
    BY <2>2 DEF DumpRun, Free, Types, TypeOK
  <2>3. ASSUME NEW s \in Submitters, UpdateRow(s)
        PROVE  /\ row'[n].owner = row[n].owner
               /\ row[n].status \in {"Completed", "Failed"} => row'[n].status = row[n].status
    <3>1. Name(s) \in Names /\ row[Name(s)].status = "NotStarted"
      BY <2>3 DEF UpdateRow, Types, Named, Rows, OwnsRow, Working
    <3> QED BY <2>3, <3>1 DEF UpdateRow, Updated, Types, TypeOK, RowType
  <2>4. ASSUME NEW m \in Names, NEW archived \in BOOLEAN, SetArchived(m, archived)
        PROVE  row'[n].owner = row[n].owner /\ row'[n].status = row[n].status
    BY <2>4 DEF SetArchived, Types, TypeOK, RowType
  <2>5. row[n].status \in {"Completed", "Failed"} => Exists(n)
    BY DEF Exists
  <2> QED BY <2>1, <2>2, <2>3, <2>4, <2>5, RowStays
<1>2. Types /\ Rows /\ [Next]_vars => [Stays]_vars
  BY <1>1
<1> QED BY <1>2, TypeCorrect, RowsInvariance, PTL DEF Spec, FinalStatusIsFinal

\* The final update undoes no archive or restore of the run.
THEOREM EditsAreKept == Spec => UpdateKeepsEdits
<1> DEFINE Keeps == \A s \in Submitters : pc[s] = "update" /\ pc'[s] # "update" =>
                      row'[Name(s)].archived = row[Name(s)].archived
<1>1. Types /\ Rows /\ [Next]_vars => Keeps
  <2> SUFFICES ASSUME Types, Rows, [Next]_vars, NEW s \in Submitters,
                      pc[s] = "update", pc'[s] # "update"
               PROVE  row'[Name(s)].archived = row[Name(s)].archived
    OBVIOUS
  <2>1. ASSUME NEW t \in Submitters, DumpRun(t) PROVE FALSE
    BY <2>1 DEF DumpRun, Goto, Types, TypeOK
  <2>2. ASSUME NEW t \in Submitters, UpdateRow(t)
        PROVE  row'[Name(s)].archived = row[Name(s)].archived
    <3>1. t = s
      BY <2>2 DEF UpdateRow, Goto, Types, TypeOK
    <3>2. Name(s) \in Names
      BY DEF Types, Named
    <3>3. row[Name(s)] \in RowType /\ row'[Name(s)] = Updated(s)
      BY <2>2, <3>1, <3>2 DEF UpdateRow, Types, TypeOK
    <3>4. Updated(s).archived = row[Name(s)].archived
      BY <3>3 DEF Updated, RowType
    <3> QED BY <3>3, <3>4
  <2>3. ASSUME NEW n \in Names, NEW archived \in BOOLEAN, SetArchived(n, archived) PROVE FALSE
    BY <2>3 DEF SetArchived
  <2> QED BY <2>1, <2>2, <2>3, RowStays
<1>2. Types /\ Rows /\ [Next]_vars => [Keeps]_vars
  BY <1>1
<1> QED BY <1>2, TypeCorrect, RowsInvariance, PTL DEF Spec, UpdateKeepsEdits

-----------------------------------------------------------------------------
(* The log *)

\* The inductive invariant of the log holds in every reachable state.
THEOREM LogsInvariance == Spec => []Logs
<1> USE SubmissionAssumption DEF Types, TypeOK, Named, Unnamed, Logs, LogsSoFar, NotBegun, Kept,
      Name
<1>1. Init => Logs
  BY DEF Init
<1>2. Types /\ Logs /\ Types' /\ [Next]_vars => Logs'
  <2> SUFFICES ASSUME Types, Logs, Types', [Next]_vars PROVE Logs'
    OBVIOUS
  <2>1. ASSUME NEW s \in Submitters, NEW n \in Names, NEW ref \in Names \cup {None},
               Submit(s, n, ref) PROVE Logs'
    BY <2>1 DEF Submit, Goto
  <2>2. ASSUME NEW s \in Submitters, Chain(s) PROVE Logs'
    BY <2>2 DEF Chain, Goto
  <2>3. ASSUME NEW s \in Submitters, EnterLogger(s) PROVE Logs'
    BY <2>3 DEF EnterLogger, Goto, Emptied
  <2>4. ASSUME NEW s \in Submitters, Prepare(s) PROVE Logs'
    BY <2>4 DEF Prepare, Goto
  <2>5. ASSUME NEW s \in Submitters, DumpRun(s) PROVE Logs'
    <3>1. pc' = [pc EXCEPT ![s] = "bulk"] \/ pc' = [pc EXCEPT ![s] = "raised"]
      BY <2>5 DEF DumpRun, Goto
    <3>2. UNCHANGED <<run, result, children, ran, log>> /\ pc[s] = "dump"
      BY <2>5 DEF DumpRun
    <3>3. result[s] = "none"
      BY <3>2
    <3>4. LogsSoFar'
      <4>1. ASSUME NEW t \in Submitters PROVE ran'[t] => children'[t] > 0 /\ Kept(t)'
        BY <3>2
      <4>2. ASSUME NEW t \in Submitters, t # s PROVE pc'[t] = pc[t]
        BY <3>1, <4>2
      <4>3. result'[s] # "ok"
        BY <3>2, <3>3
      <4> QED BY <3>2, <4>1, <4>2, <4>3
    <3>5. NotBegun'
      BY <3>1, <3>2
    <3> QED BY <3>4, <3>5
  <2>6. ASSUME NEW s \in Submitters, Dump(s) PROVE Logs'
    BY <2>6 DEF Dump, Goto, AfterDump, Files
  <2>7. ASSUME NEW s \in Submitters, DumpRaises(s) PROVE Logs'
    BY <2>7 DEF DumpRaises, Goto, Files
  <2>8. ASSUME NEW s \in Submitters, GetRow(s) PROVE Logs'
    BY <2>8 DEF GetRow, Goto
  <2>9. ASSUME NEW s \in Submitters, UpdateRow(s) PROVE Logs'
    BY <2>9 DEF UpdateRow, Goto, Updated, FinalStatus
  <2>10. ASSUME NEW s \in Submitters, ChildStarts(s) PROVE Logs'
    BY <2>10 DEF ChildStarts, Emptied
  <2>11. ASSUME NEW s \in Submitters, ChildRunsLine(s) PROVE Logs'
    BY <2>11 DEF ChildRunsLine
  <2>12. ASSUME NEW s \in Submitters, Crash(s) PROVE Logs'
    BY <2>12 DEF Crash, Goto
  <2>13. ASSUME NEW s \in Submitters, NEW r \in Results \ {"none"}, BulkEnds(s, r) PROVE Logs'
    BY <2>13 DEF BulkEnds, Goto
  <2>14. ASSUME NEW n \in Names, NEW archived \in BOOLEAN, SetArchived(n, archived) PROVE Logs'
    BY <2>14 DEF SetArchived
  <2>15. ASSUME NEW v \in Viewers, NEW n \in Names, StartStream(v, n) PROVE Logs'
    BY <2>15 DEF StartStream
  <2>16. ASSUME NEW v \in Viewers, EndStream(v) PROVE Logs'
    BY <2>16 DEF EndStream
  <2>17. CASE UNCHANGED vars
    BY <2>17 DEF vars
  <2> HIDE DEF Types, TypeOK, Named, Unnamed, Logs, LogsSoFar, NotBegun, Kept, Name
  <2> QED BY <2>1, <2>2, <2>3, <2>4, <2>5, <2>6, <2>7, <2>8, <2>9, <2>10, <2>11, <2>12, <2>13,
             <2>14, <2>15, <2>16, <2>17 DEF Next, SubmitterStep
<1> QED BY <1>1, <1>2, TypeCorrect, PTL DEF Spec

\* What the lines of a run logged is in its log, unless a late child or a submission of
\* the same name emptied it.
THEOREM LineLogsAreKept == Spec => []LineLogsKept
<1>1. Logs => LineLogsKept
  BY DEF Logs, LogsSoFar, Kept, LineLogsKept
<1> QED BY <1>1, LogsInvariance, PTL
-----------------------------------------------------------------------------
(* Progress of submitters and viewers *)

\* A run that has not got its final status is the work of the submitter that inserted
\* its row, or was left behind by it.
OwnersWork ==
  \A n \in Names : row[n].status = "NotStarted" =>
    \E s \in Submitters :
      /\ row[n].owner = s /\ Name(s) = n
      /\ pc[s] \in Working \cup {"raised", "crashed"}

\* What a viewer may find: a run that is finished or abandoned, so that it stops or
\* waits in vain, or one whose submitter is at work.
StreamsWaitForWork ==
  \A v \in Viewers : stream[v] # None =>
    \/ row[stream[v]].status # "NotStarted"
    \/ Abandoned(stream[v])
    \/ \E s \in Submitters : Name(s) = stream[v] /\ pc[s] \in Working

\* How many places a submitter still has to go through.
PlaceRank(place) ==
  CASE place = "start" -> 13
    [] place = "chain" -> 12
    [] place = "enter" -> 11
    [] place = "prepare" -> 10
    [] place = "dump" -> 9
    [] place = "bulk" -> 8
    [] place = "snapshot" -> 7
    [] place = "inputs" -> 6
    [] place = "outputs" -> 5
    [] place = "metrics" -> 4
    [] place = "exception" -> 3
    [] place = "get" -> 2
    [] place = "update" -> 1
    [] OTHER -> 0

\* A step of a submitter takes it to a later place, and nothing ever takes it back.
GoesForward ==
  [][\A s \in Submitters :
       /\ SubmitterStep(s) => PlaceRank(pc'[s]) < PlaceRank(pc[s])
       /\ pc'[s] = pc[s] \/ PlaceRank(pc'[s]) < PlaceRank(pc[s])]_vars

\* A step that leaves the row alone, and takes a submitter nowhere but on or off its work.
LEMMA OwnersWorkOn ==
  ASSUME TypeOK, OwnersWork, row' = row, NEW s \in Submitters,
         \A t \in Submitters \ {s} : pc'[t] = pc[t] /\ Name(t)' = Name(t),
         pc[s] \in Working \cup {"raised", "crashed"} =>
           pc'[s] \in Working \cup {"raised", "crashed"} /\ Name(s)' = Name(s)
  PROVE  OwnersWork'
<1> SUFFICES ASSUME NEW n \in Names, row[n].status = "NotStarted"
             PROVE  \E t \in Submitters :
                      /\ row[n].owner = t /\ Name(t)' = n
                      /\ pc'[t] \in Working \cup {"raised", "crashed"}
  BY DEF OwnersWork
<1>1. PICK t \in Submitters :
        row[n].owner = t /\ Name(t) = n /\ pc[t] \in Working \cup {"raised", "crashed"}
  BY DEF OwnersWork
<1> QED BY <1>1

\* A run without a final status has its submitter at work on it, or was left behind by it.
THEOREM OwnersAreAtWork == Spec => []OwnersWork
<1>1. Init => OwnersWork
  BY DEF Init, OwnersWork, NoRow
<1>2. Types /\ OwnersWork /\ [Next]_vars => OwnersWork'
  <2> SUFFICES ASSUME Types, OwnersWork, [Next]_vars PROVE OwnersWork'
    OBVIOUS
  <2>0. TypeOK
    BY DEF Types
  <2>1. ASSUME NEW s \in Submitters, NEW n \in Names, NEW ref \in Names \cup {None},
               Submit(s, n, ref) PROVE OwnersWork'
    <3>1. pc[s] = "start" /\ row' = row
      BY <2>1 DEF Submit
    <3>2. \A t \in Submitters \ {s} : pc'[t] = pc[t] /\ Name(t)' = Name(t)
      BY <2>0, <2>1 DEF Submit, Goto, Name, TypeOK
    <3>3. pc[s] \notin Working \cup {"raised", "crashed"}
      BY <3>1 DEF Working, Files
    <3> QED BY <2>0, <3>1, <3>2, <3>3, OwnersWorkOn
  <2>2. ASSUME NEW s \in Submitters, Chain(s) \/ EnterLogger(s) \/ Prepare(s) PROVE OwnersWork'
    <3>1. pc[s] \in {"chain", "enter", "prepare"} /\ row' = row /\ run' = run
      BY <2>2 DEF Chain, EnterLogger, Prepare
    <3>2. \A t \in Submitters \ {s} : pc'[t] = pc[t] /\ Name(t)' = Name(t)
      BY <2>0, <2>2, <3>1 DEF Chain, EnterLogger, Prepare, Goto, Name, TypeOK
    <3>3. pc[s] \notin Working \cup {"raised", "crashed"}
      BY <3>1 DEF Working, Files
    <3> QED BY <2>0, <3>1, <3>2, <3>3, OwnersWorkOn
  <2>3. ASSUME NEW s \in Submitters, DumpRun(s) PROVE OwnersWork'
    <3>0. /\ pc[s] = "dump" /\ run' = run /\ Name(s) \in Names
          /\ pc[s] \notin Working \cup {"raised", "crashed"}
          /\ \A t \in Submitters \ {s} : pc'[t] = pc[t] /\ Name(t)' = Name(t)
      BY <2>0, <2>3 DEF DumpRun, Goto, Name, TypeOK, Types, Named, Working, Files
    <3>1. CASE Free(Name(s))
      <4>1. /\ pc'[s] = "bulk" /\ Name(s)' = Name(s)
            /\ row'[Name(s)].status = "NotStarted" /\ row'[Name(s)].owner = s
            /\ \A n \in Names \ {Name(s)} : row'[n] = row[n]
        BY <2>0, <2>3, <3>0, <3>1 DEF DumpRun, Goto, Name, TypeOK
      <4>2. ASSUME NEW n \in Names, row'[n].status = "NotStarted"
            PROVE  \E t \in Submitters :
                     /\ row'[n].owner = t /\ Name(t)' = n
                     /\ pc'[t] \in Working \cup {"raised", "crashed"}
        <5>1. CASE n = Name(s)
          BY <4>1, <5>1 DEF Working
        <5>2. CASE n # Name(s)
          <6>1. row'[n] = row[n] /\ row[n].status = "NotStarted"
            BY <4>1, <4>2, <5>2
          <6>2. PICK t \in Submitters :
                  row[n].owner = t /\ Name(t) = n /\ pc[t] \in Working \cup {"raised", "crashed"}
            BY <6>1 DEF OwnersWork
          <6>3. t # s
            BY <3>0, <6>2
          <6> QED BY <3>0, <6>1, <6>2, <6>3
        <5> QED BY <5>1, <5>2
      <4> QED BY <4>2 DEF OwnersWork
    <3>2. CASE ~ Free(Name(s))
      <4>1. row' = row
        BY <2>3, <3>2 DEF DumpRun
      <4> QED BY <2>0, <3>0, <4>1, OwnersWorkOn
    <3> QED BY <3>1, <3>2
  <2>4. ASSUME NEW s \in Submitters, Dump(s) \/ DumpRaises(s) \/ GetRow(s) PROVE OwnersWork'
    <3>1. row' = row /\ run' = run /\ pc'[s] \in Working \cup {"raised", "crashed"}
      BY <2>0, <2>4 DEF Dump, DumpRaises, GetRow, Goto, AfterDump, Files, Working, TypeOK
    <3>2. \A t \in Submitters \ {s} : pc'[t] = pc[t] /\ Name(t)' = Name(t)
      BY <2>0, <2>4, <3>1 DEF Dump, DumpRaises, GetRow, Goto, Name, TypeOK
    <3> QED BY <2>0, <3>1, <3>2, OwnersWorkOn DEF Name
  <2>5. ASSUME NEW s \in Submitters, NEW r \in Results \ {"none"}, BulkEnds(s, r) PROVE OwnersWork'
    <3>1. row' = row /\ run' = run /\ pc'[s] \in Working \cup {"raised", "crashed"}
      BY <2>0, <2>5 DEF BulkEnds, Goto, Files, Working, TypeOK
    <3>2. \A t \in Submitters \ {s} : pc'[t] = pc[t] /\ Name(t)' = Name(t)
      BY <2>0, <2>5, <3>1 DEF BulkEnds, Goto, Name, TypeOK
    <3> QED BY <2>0, <3>1, <3>2, OwnersWorkOn DEF Name
  <2>6. ASSUME NEW s \in Submitters, Crash(s) PROVE OwnersWork'
    <3>1. row' = row /\ run' = run /\ pc'[s] \in Working \cup {"raised", "crashed"}
      BY <2>0, <2>6 DEF Crash, Goto, TypeOK
    <3>2. \A t \in Submitters \ {s} : pc'[t] = pc[t] /\ Name(t)' = Name(t)
      BY <2>0, <2>6, <3>1 DEF Crash, Goto, Name, TypeOK
    <3> QED BY <2>0, <3>1, <3>2, OwnersWorkOn DEF Name
  <2>7. ASSUME NEW s \in Submitters, UpdateRow(s) PROVE OwnersWork'
    <3>1. /\ run' = run /\ Name(s) \in Names /\ FinalStatus(s) \in {"Completed", "Failed"}
          /\ \A t \in Submitters \ {s} : pc'[t] = pc[t] /\ Name(t)' = Name(t)
      BY <2>0, <2>7 DEF UpdateRow, Goto, Name, TypeOK, Types, Named, FinalStatus
    <3>2. /\ row'[Name(s)] = Updated(s)
          /\ \A n \in Names \ {Name(s)} : row'[n] = row[n]
      BY <2>0, <2>7, <3>1 DEF UpdateRow, TypeOK
    <3>3. row'[Name(s)].status # "NotStarted"
      <4>1. row[Name(s)] \in RowType
        BY <2>0, <3>1 DEF TypeOK
      <4>2. Updated(s).status = FinalStatus(s)
        BY <4>1 DEF Updated, RowType
      <4> QED BY <3>1, <3>2, <4>2
    <3>4. ASSUME NEW n \in Names, row'[n].status = "NotStarted"
          PROVE  \E t \in Submitters :
                   /\ row'[n].owner = t /\ Name(t)' = n
                   /\ pc'[t] \in Working \cup {"raised", "crashed"}
      <4>1. n # Name(s) /\ row'[n] = row[n] /\ row[n].status = "NotStarted"
        BY <3>2, <3>3, <3>4
      <4>2. PICK t \in Submitters :
              row[n].owner = t /\ Name(t) = n /\ pc[t] \in Working \cup {"raised", "crashed"}
        BY <4>1 DEF OwnersWork
      <4>3. t # s
        BY <4>1, <4>2
      <4> QED BY <3>1, <4>1, <4>2, <4>3
    <3> QED BY <3>4 DEF OwnersWork
  <2>8. ASSUME NEW n \in Names, NEW archived \in BOOLEAN, SetArchived(n, archived) PROVE OwnersWork'
    <3>1. UNCHANGED <<pc, run>>
      BY <2>8 DEF SetArchived
    <3>2. ASSUME NEW m \in Names
          PROVE  row'[m].status = row[m].status /\ row'[m].owner = row[m].owner
      BY <2>0, <2>8 DEF SetArchived, TypeOK, RowType
    <3> QED BY <3>1, <3>2 DEF OwnersWork, Name
  <2>9. ASSUME UNCHANGED <<row, pc, run>> PROVE OwnersWork'
    BY <2>9 DEF OwnersWork, Name
  <2>10. ASSUME NEW s \in Submitters, ChildStarts(s) \/ ChildRunsLine(s) PROVE OwnersWork'
    BY <2>9, <2>10 DEF ChildStarts, ChildRunsLine
  <2>11. ASSUME NEW v \in Viewers, NEW n \in Names, StartStream(v, n) PROVE OwnersWork'
    BY <2>9, <2>11 DEF StartStream
  <2>12. ASSUME NEW v \in Viewers, EndStream(v) PROVE OwnersWork'
    BY <2>9, <2>12 DEF EndStream
  <2>13. CASE UNCHANGED vars
    BY <2>9, <2>13 DEF vars
  <2> QED BY <2>1, <2>2, <2>3, <2>4, <2>5, <2>6, <2>7, <2>8, <2>10, <2>11, <2>12, <2>13
          DEF Next, SubmitterStep
<1> QED BY <1>1, <1>2, TypeCorrect, PTL DEF Spec

\* A viewer waits only while a submitter works on the run it streams, unless that run
\* was abandoned.
THEOREM StreamsAreFed == Spec => []StreamsWaitForWork
<1>1. Types /\ OwnersWork => StreamsWaitForWork
  <2> SUFFICES ASSUME Types, OwnersWork, NEW v \in Viewers, stream[v] # None,
                      row[stream[v]].status = "NotStarted", ~ Abandoned(stream[v])
               PROVE  \E s \in Submitters : Name(s) = stream[v] /\ pc[s] \in Working
    BY DEF StreamsWaitForWork
  <2>1. stream[v] \in Names
    BY DEF Types, TypeOK
  <2>2. PICK s \in Submitters :
          /\ row[stream[v]].owner = s /\ Name(s) = stream[v]
          /\ pc[s] \in Working \cup {"raised", "crashed"}
    BY <2>1 DEF OwnersWork
  <2>3. pc[s] \in Working
    BY <2>2 DEF Abandoned
  <2> QED BY <2>2, <2>3
<1> QED BY <1>1, TypeCorrect, OwnersAreAtWork, PTL

\* Each step of a submitter is towards the end of its submission: with StreamsAreFed
\* and FinalStatusStays this is what the termination of streams rests on.
THEOREM SubmittersGoForward == Spec => GoesForward
<1>1. Types /\ [Next]_vars =>
        [\A s \in Submitters :
           /\ SubmitterStep(s) => PlaceRank(pc'[s]) < PlaceRank(pc[s])
           /\ pc'[s] = pc[s] \/ PlaceRank(pc'[s]) < PlaceRank(pc[s])]_vars
  <2> SUFFICES ASSUME Types, Next, NEW s \in Submitters
               PROVE  /\ SubmitterStep(s) => PlaceRank(pc'[s]) < PlaceRank(pc[s])
                      /\ pc'[s] = pc[s] \/ PlaceRank(pc'[s]) < PlaceRank(pc[s])
    OBVIOUS
  <2>0. pc \in [Submitters -> PCs]
    BY DEF Types, TypeOK
  <2>1. ASSUME NEW t \in Submitters, SubmitterStep(t)
        PROVE  PlaceRank(pc'[t]) < PlaceRank(pc[t]) /\ (t # s => pc'[s] = pc[s])
    <3>1. ASSUME NEW place, Goto(t, place) PROVE t # s => pc'[s] = pc[s]
      BY <2>0, <3>1 DEF Goto
    <3>2. t # s => pc'[s] = pc[s]
      BY <2>1, <3>1 DEF SubmitterStep, Chain, EnterLogger, Prepare, DumpRun, BulkEnds, Dump,
         DumpRaises, GetRow, UpdateRow
    <3>3. \/ pc[t] = "chain" /\ pc'[t] \in {"enter", "raised"}
          \/ pc[t] = "enter" /\ pc'[t] = "prepare"
          \/ pc[t] = "prepare" /\ pc'[t] \in {"dump", "raised"}
          \/ pc[t] = "dump" /\ pc'[t] \in {"bulk", "raised"}
          \/ pc[t] = "bulk" /\ pc'[t] = "snapshot"
          \/ pc[t] = "snapshot" /\ pc'[t] \in {"inputs", "raised"}
          \/ pc[t] = "inputs" /\ pc'[t] \in {"outputs", "raised"}
          \/ pc[t] = "outputs" /\ pc'[t] \in {"metrics", "raised"}
          \/ pc[t] = "metrics" /\ pc'[t] \in {"exception", "raised"}
          \/ pc[t] = "exception" /\ pc'[t] \in {"get", "raised"}
          \/ pc[t] = "get" /\ pc'[t] = "update"
          \/ pc[t] = "update" /\ pc'[t] \in {"returned", "raised"}
      <4>1. ASSUME Chain(t) \/ EnterLogger(t) \/ Prepare(t) \/ DumpRun(t)
            PROVE  \/ pc[t] = "chain" /\ pc'[t] \in {"enter", "raised"}
                   \/ pc[t] = "enter" /\ pc'[t] = "prepare"
                   \/ pc[t] = "prepare" /\ pc'[t] \in {"dump", "raised"}
                   \/ pc[t] = "dump" /\ pc'[t] \in {"bulk", "raised"}
        BY <2>0, <4>1 DEF Chain, EnterLogger, Prepare, DumpRun, Goto
      <4>2. ASSUME NEW r \in Results \ {"none"}, BulkEnds(t, r)
            PROVE  pc[t] = "bulk" /\ pc'[t] = "snapshot"
        BY <2>0, <4>2 DEF BulkEnds, Goto
      <4>3. ASSUME Dump(t)
            PROVE  \/ pc[t] = "snapshot" /\ pc'[t] = "inputs"
                   \/ pc[t] = "inputs" /\ pc'[t] = "outputs"
                   \/ pc[t] = "outputs" /\ pc'[t] = "metrics"
                   \/ pc[t] = "metrics" /\ pc'[t] = "exception"
                   \/ pc[t] = "exception" /\ pc'[t] = "get"
        BY <2>0, <4>3 DEF Dump, Goto, AfterDump, Files
      <4>4. ASSUME DumpRaises(t) PROVE pc[t] \in Files /\ pc'[t] = "raised"
        BY <2>0, <4>4 DEF DumpRaises, Goto
      <4>5. ASSUME GetRow(t) \/ UpdateRow(t)
            PROVE  \/ pc[t] = "get" /\ pc'[t] = "update"
                   \/ pc[t] = "update" /\ pc'[t] \in {"returned", "raised"}
        BY <2>0, <4>5 DEF GetRow, UpdateRow, Goto
      <4> QED BY <2>1, <4>1, <4>2, <4>3, <4>4, <4>5 DEF SubmitterStep, Files
    <3>4. PlaceRank(pc'[t]) < PlaceRank(pc[t])
      BY <3>3 DEF PlaceRank
    <3> QED BY <3>2, <3>4
  <2>2. ASSUME NEW t \in Submitters, NEW n \in Names, NEW ref \in Names \cup {None},
               Submit(t, n, ref)
        PROVE  pc'[s] = pc[s] \/ PlaceRank(pc'[s]) < PlaceRank(pc[s])
    <3>1. pc'[s] = pc[s] \/ (pc[s] = "start" /\ pc'[s] \in {"enter", "chain"})
      BY <2>0, <2>2 DEF Submit, Goto
    <3> QED BY <3>1 DEF PlaceRank
  <2>3. ASSUME NEW t \in Submitters, Crash(t)
        PROVE  pc'[s] = pc[s] \/ PlaceRank(pc'[s]) < PlaceRank(pc[s])
    <3>1. \/ pc'[s] = pc[s]
          \/ pc[s] \in PCs \ {"start", "returned", "raised", "crashed"} /\ pc'[s] = "crashed"
      BY <2>0, <2>3 DEF Crash, Finished, Goto
    <3> QED BY <3>1 DEF PlaceRank, PCs
  <2>4. ASSUME NEW t \in Submitters, ChildStarts(t) \/ ChildRunsLine(t) PROVE pc' = pc
    BY <2>4 DEF ChildStarts, ChildRunsLine
  <2>5. ASSUME NEW n \in Names, NEW archived \in BOOLEAN, SetArchived(n, archived) PROVE pc' = pc
    BY <2>5 DEF SetArchived
  <2>6. ASSUME NEW v \in Viewers, NEW n \in Names, StartStream(v, n) PROVE pc' = pc
    BY <2>6 DEF StartStream
  <2>7. ASSUME NEW v \in Viewers, EndStream(v) PROVE pc' = pc
    BY <2>7 DEF EndStream
  <2>8. SubmitterStep(s) => PlaceRank(pc'[s]) < PlaceRank(pc[s])
    BY <2>1
  <2>9. pc'[s] = pc[s] \/ PlaceRank(pc'[s]) < PlaceRank(pc[s])
    BY <2>1, <2>2, <2>3, <2>4, <2>5, <2>6, <2>7 DEF Next
  <2> QED BY <2>8, <2>9
<1> QED BY <1>1, TypeCorrect, PTL DEF GoesForward, Spec
=============================================================================
