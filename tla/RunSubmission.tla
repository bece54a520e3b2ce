---------------------------- MODULE RunSubmission ----------------------------
(***************************************************************************)
(* Batch runs of the local SDK: RunSubmitter (_sdk/operations/             *)
(* _run_submitter.py) with the run's row in the management database        *)
(* (_sdk/_orm/run_info.py) and its folder on disk                          *)
(* (_sdk/operations/_local_storage_operations.py), and RunOperations.stream*)
(* polling a run.                                                          *)
(*                                                                         *)
(* Submitters are processes, each submitting one run under a name of its   *)
(* choice, maybe with a reference to another run whose outputs it takes as *)
(* data.  Names may collide.  A submitter may crash at any point, and      *)
(* writing to its folder may fail.                                         *)
(***************************************************************************)
EXTENDS Naturals, FiniteSets

CONSTANTS Names,       \* run names
          Submitters,  \* processes, each with one run to submit
          Viewers,     \* processes streaming a run
          MaxChildren, \* child processes a batch starts
          MayBreak,    \* submitters may crash and writing files may fail
          None         \* Python's None

ASSUME SubmissionAssumption ==
  /\ MaxChildren \in Nat \ {0}
  /\ MayBreak \in BOOLEAN
  /\ None \notin Names \cup Submitters

VARIABLES
  pc,        \* where each submitter is
  run,       \* its run: name, and the name of the run it refers to
  result,    \* how exec_bulk ended
  children,  \* child processes of the batch that have started
  ran,       \* whether a line has run to its end
  seen,      \* the copy of its row that a submitter reads before its last update
  row,       \* the table run_info
  folder,    \* who wrote each file of a run's folder last
  log,       \* the entries in each run's log file: who wrote them and of what
  stream     \* what each viewer is doing: the name it streams, or None

vars == <<pc, run, result, children, ran, seen, row, folder, log, stream>>

PCs == {"start", "chain", "enter", "prepare", "dump", "bulk", "snapshot", "inputs",
        "outputs", "metrics", "exception", "get", "update", "returned", "raised", "crashed"}
Results == {"none", "ok", "ok with failed lines", "user error", "other error"}
Files == {"snapshot", "inputs", "outputs", "metrics", "exception"}
Entries == Submitters \X {"submitter", "line"}

NoRow == [status |-> "none", owner |-> None, archived |-> FALSE]
Exists(n) == row[n].status # "none"
Name(s) == run[s].name

Init ==
  /\ pc = [s \in Submitters |-> "start"]
  /\ run = [s \in Submitters |-> [name |-> None, ref |-> None]]
  /\ result = [s \in Submitters |-> "none"]
  /\ children = [s \in Submitters |-> 0]
  /\ ran = [s \in Submitters |-> FALSE]
  /\ seen = [s \in Submitters |-> NoRow]
  /\ row = [n \in Names |-> NoRow]
  /\ folder = [n \in Names |-> [f \in Files |-> None]]
  /\ log = [n \in Names |-> {}]
  /\ stream = [v \in Viewers |-> None]

Goto(s, place) == pc' = [pc EXCEPT ![s] = place]

-----------------------------------------------------------------------------
(* RunSubmitter *)

Submit(s, n, ref) ==
  /\ pc[s] = "start"
  /\ run' = [run EXCEPT ![s] = [name |-> n, ref |-> ref]]
  /\ Goto(s, IF ref = None THEN "enter" ELSE "chain")
  /\ UNCHANGED <<result, children, ran, seen, row, folder, log, stream>>

Referable(n) == row[n].status = "Completed"

\* The referenced run is looked up again; it must be completed.
Chain(s) ==
  /\ pc[s] = "chain"
  /\ Goto(s, IF Referable(run[s].ref) THEN "enter" ELSE "raised")
  /\ UNCHANGED <<run, result, children, ran, seen, row, folder, log, stream>>

\* LoggerOperations.__enter__ empties a log file that exists.  (Mutant: those of all
\* runs.)
MutantEmptied(n) == [m \in Names |-> {}]
Emptied(n) == [log EXCEPT ![n] = {}]

EnterLogger(s) ==
  /\ pc[s] = "enter"
  /\ log' = Emptied(Name(s))
  /\ Goto(s, "prepare")
  /\ UNCHANGED <<run, result, children, ran, seen, row, folder, stream>>

\* Connections, executor and mapped inputs; what goes wrong here creates no run.
Prepare(s) ==
  /\ pc[s] = "prepare"
  /\ log' = [log EXCEPT ![Name(s)] = @ \cup {<<s, "submitter">>}]
  /\ \E place \in {"dump", "raised"} : Goto(s, place)
  /\ UNCHANGED <<run, result, children, ran, seen, row, folder, stream>>

\* The row as run._dump inserts it; the name is the primary key.  (Mutant: upsert.)
MutantFree(n) == TRUE
Free(n) == ~ Exists(n)

DumpRun(s) ==
  /\ pc[s] = "dump"
  /\ IF Free(Name(s))
     THEN /\ row' = [row EXCEPT ![Name(s)] =
                       [status |-> "NotStarted", owner |-> s, archived |-> FALSE]]
          /\ Goto(s, "bulk")
     ELSE /\ Goto(s, "raised")  \* RunExistsError
          /\ UNCHANGED row
  /\ UNCHANGED <<run, result, children, ran, seen, folder, log, stream>>

\* A child process of the batch enters the logger of its parent.
ChildStarts(s) ==
  /\ pc[s] = "bulk"
  /\ children[s] < MaxChildren
  /\ children' = [children EXCEPT ![s] = @ + 1]
  /\ log' = Emptied(Name(s))
  /\ UNCHANGED <<pc, run, result, ran, seen, row, folder, stream>>

\* A line runs in a child, which logs it.
ChildRunsLine(s) ==
  /\ pc[s] = "bulk"
  /\ children[s] > 0
  /\ log' = [log EXCEPT ![Name(s)] = @ \cup {<<s, "line">>}]
  /\ ran' = [ran EXCEPT ![s] = TRUE]
  /\ UNCHANGED <<pc, run, result, children, seen, row, folder, stream>>

\* exec_bulk returns, with failed lines or with every line run, or raises, as when
\* a reduce node fails.
BulkEnds(s, r) ==
  /\ pc[s] = "bulk"
  /\ r = "ok" => ran[s]
  /\ result' = [result EXCEPT ![s] = r]
  /\ Goto(s, "snapshot")
  /\ UNCHANGED <<run, children, ran, seen, row, folder, log, stream>>

Succeeded(s) == result[s] \in {"ok", "ok with failed lines"}

\* The finally block, one dump after the other.  persist_result writes nothing
\* without a result, and dump_exception nothing without the errors of failed lines,
\* which it looks for in the result.
Written(s, f) ==
  \/ f \in {"snapshot", "inputs"}
  \/ f \in {"outputs", "metrics"} /\ Succeeded(s)
  \/ f = "exception" /\ result[s] = "ok with failed lines"

\* What follows each dump.  (Mutant: the status is updated before the outputs are
\* dumped.)
MutantAfterDump ==
  [snapshot |-> "inputs", inputs |-> "get", outputs |-> "metrics",
   metrics |-> "exception", exception |-> "returned"]
AfterDump ==
  [snapshot |-> "inputs", inputs |-> "outputs", outputs |-> "metrics",
   metrics |-> "exception", exception |-> "get"]

Dump(s) ==
  /\ pc[s] \in Files
  /\ folder' = IF Written(s, pc[s])
               THEN [folder EXCEPT ![Name(s)][pc[s]] = s] ELSE folder
  /\ Goto(s, AfterDump[pc[s]])
  /\ UNCHANGED <<run, result, children, ran, seen, row, log, stream>>

\* A dump raises: the status is never updated.
DumpRaises(s) ==
  /\ MayBreak
  /\ pc[s] \in Files
  /\ Goto(s, "raised")
  /\ UNCHANGED <<run, result, children, ran, seen, row, folder, log, stream>>

\* RunOperations.update: ORMRun.get, then an UPDATE of the given columns.
GetRow(s) ==
  /\ pc[s] = "get"
  /\ seen' = [seen EXCEPT ![s] = row[Name(s)]]
  /\ Goto(s, "update")
  /\ UNCHANGED <<run, result, children, ran, row, folder, log, stream>>

\* (Mutant: a failed run is left as it is.)
MutantFailedLeft(s) == IF Succeeded(s) THEN "Completed" ELSE "NotStarted"
FinalStatus(s) == IF Succeeded(s) THEN "Completed" ELSE "Failed"

\* (Mutant: the row that was read is written back.)
MutantUpdated(s) == [seen[s] EXCEPT !.status = FinalStatus(s)]
Updated(s) == [row[Name(s)] EXCEPT !.status = FinalStatus(s)]

\* The last step; an error that is not a user error is raised after it.
UpdateRow(s) ==
  /\ pc[s] = "update"
  /\ row' = [row EXCEPT ![Name(s)] = Updated(s)]
  /\ Goto(s, IF result[s] = "other error" THEN "raised" ELSE "returned")
  /\ UNCHANGED <<run, result, children, ran, seen, folder, log, stream>>

Finished(s) == pc[s] \in {"returned", "raised", "crashed"}

Crash(s) ==
  /\ MayBreak
  /\ pc[s] # "start" /\ ~ Finished(s)
  /\ Goto(s, "crashed")
  /\ UNCHANGED <<run, result, children, ran, seen, row, folder, log, stream>>

-----------------------------------------------------------------------------
(* Other users of the runs *)

\* archive or restore; the UPDATE names the one column.
SetArchived(n, archived) ==
  /\ Exists(n)
  /\ row[n].archived # archived
  /\ row' = [row EXCEPT ![n].archived = archived]
  /\ UNCHANGED <<pc, run, result, children, ran, seen, folder, log, stream>>

\* stream gets the run and polls it while its status is a running one.
StartStream(v, n) ==
  /\ stream[v] = None
  /\ Exists(n)
  /\ stream' = [stream EXCEPT ![v] = n]
  /\ UNCHANGED <<pc, run, result, children, ran, seen, row, folder, log>>

EndStream(v) ==
  /\ stream[v] # None
  /\ row[stream[v]].status # "NotStarted"
  /\ stream' = [stream EXCEPT ![v] = None]
  /\ UNCHANGED <<pc, run, result, children, ran, seen, row, folder, log>>

-----------------------------------------------------------------------------
SubmitterStep(s) ==
  \/ Chain(s) \/ EnterLogger(s) \/ Prepare(s) \/ DumpRun(s)
  \/ \E r \in Results \ {"none"} : BulkEnds(s, r)
  \/ Dump(s) \/ DumpRaises(s) \/ GetRow(s) \/ UpdateRow(s)

Next ==
  \/ \E s \in Submitters :
       \/ \E n \in Names, ref \in Names \cup {None} : Submit(s, n, ref)
       \/ SubmitterStep(s)
       \/ ChildStarts(s) \/ ChildRunsLine(s)
       \/ Crash(s)
  \/ \E n \in Names, archived \in BOOLEAN : SetArchived(n, archived)
  \/ \E v \in Viewers : (\E n \in Names : StartStream(v, n)) \/ EndStream(v)

Spec == Init /\ [][Next]_vars

\* A submitter that does not crash gets through: LinePool shows that exec_bulk ends.
\* A viewer polls every ten seconds.
Fairness ==
  /\ \A s \in Submitters : WF_vars(SubmitterStep(s))
  /\ \A v \in Viewers : WF_vars(EndStream(v))

FairSpec == Spec /\ Fairness

-----------------------------------------------------------------------------
(* Properties *)

RowType ==
  [status : {"none", "NotStarted", "Completed", "Failed"},
   owner : Submitters \cup {None}, archived : BOOLEAN]

\* Every variable has its type.
TypeOK ==
  /\ pc \in [Submitters -> PCs]
  /\ run \in [Submitters -> [name : Names \cup {None}, ref : Names \cup {None}]]
  /\ result \in [Submitters -> Results]
  /\ children \in [Submitters -> 0 .. MaxChildren]
  /\ ran \in [Submitters -> BOOLEAN]
  /\ seen \in [Submitters -> RowType]
  /\ row \in [Names -> RowType]
  /\ folder \in [Names -> [Files -> Submitters \cup {None}]]
  /\ log \in [Names -> SUBSET Entries]
  /\ stream \in [Viewers -> Names \cup {None}]

\* A run shown as Completed has all of its files, written by the submission that
\* created it, wherever submitters crash or fail: the status is the last thing written.
CompletedIsWhole ==
  \A n \in Names : row[n].status = "Completed" =>
    \A f \in {"snapshot", "inputs", "outputs", "metrics"} : folder[n][f] = row[n].owner

\* But for the log, a submission leaves nothing in the folder of a run that another
\* one created under the same name, however the two interleave.
FilesOfOwner ==
  \A n \in Names, f \in Files : folder[n][f] \in {None, row[n].owner}

\* The log of a run whose lines ran has what they logged, unless something emptied it
\* afterwards: another child that started late, or a submission of the same name.
LineLogsKept ==
  \A s \in Submitters : pc[s] = "returned" /\ result[s] = "ok" =>
    \/ <<s, "line">> \in log[Name(s)]
    \/ children[s] > 1
    \/ \E other \in Submitters \ {s} : Name(other) = Name(s)

\* A run's row is created once and its final status is final, whoever else submits
\* a run of that name.
FinalStatusIsFinal ==
  [][\A n \in Names :
       /\ Exists(n) => row'[n].owner = row[n].owner
       /\ row[n].status \in {"Completed", "Failed"} => row'[n].status = row[n].status]_vars

\* The final update of a run undoes no archive or restore that came between its
\* reading the row and its writing it.
UpdateKeepsEdits ==
  [][\A s \in Submitters : pc[s] = "update" /\ pc'[s] # "update" =>
       row'[Name(s)].archived = row[Name(s)].archived]_vars

\* Streaming a run ends ("stream the run until it's finished", run-and-evaluate-a-
\* flow.md), unless its submitter went away without updating the status.
Abandoned(n) == row[n].status = "NotStarted" /\ pc[row[n].owner] \in {"raised", "crashed"}
StreamEnds ==
  \A v \in Viewers, n \in Names :
    stream[v] = n ~> stream[v] = None \/ Abandoned(n)

\* What _submit_bulk_run says of a user error: "won't raise the exception since it's
\* already included in run object".
UserErrorInRun ==
  \A s \in Submitters : pc[s] = "returned" /\ result[s] = "user error" =>
    folder[Name(s)]["exception"] = s
=============================================================================
