# A TLA+ model of prompt flow

This directory specifies, model-checks and proves parts of *prompt flow*
(`src/src/promptflow/promptflow`, written `pf/` below): a Python program that executes
"flows", directed acyclic graphs of tools, over the lines of a data file. Everything is
translated from the Python source; the lines each definition stands for are in
`PROJECT.json` under `map`.

## 1. The system

### Components

| Component | Source | State it keeps | Operations |
|---|---|---|---|
| **Node scheduling** | `pf/executor/_flow_nodes_scheduler.py`, `_dag_manager.py` | pending nodes, outputs of completed nodes, `future_to_node`, a thread pool's work queue | `execute`, `pop_ready_nodes`, `complete_nodes`; threads running tools |
| **Flow validation** | `pf/executor/flow_validator.py` | the nodes picked so far | checks names and references, orders the nodes, rejects cycles, drops outputs of reduce nodes |
| **Line process pool** | `pf/executor/_line_execution_process_pool.py` | a task queue, per worker thread a child process with two queues, the result list, two progress dictionaries, the run storage | `run`; the worker loop; `exec_line_for_queue` in the children |
| **Node invocation**: run tracker, execution context, tracer, log manager | `pf/_core/` | run records per run id, per thread the active tracer with its stack of traces and the log context, for the process `sys.stdout` | `invoke_tool_with_cache`, `start_*_run`, `end_run`, `persist_*`, entering and leaving the log manager |
| **Flow executor, batch lines** | `pf/executor/flow_executor.py`, with `load_*` and `dump_*` of `_local_storage_operations.py` | the validated flow, the batch, its results | `exec_bulk`, `exec_line`, `_exec_aggregation`, `validate_and_apply_inputs_mapping`, `get_details` |
| **Run submission** | `pf/_sdk/operations/_run_submitter.py`, `_run_operations.py`, `_local_storage_operations.py`, `pf/_sdk/_orm/run_info.py` | a row per run, a folder per run (snapshot, inputs, outputs, metrics, exception, log) | `submit`, `update`, `archive`, `restore`, `stream`, the `dump_*` functions |
| **Management database** | `pf/_sdk/_orm/session.py`, `retry.py` | one session maker per process, schema versions | open, migrate, retry |
| **Encryption key** | `pf/_sdk/_utils.py` | a cached key, a lock, the keyring | `get_encryption_key` |
| **Serving** | `pf/_sdk/_serving/` | one executor and the working directory, shared by request threads | building the executor, `score`, choosing the type of the answer |
| **Logging** | `pf/_utils/logger_utils.py`, `thread_utils.py` | a process-global stack of log contexts | enter, exit, repeated messages |
| Contracts, tool loading, connections, CLI, Azure client, built-in tools | `pf/contracts`, `pf/_core/tool*`, `pf/_sdk/entities`, `pf/_cli`, `pf/azure`, `promptflow-tools` | documents and single rows | parsing, formatting, calls of services |

### How they interact

`pf.run` makes a `Run` and hands it to a `RunSubmitter`, which enters the run's logger,
prepares an executor and the data, inserts the run's row (`NotStarted`), and calls
`FlowExecutor.exec_bulk`. That splits the batch over the **line process pool**: threads in
the parent own child processes and talk to them by queues. A child runs one line at a time:
`exec_line` asks the **node scheduler** for the normal nodes, which run in a thread pool, and
puts every run record on the queue from which the parent writes it to the run's folder.
Each of the scheduler's threads goes through **node invocation**, which records, traces and logs
what the tool does. After the lines, the parent runs the reduce ("aggregation") nodes with the
scheduler as well. The flow an executor works on has been through **flow validation**. The
**serving application** calls `exec_line` of one executor from many request threads. The submitter
then dumps the files and updates the row. Other processes poll the row
(`stream`), archive it, or take its outputs as the data of a run of their own.

### What is hard, and what makes it correct

* *Node scheduling*: results are collected by one thread while others run tools and read the
  dictionary of outputs; an `Exception` cancels what has not started, a `SystemExit` does not.
  Correct when a node finds all of its references, runs once, when an error leaves only after
  the pool is idle, and when the call ends.
* *Line pool*: children may hang, die, or answer at the moment they are given up; the queue's
  feeder thread pickles records after they were put, in the state they have by then; the
  storage may raise. Correct when each line gets one result, the storage agrees with it,
  and the batch ends without leaving children behind.
* *Run submission*: two submitters may choose one name, a submitter may crash between any two
  writes, and children share the run's log. Correct when a `Completed` run is whole, its
  files have one author, its status is final and references read whole runs.
* *Batch lines*: values of a line travel through lists that are sorted, padded, stripped of
  their line numbers and put side by side by position. Correct when what is put together
  belongs to one line, whatever the data looks like, whichever lines fail and in whatever order
  they finish.
* *Management database*: processes with different SDKs open one database and migrate it in
  several transactions. Correct when no run and no column is lost, open sessions keep their
  columns, and a crash leaves a database that can be opened.
* *Encryption key*: processes race to generate the one key. Correct when there is one, no
  secret is encrypted with another, and every call gets through.
* *Run edits*: a decorator repeats an operation that changed its object before it failed.
  Correct when an edit that returns took effect and touched only its columns.
* *Flow validation*: nodes come in the file's order and refer to each other in inputs and in skip
  configurations. Correct when the order is topological and complete, and when a flow is refused
  as circular exactly when it is.
* *Node invocation*: overlapping calls of `exec_line` share the log manager and `sys.stdout`,
  threads carry context variables from one node to the next, and tools may call tools, raise,
  be left by `SystemExit`, or break the tracing or the record. Correct when records say how the tool
  ended, logs and traces belong to the node they are filed under, and a thread starts its next
  node clean.
* *Serving*: the first requests race to build the executor and set the working directory of the
  process; generators can be read once, and a skipped node hands on that of another. Correct when
  the executor in place can serve and stream, the process comes back to its directory, and an answer
  has the type asked for and the text that was produced.
* *Logging*: a process-global stack of log contexts. It is not modelled yet; see the plan.

All hazards, each with its line and the properties aimed at it, are in `PROJECT.json` under
`hazards`.

## 2. The modules

| Module | What it is |
|---|---|
| `FlowGraph` | flows as the validator leaves them: nodes by position, references, reduce nodes, and the two stages (`line`, `aggregation`) in which the scheduler is called |
| `DagExecution` | abstract specification: a node starts after its references finished; the call returns when all finished, raises after a failure with nothing running |
| `NodeScheduler` | one call of `FlowNodesScheduler.execute` with `DAGManager` and the pool's threads; `ImplementsDagExecution` is the refinement |
| `NodeScheduler_proofs` | the theorems about `NodeScheduler` |
| `FlowValidation`, `FlowValidation_proofs` | the validator on a flow as the file has it, and the theorems about it; what it lets through is a flow in the sense of `FlowGraph` |
| `NodeInvocation`, `NodeInvocation_proofs` | overlapping calls of `exec_line`, their threads, and the tools those invoke; the theorems about them |
| `BulkExecution` | abstract specification: every line gets one final answer; the call returns when all have one, or raises |
| `LinePool` | one call of `LineExecutionProcessPool.run`: workers, children, feeders, storage; `ImplementsBulkExecution` is the refinement |
| `LinePool_proofs` | the theorems about `LinePool` |
| `RunSubmission`, `RunSubmission_proofs` | submitters, rows, folders, logs and viewers of batch runs, and the theorems about them |
| `BatchLines`, `BatchLines_proofs` | a batch run seen by its lines: merge, execution, aggregation, storing, details, and the run that evaluates it; the theorems about it |
| `LocalStore` | the processes of one machine, which `DbMigration` and `EncryptionKey` are about |
| `DbMigration` | processes with different SDKs opening the management database |
| `EncryptionKey` | processes calling `get_encryption_key` |
| `RunEdits` | editors of one row under `sqlite_retry` |
| `LocalStore_proofs` | the theorems about `DbMigration`, `EncryptionKey` and `RunEdits` |
| `Serving`, `Serving_proofs` | requests to the serving application, and the theorems about them |
| `MCNodeScheduler`, `MCLinePool`, `MCFlowValidation`, `MCNodeInvocation`, `MCServing`, `MCBatchLines`, `MCDbMigration`, `MCRunEdits` | instances for TLC: sets of flows and data files, versions of SDKs, symmetries; the other two are instantiated by their `.cfg` alone |

Each module has the operators named `Mutant...` beside the definition they would replace:
they are the plausible bugs (a dropped guard, a missing reset) with which each property was
shown to be able to fail. Nothing refers to them.

### NodeScheduler

A future is identified with its node. `pc` is the place of the main thread in `execute`: `pop`
(`pop_ready_nodes`), `submit` (the loop of `_submit_nodes` and the loop's test), `wait`, `collect`
(`_collect_outputs` and `complete_nodes`), `cancel` (the except block), `exit` (the end of the
`with` block, where `ThreadPoolExecutor.__exit__` waits for the threads). `pending`, `outputs`,
`inFlight` are `_pending_nodes`, the keys of `_completed_nodes_outputs` and of `future_to_node`. The
first submission passes a fresh empty dict and the later ones the manager's own one (`dict`,
`given`), which the main thread goes on changing: what a node sees is what the dict holds *when it
looks*. What a tool computes is abstracted to returning, raising an `Exception` (the future is
`raised`) or leaving by what is none (`exited`); a skipped node returns. `CollectRaises` goes
through the cancel loop, `CollectExits` straight to the end of the `with` block, whose threads then
run all that is queued. Reading a reference that is not there would disable `NodeReturns`;
`InputsAvailable` says it does not happen.

The tool on a thread is what `NodeInvocation` models; here only how it ends. For the
aggregation stage, `Refs` keeps only the references between reduce nodes among the
inputs, because the executor has replaced the others by the collected values; it keeps all of
the skip configuration, because the executor replaces nothing there.

### FlowValidation

A flow is what the file says: names by place, which may repeat, and the names that inputs, skip
configurations and outputs refer to. `pc` is the check under way or the error that is raised.
`PickNode` is one round of the loop in `_ensure_nodes_order`: `Available` is what the generator of
`_get_available_nodes` would yield, of which `next` takes the first. `CheckOutputs` refuses an
output that is empty or that refers to an unknown node or an unknown input of the flow, and drops
the outputs of reduce nodes; of outputs that are no nodes' (`otherOutputs`) only the kind is kept.
`OrderIsTopological` translates the result (`Validated`) into a flow record of `FlowGraph` and says
that it satisfies `IsFlow` and `IsOrdered`, the assumptions of `NodeScheduler`: this is the link
between the two modules.

### NodeInvocation

`callPc` follows a call through the log manager's `with` block: `__enter__` saves and replaces
`sys.stdout` in two steps, `__exit__` loads and stores in two; all calls share `prevStdout`.
`node[t]` is the node on pool thread `t`, `codeStack[t]` the calls of tools under way in it;
`tracer[t]` and `logNode[t]` are the context variables the thread keeps between nodes. Node runs
belong to a call, threads too (each call makes its own pool). A tool is arbitrary code, hence
`PrintLine`, `CallApi`, `CallTool` and the endings in any order within `MaxPrints` and `MaxInner`.
`EndNode` is the whole epilogue (`Tracer.pop`, `end_tracing`, `end_run`, `persist_node_run`);
`EndRunRaises` is the same when `end_run` raises in between, and `ToolExits` when the tool is left
by what is no `Exception`, which passes the except clause. Three actions are the ways in which the
tracing raises inside the except clause, so that `end_run` is not reached and the node is
`untraced`: `PushRaises` (`push_tool` raised inside the try, and `Tracer.pop` fails on the empty
stack of the new tracer, which stays), `RefusalRaises` (the same on a node that was refused, whose
error finds no open trace or cannot be represented) and `TraceRaises`. `LineEnds` is the end of
`_exec` with its finally clause. The caller of a trace (`by`) and what was written to it (`holds`)
are recorded so that properties can compare the tree that was kept with the calls that were made.

### Serving

`pc[r]` follows request `r` through `init_executor_if_not_exist` (`connections` to `enable`) and
`score` (`score`, `exec`). Executors are known by the request that built them. `cwd` is the working
directory of the process, a directory being the server's own, the flow's, or the temporary copy a
request made because the flow has additional includes. `AssignExecutor`, `SetFlow` and
`EnableStreaming` are apart because other requests look in between; `EnableStreaming` works on the
executor the application has *by then*. `Execute` runs the line on the executor the request picked,
reads the generators (`Joined`) and chooses the type of the answer (`ResponseType`). Which nodes are
skipped is `source`: it says of each node which one made its value, since a skipped node may return
the value of another, a generator included, as the same object (`Sources`). `Wrapped` looks at
inputs and outputs only, as the code does, so a stream that is returned by a skipped node has two
holders. `early` and `together` are history: requests that picked an executor while one was being
set up, and requests that loaded the flow at the same time.

### LinePool

`worker[w]` is the place of worker thread `w` in `_timeout_process_wrapper`, `child[w]` the
state of its process with the status and end time of the line's run record, `buffer[w]` what
the child has put and the feeder has not pickled. `Pickled` gives a message the record's
state at that later moment, so that `start_flow_run`'s record may arrive as `Completed`, and a
record may be pickled between the two assignments of `end_run`. `ReplaceChild` is
`end_process` and `_new_process` together: nobody observes the moment between them. The two
progress dictionaries are written where the code writes them, after the result. A storage that
raises ends the worker thread (`PersistRaises`, `FailLineRaises`) and makes `run` raise; so does
storing a node's record that was pickled before its end time was set, whatever the storage.
`AnswerOf` gives a line with two results an answer `BulkExecution` does not know, so that the
refinement implies one result per line.
Time is abstracted: a waiting worker may give up at any moment.

### RunSubmission

`pc[s]` follows `_run_bulk` and `_submit_bulk_run`. A row has a status, an owner (which
submission inserted it; the code does not record it, the properties need it) and the archived
flag. `folder[n][f]` is who wrote file `f` of run `n` last, `log[n]` which entries are in its
log. `row[n].status = "none"` means there is no row. `EnterLogger` and `ChildStarts` empty the
log, as `LoggerOperations.__enter__` does in the parent and in each child. `Written` says which
dump writes under which result. What exec_bulk does inside is `LinePool`'s matter: here it
starts children, lines write to the log, and it returns or raises. `Running` is not a status of
a local run: the code writes `NotStarted`, then `Completed` or `Failed`.

### BatchLines

A row stands for a dict: its `line_number` (or `None`), whose row it is (`of`), and whether it
holds values or the prompt `(Failed)`. One behaviour is one batch run: `MapInputs`
merges the data, lines finish in any order and may fail (`FinishLine`; which results
`LinePool` delivers), `BulkEnds` sorts the results and picks the values for the reduce nodes,
and then somebody reads: `GetDetails`, or a run that takes this one as its reference
(`Evaluate`), with or without data. `Merge` is `_merge_input_dicts_by_line`: the order in which
its dict first sees the lines, a later row replacing an earlier one, incomplete lines left out.
`LoadOutputs` is `load_outputs` with `_outputs_padding`; it drops the line numbers, while
`LoadInputs` keeps the column, so that an evaluation merges a source without numbers with one
that has them. A data file has line numbers in all of its rows or in none, since a frame is
read from it. What is stored is `batch` and `results`; that the files are there is
`RunSubmission`'s matter. What the code does by sorting and filtering is written with two
operators, `InOrder` (a finite set of numbers as an ascending sequence) and `Picked` (the elements at
some positions), of which the prover can be told what they return.

### DbMigration

A schema is its version, which is also the measure of its columns: a later one has all columns
of an earlier one. `columns` is the table's true version, `recorded` the one in `schema_info`.
The steps are the transactions: `CreateTable` or `Migrate`, then `RecordVersion`; what a
migration reads beforehand (`plan`) is a step of its own. `legacy` holds the versions whose
legacy table exists. `Exit` at any place is a crash; the file lock is then freed by the system.
Opening fails in two ways, after each of which the process may try again: `MigrationFails` when the
name of the legacy table is taken or the copy has too many columns (`blocked`), and
`StatementFails` when any statement on the way raises this time, such as `database is locked`
(`raised`). The transactions that were committed stay. A `SELECT` of the version that fails is no
such error, as `get_db_schema_version` answers 0 then (`VersionsRead`); `misread` collects the
versions that were missed in this way.

### EncryptionKey

A key is who generated it and in which call. `cached[p]` is the global of process `p`, `keyring`
what all share. Looking into the keyring, opening the lock file and saving may raise.
`RereadKeyring` keeps the lock if it finds a key, since the code returns before its `try`, and so
does `RereadRaises`; `stranded` are the living processes this happened to. `FileLock` counts: the
finally clause of a later call of such a process does not free it (`Released`), only `EndProcess`
does. `unsaved` collects the keys whose save raised, which stay in their process's cache.

### RunEdits

`object[e]` is editor `e`'s copy of the row. `EditObject` and `Commit` are apart because the
statement between them may fail; `Retry` calls the operation again on the *changed* object, and
`Skip` is the early return of `archive` and `restore` when the flag is already set. `left` is
`mtries`, `attempts` and `applied` are history for the properties.

## 3. The runs

| Run | Instance | Shows |
|---|---|---|
| `scheduler` | every validated flow of three nodes, both stages, and every graph of four normal nodes; concurrency 3 cut to 2 by the cap | `InputsAvailable`, `SpinsOnlyIfUnsatisfiable`, `NothingStartsAfterError`, `EveryStepAdvances` (no step is in vain: the `while` loop never turns without having collected something), `ImplementsDagExecution`, `Terminates` |
| `validator` | every graph of three nodes in every order of the file, skip configurations, unknown and repeated names, outputs at fault | `OrderIsTopological`, `RejectsOnlyCycles` |
| `invocation` | 2 calls, 2 threads, 3 nodes | records, logs and traces are those of the node they are filed under, a thread starts its next node clean, `sys.stdout` comes back after a call that was alone |
| `pool_safety` | 2 workers, 2 lines, failing storage | no line lost, stored records agree with results, no child left, `BulkExecution` implemented (which includes one result per line) |
| `pool_liveness` | 1 worker, 3 lines | the batch ends whatever the children do |
| `submission` | 2 names, 2 submitters, 1 viewer, crashes and failing dumps | `CompletedIsWhole`, `FilesOfOwner`, `LineLogsKept`, `FinalStatusIsFinal`, `UpdateKeepsEdits`; streaming ends unless the submitter went away |
| `submission_error` | 1 submitter | **violated**: a user error of `exec_bulk` is stored nowhere |
| `lines` | files of up to 3 rows with numbers in 0..2, or without, in every order | `AggregationAligned`, `DetailsAligned`, `EvaluationAligned`, `EvaluationIsJoin` |
| `migration` | processes with three schema versions, 2 runs, crashes and failing statements | `RowsKept`, `SessionsFit`, `ColumnsKept`, `BlockedWithCause` |
| `key` | 3 processes, 2 calls each, a keyring that may raise | `SecretsReadable`; a call gets through, unless a process returned with the lock |
| `edits` | 2 editors, 3 tries | `EditTakesEffectUnlessRetried` |
| `serving` | 3 requests, 6 flows, of which 2 with a node that may be skipped, 3 Accept headers, errors at every stage | `ReadyWhenQuiet`, `WorkingDirKept`, `TextAsProduced`, `AnswerAsAsked` |

`invocation` checks its module's `TypeOK` as well, of which that `sys.stdout` is never set to `None`
is a part. Every `TypeOK` is proved (section 4); `BatchLines` has none.

**Bounds.** Three nodes are enough for every shape the scheduler distinguishes: a chain, a fork, a
join, two nodes of one batch of which one fails, a queue behind two threads; four nodes add diamonds
and a full queue with a node overtaken. Two lines and two workers give a worker that replaces its
child while the other finishes, a worker that takes both lines, and a late answer beside a next
line; the third line of the liveness run gives one worker two replacements. Two names and two
submitters give a collision, a reference, and both at once. `MaxChildren` bounds the children a
batch starts: one is enough, since what a second one does to the log is the case `LineLogsKept`
excuses; the theorem covers any number. Three nodes in a file give every order that references and
skip configurations can ask for, and cycles of one, two and three nodes beside nodes that are fine.
In `invocation` the two calls interleave in the log manager in every way; the first has one thread
for two nodes, so that what one node leaves on the thread meets the next; two inner calls
(`MaxInner`) give a nested tool with an API call in it or beside it, and one line per node
(`MaxPrints`) tells whose buffer it got to. Of these only two happen in one behaviour (`FewSteps`, a
constraint of the run): a call within a call, a line beside a call, or the lines of two nodes; the
theorems have no such bound. Three requests give one that builds an executor, one that
replaces it and one that picks in between; they are interchangeable. The six flows have outputs that
share a stream, have one each, or lose it to a node, with and without a node that is skipped in
between; one of them is copied when it is loaded. The headers are none, a stream, and a stream or
JSON; one that names neither is like the second with no stream to give. Three rows give every order,
a line twice, a gap, a failed line between two others, and sources that overlap in part. Three
versions are needed for a migration in two steps and for a process that is too old for both; a
version is never reached in the same way twice, so nothing else bounds that instance. Two calls let
a process use its cache after a failed save; three processes put one behind another that waits.
`Tries` is the code's 3. `Workers` and `Editors` are interchangeable; the runs with safety
properties only use that symmetry. A reading ends a behaviour of `BatchLines`, since it changes
nothing that a second one could see. Deadlock is not checked where the modelled call ends, every
submitter has submitted, the calls are used up, or a run was read back; the properties `Terminates`,
`RunTerminates`, `StreamEnds` and `CallGetsThrough` say instead that nothing stops before its end.

**Fairness.** *Scheduler*: the interpreter schedules every thread, and tools return or raise
in the end. *Pool*: worker threads are scheduled and a line's timeout expires, since the loop
compares clocks; nothing at all is assumed of children and feeders. *Submission*: a submitter
that does not crash gets through, which is what `pool_liveness` shows of the part that could
hang, and a viewer polls every ten seconds. *Key*: processes are scheduled and the keyring
answers in the end, or raises at any time (`CallRaises` and `RereadRaises` are not needed for
progress); `FileLock.acquire` polls without a timeout, and with a
bounded number of calls a free lock is not snatched for ever.

## 4. What is proved

`NodeScheduler_proofs` proves, for every set of flows and every concurrency, and with no
assumptions but `FlowsAssumption` (the references of a flow point backwards, which is what
`_ensure_nodes_order` establishes) and `ConcurrencyAssumption` (both limits are positive):

* `TypeCorrect`, `NoMissingInput` (`InputsAvailable`), `NoSpin` (`SpinsOnlyIfUnsatisfiable`),
  `QuiescentEnd` (`EndsQuiescent`), `AtMostOnce` (`RunsOnce`), `NoLateStart`
  (`NothingStartsAfterError`) and `Implementation` (`ImplementsDagExecution`);
* `NoEmptyCollection`, `NoStepInVain` (`EveryStepAdvances`) and `AlwaysCanStep`.

None of the invariants is inductive: that a running node finds its references depends on how
the node left `pending`, and that the pool is idle at the end depends on which futures the
cancel loop has passed. `IInv` adds what is needed: `NodesAccounted` (a node is pending,
ready, in flight or collected, and has a future exactly in the last two cases),
`ReferencesCollected` (what left `pending` had its references collected, and has the empty dict
only if it has none), `QueueHoldsQueued` (a queued future still has its work item, so an empty
queue means none is left), and `MainThreadInv` (what each place of the main thread implies).
There is one lemma per action. `NoLateStart` speaks of a node's `Exception`, after which the cancel
loop leaves nothing queued; of an error that passes that loop by (section 5) only `QuiescentEnd` is
left, that `execute` raises with the pool idle, which is also what the refinement asks for.

`NoSpin` is the argument why the `while` loop cannot turn forever on no futures: when the main
thread waits with nothing in flight, take the first pending node (`FirstExists`, by
well-foundedness). Its references point to earlier nodes, which are not pending, hence
collected; so it is ready, against `MainThreadInv`, unless a reference lies outside the call.

`NoStepInVain` is the part of termination that needs no fairness. `Advances` orders the states by
what is left: the phase of `execute`, then the nodes to submit, to end and to collect (`Todo`), the
work items, the futures to cancel, and the place in the loop. All of these are finite, so a call
whose references can be satisfied takes only finitely many steps. The one step that could be in
vain is from `collect` back to `pop`; `NoEmptyCollection` says that something was collected then.
`AlwaysCanStep` says that until the call returns or raises some guard holds, of the main thread or
of the pool: a queued item finds a free thread when no tool runs. That scheduled threads then reach
the end is what `Terminates` checks.

`LocalStore_proofs` is about the three things that processes of one machine share; the names of the
three modules are chosen so that it can extend them all. Of `DbMigration` it proves all the
properties of `migration` (`NoRunLost`, `SessionsWork`, `NoColumnLost`, `FailureHasCause`) for any
number of processes, versions and runs, from `DbAssumption` (versions are positive) and
`ProcessAssumption` (`None` is no process). The invariant adds `LockHeld` (a process that opens the
database holds the lock, so there is one), `PlanIsCurrent` (what the migrating process has read
still holds, but for a version whose `SELECT` failed: nobody else can change the table, though
others insert into it), `TableFits` (from its migration on a process finds its own columns) and
`VersionsWithinTable` (a legacy table is older than the table, unless a version was missed).
`FailureHasCause` (`BlockedWithCause`) says that a migration which fails for what it finds, and not
because a statement fails this time, does so only on a table whose version was not recorded or was
once missed. `DatabaseLockIsFreed` says that whoever holds the lock is opening the database, so that
nobody waits for a process that failed or died. Without `PlanIsCurrent` the copy could lose columns;
without `LockHeld` it is not inductive.

Of `EncryptionKey` it proves `SecretsReadable` and `KeyIsKept` for any number of processes and
calls. The invariant adds `KeyLockHeld`, `NoKeyYet` (while a process generates and saves a key, the
keyring is empty: it looked under the lock) and `CachedKeys` (a cached key is the keyring's, one
about to be saved, or one whose save raised). `LockIsNotLost` says who may hold the lock: a process
that is about to look, generate or save, or a living one whose second look ended its call
(`stranded`, see section 5); every step that frees the lock or leaves it alone is treated in
`LockUntouched`.

Of `RunEdits` it proves `EditTakesEffectUnlessRetried`, `RaisesAfterAllTries` and
`EditsKeepOtherColumns`, and that a call ends however long the database stays locked
(`EditCallsEnd`, by the tries left and the place in the method), for any number of editors and
tries, from `EditAssumption` (at least one try,
`Nobody` is no editor). The invariant adds `TriesCounted` (tries made and tries left add up) and
`FreshObject` (before its first try an object is as it was read, so an early return means the row had
the value).

`FlowValidation_proofs` proves `OrderIsTopological` and `RejectsOnlyCycles` for every set of flows
with any number of nodes, from `RawFlowsAssumption` (the shape of a flow record). The invariant
adds `PickedOnce`, `DependenciesFirst` (whatever a picked node depends on was picked before it) and
`ChecksPassed`. That as many picked nodes as there are nodes are all the nodes is a counting
argument (`AllPickedMeansAll`, by injections between finite sets); that an order excludes cycles
takes the first picked node of a would-be cycle (`FirstExists`). `OrderIsKept` says that a flow whose
file is in order is left as it is, since the next node of the file is always the first available
one (`NextIsPicked`); `ValidationAdvances` and `VerdictIsFound` that the loop that orders the nodes
ends: every step ends a check or picks one of the nodes left, and until there is a verdict a step
can be taken.

`RunSubmission_proofs` proves all safety and action properties of `submission` for any number of
submitters, names, viewers and children, from `SubmissionAssumption` (`None` is no name and no
submitter; a batch may start a child). For the rows and files the invariant adds
`OwnsRow` (a submitter past its insert owns a row that is `NotStarted`), `NoOwnerWithoutRow` and
`WrittenSoFar` (which files a submitter has written by the time it is where it is). Most actions
write no row, no file and get past no dump: they are treated together (`Onward`, `QuietStep`),
and the four that do have a lemma each. For the log it adds that a line ran only in a child.
For the viewers it proves who they wait for: `OwnersAreAtWork` (a run that is `NotStarted` has a
submitter that is at work on it, was left by an exception or crashed), from which `StreamsAreFed`
follows (a streamed run is finished, abandoned, or has a submitter at work), and
`SubmittersGoForward` (every step takes a submitter to a later place). These are the safety part of
`StreamEnds`.

`Serving_proofs` proves all properties of `serving` for any number of requests, every flow and every
Accept header, from `ServingAssumption` (the shape of flows) and `NoRequestAssumption`. `Setup` says
that the executor in place is ready, or some request that has not failed is still on the way to make
it so; it is what makes the race of builders harmless in the end. `Dirs` says where a request that
loads the flow alone finds the process and sends it back to. `OnlyWholeExecutorsServe` adds that no
line runs on an executor whose loading raised, however many requests build one at the same time.
`Answers` needs no strengthening but `Setup`, since an answer never changes; it is about every run
of the flow, in which any nodes with a skip condition are skipped and any values that nodes refer to
have been read.

`LinePool_proofs` proves, for any number of lines, every set of at least one and at most as many
workers, and a storage that may or may not fail (`PoolAssumption`):

* `TypeCorrect`, `RecordsAgree` (`RecordMatchesResult`), `NodeRecordsKept` (`NodeRecordsStored`),
  `ChildrenGone` (`NoChildLeft`), `AllAnswered` (a call that returns has a result for every line)
  and `Implementation` (`ImplementsBulkExecution`).

The invariant has two halves. `Accounts` says where each line is: the queue holds a final segment
of them in order, a line that was taken is held by exactly one worker or has its one result.
`PipeInv` says what can be between a worker and its child. While the worker does not wait, nothing:
a child that ended its line has been heard out, one that was given up has been replaced. While it
waits, every message is of its line, the result is the last of them, the flow record right before it
has its status, and a node's record is on its way or stored before the line is `Completed`. The
delicate part is that a record is pickled after it was put: a record still in the buffer has the
status of the child's record *then*, so the invariant follows the record from `end_run` to the
feeder (`FinalRecordSent`). Of a worker that gave up its line nothing is said, since it reads
nothing before it replaces the child; this is why a late answer does no harm. The steps of a child
disturb only its own pipe (`ChildStepFrame`), those of a worker only its own line
(`WorkerStepFrame`), and `Accounts` rests on the three kinds of steps that move a line: to a worker,
to the results, and out of the worker's hands.
The refinement takes an answer from `AnswerOf`; that it stays is `OneResultPerLine`.

`NoStepInVain` is the pool's measure: a step takes a line from the queue, or ends `run`, or brings
one worker closer to the end of its line and leaves the others alone (`Closer`, `Alone`). Within a
line the worker only moves on; while it waits, its child takes the line or moves on, or a message
does, which counts twice until it is pickled. A replaced child starts over, but then its worker has
moved on. So the lines of a batch bound the steps, timeouts and lost children included.

`NodeInvocation_proofs` proves all properties of `invocation` for any number of calls, threads and
nodes, and any numbers of inner calls and printed lines, from `InvocationAssumption` (threads and
nodes belong to calls, `None` is no node):

* `TypeCorrect`, `EveryRecordEnds` (`RecordsEnd`), `OwnLogs` (`LogsOfOwnNode`), `TracesAreTree`
  (`TraceTreeIsCallTree`), `CleanThreads` (`ThreadsLeftClean`) and `StdoutRestored`
  (`StdoutRestoredIfAlone`).

The properties speak of nodes that ended; the invariant says what holds on the way. A thread is
either idle and then `LeftClean`, or `Working` on a node that nobody else has (`OneThread`): the
tracer and the log context are this node's, its open traces are exactly the calls under way
(`Follows`, up to the first called tool that raises), and the writer has exactly the lines it
printed (`Prints`). `EndNode` turns `Follows` with one open trace into a finished tree, and `Prints`
of the buffer into `Prints` of the record. That an idle thread is clean needs the exceptions: a tool
left by `SystemExit` leaves its tracer, as does an except clause that raises while a trace is open
or none ever was, and a broken epilogue its log context; a node works only on a thread without a
tracer, and one that finds a tracer is refused and takes it away, unless its error cannot be popped.
For `sys.stdout` the invariant adds `WriterInPlace`, `SavedBefore` (what `__exit__` puts back was
saved) and `Alone`. Each action changes one thread and the node on it, or one call: `ThreadFrame`
and `CallFrame` dispose of all the others.

`BatchLines_proofs` proves all properties of `lines` for data files of any length, with any line
numbers or none, every order in which lines finish and every choice of failing ones, from
`DataAssumption` (all rows of a file have a number or none has; `None` is no number):

* `AggregationPairs` (`AggregationAligned`), `DetailsPairs` (`DetailsAligned`), `EvaluationPairs`
  (`EvaluationAligned`) and `EvaluationJoins` (`EvaluationIsJoin`).

The state of this model is simple, its data is not: the invariant only says that a batch has each
line once, that finished lines have one result each, that `results` and `aggregated` are made from
these, and that `view` is what would be read now. The work is in what the operators return.
`OneList` (a finite set of numbers has one ascending enumeration, by its first difference) and
`Ranks` (it has one, by counting how many of its numbers are up to each) give `InOrderLists`; from
these come `ByLineFacts` (sorting keeps the rows), `SameOrder` (two ascending lists of the same
lines go together position by position), `DenseOrder` (the lines 0, 1, ... are where their numbers
say) and `Merging` (a merge has each line that all sources have, once). `AggregationPairs` is
`SameOrder` of batch and results; `DenseFrame` says that padding and sorting put every line of a
dense run back at its place, failed ones as `(Failed)`, from which `DetailsPairs` and
`EvaluationPairs` follow; `EvaluationJoins` is `Merging` with `LastRow`. `FlattenSeq` of the
community modules is recursive; it is only used of at most three sources, for which its recursion is
unfolded (`FlattenIsJoin`).

Proved but not run, since the runs' properties or the theorems above imply what they say:
`EndsQuiescent`, `RunsOnce`, `KeyIsKept`, `RecordedWithinTable`, `RaisesAfterAllTries`,
`EditsKeepOtherColumns`, `EveryLineAnswered`, most type invariants, and the theorems named above
without a property in brackets. `PROJECT.json` lists the results; type
correctness and the inductive invariants they rest on are theorems of the same modules.

Only model-checked: `Terminates`, `RunTerminates`, `StreamEnds` and `CallGetsThrough`, since liveness
under fairness is out of the prover's reach. What is proved towards them is their safety part: that
no step is in vain, that what others wait for is held by somebody who can go on, and, for the
scheduler and the validator, that some guard always holds. That a measure which only falls reaches
its bottom is not proved. Every invariant and every action property that a passing run checks is
proved.

## 5. Findings

* `submission_error` (`_local_storage_operations.py:301`): `dump_exception` looks for errors in
  the bulk result, which is `None` exactly when `exec_bulk` raised; the submitter swallows user
  errors because they are "already included in run object". A failing reduce node leaves a
  `Failed` run with no error anywhere but in the log.

Other behaviours are built into the models as the code has them and limit what the properties
claim:

* Each child process enters a logger on the run's own log file and truncates it
  (`_local_storage_operations.py:81`), also one that starts late or replaces one that timed out, so
  that the logs of lines that ran are erased: hence the exceptions in `LineLogsKept`.
* The outputs lose their line numbers when they are loaded and `get_details` pairs columns by
  position (`_local_storage_operations.py:271`). With data whose own line numbers have a gap or are
  out of order a row shows the inputs of one line and the outputs of another; out-of-order data
  also makes the reduce nodes pair inputs and outputs of different lines
  (`flow_executor.py:354`): hence `Dense` and `Ascending` in the properties of `BatchLines`.
* The retry of `archive` and `restore` (`_orm/run_info.py:66`) finds the flag it has set itself and
  returns without writing: hence `EditTakesEffectUnlessRetried`.
* A tool left by `SystemExit` (or `CancelledError`) passes the except clause of
  `invoke_tool_with_cache` (`flow_execution_context.py:138`): the node's record stays `Running`, the
  tracer and the log context stay on the thread, and the next node there is refused and takes over
  the traces. The same happens when the except clause itself raises: `push_tool`
  (`flow_execution_context.py:124`) may raise on an input, and `Tracer.pop` then finds the empty
  stack of the new tracer, on which every later node of the thread fails alike: hence `NoEndRun` in
  `RecordsEnd` and `ThreadsLeftClean`. The finally clause of `_exec` (`flow_executor.py:633`) then
  fails to add up the API calls, and the stored record of the line stays `Running` too.
* The scheduler's except clause catches `Exception` (`_flow_nodes_scheduler.py:53`). A `SystemExit`
  that a tool left in its future passes it: nothing is cancelled, and the threads run all queued
  nodes before `execute` raises: hence `error \in In("raised")` in `NothingStartsAfterError`.
* `end_run` may raise after the tool returned (`run_tracker.py:303`): the record is persisted as
  `Running` without an end time. In the line pool such a record makes the storage raise.
* A called tool that raises leaves its trace on the stack (`flow_execution_context.py:86`); if its
  caller catches the error, outcomes are written to the wrong trace: hence `nestedError` in
  `TraceTreeIsCallTree`.
* Overlapping calls of `exec_line` share one log manager (`log_manager.py:40`): the first to leave
  takes the writer away from the other's tools, and the last one may leave `sys.stdout` redirected
  for good: hence `intruded` and `overlapped`.
* A request that picks its executor while one is set up may be answered without the stream it
  asked for (`app.py:64`), though `docs/how-to-guides/enable-streaming-mode.md` promises one: hence
  `early` in `AnswerAsAsked`.
* Requests that load the flow at once save each other's working directory (`context_utils.py:12`),
  and the process may end up in a directory that is gone: hence `together` in `WorkingDirKept`.
* A generator that an earlier output or another node has read comes out empty
  (`flow_executor.py:671`): hence the exceptions in `TextAsProduced`. A node that only the
  `skip.return` of another refers to is still made to stream (`contracts/flow.py:445` asks for
  inputs); if the other is skipped and an output as well (`_flow_nodes_scheduler.py:81`), two
  outputs hold one generator: the second is empty, or a client that asks for a stream gets the error
  for several of them.
* A call whose references lead out of it (a normal node that refers to a reduce node; a skip
  configuration of a reduce node that refers to a normal one) makes the scheduler spin for ever,
  and the validator accepts both: hence `Unsatisfiable` in `SpinsOnlyIfUnsatisfiable` and
  `Terminates`.
* A submitter that dies leaves its run `NotStarted`, and `stream` polls for ever: hence
  `Abandoned` in `StreamEnds`. A submission under a taken name empties the log of the run that
  has it (`_local_storage_operations.py:81`) before it learns of it: hence `FilesOfOwner` is about
  the other files.
* An evaluation takes the outputs of a referenced run for lines 0, 1, ... (`flow_executor.py:776`);
  if the run had lines 2 and 3 and line 2 failed, line 2 is evaluated with the outputs of line 3:
  hence `Dense` in `EvaluationAligned`.
* The run table and its version are written in two transactions (`session.py:148`, `:193`). After a
  crash between them later processes may fail to open the database: the legacy name is taken, or an
  older SDK takes the newer table for version 0. A failing `SELECT` of the version is taken for a
  missing one (`session.py:133`): a table that is up to date is then migrated again, and the name
  its legacy table needs at the next upgrade is taken. `BlockedWithCause` says that these are the
  only ways in which a database comes to refuse a process; any statement may also fail once.
* A process that finds a key at its second look, or to which the keyring raises there
  (`_sdk/_utils.py:169`), leaves `get_encryption_key` with the file lock held, and others wait for
  as long as it lives: hence `LockLeft` in `CallGetsThrough`. A key whose save raised stays in its
  process's cache and encrypts secrets nobody else can read: hence `unsaved` in `SecretsReadable`.

## 6. What is not modelled

* Progress messages, the memory estimate that bounds the worker count, and the logging of
  the pool; what a tool computes; the contents of records and files.
* An interrupt (Ctrl-C) of the main thread in `execute` or `run`.
* The pool's task queue is taken to deliver within the second `get` waits. A child killed in
  the middle of a write may leave a truncated message; the queues are thrown away with it.
* Which columns an input mapping picks, default values and the checks of types: the same for
  every line. Outputs that are null, which `fillna` shows as `(Failed)` too.
* `mgmt_db_rebase` and the customized encryption key, which only an unused export path sets; the
  connection table, which has one schema.
* A statement whose commit raised although it was committed; the retries of reading.
* The cache of node results: the executor takes its cache manager from the environment, and the
  one it gets there never finds anything. `sys.stderr`, which is treated as `sys.stdout` is; what
  the console gets. `load_and_exec_node`, which runs one node outside a flow.
* `resolve_flow_inputs_type` and `ensure_flow_inputs_type` of the validator, which convert values one
  by one. Swagger, health and the static pages of the serving application.
* The retries of tools, and log contexts: see the plan.
* Contracts, tool loading, connections, errors, swagger, the CLI and the built-in tools are
  sequential translation of documents or calls of services; the Azure client talks to a
  service that is not in the repository. Its REST client (`pf/azure/_restclient`) is generated code
  and most of the repository's lines, so that the share of all lines that is modelled stays small.

## 7. Plan

Done: `NodeScheduler`, `FlowValidation`, `NodeInvocation`, `LinePool`, `RunSubmission`, `BatchLines`,
`DbMigration`, `EncryptionKey`, `RunEdits`, `Serving`, with the proofs of section 4. Next, in this
order:

1. A composition of `RunSubmission` with `BulkExecution` in place of `BulkEnds`, and of
   `NodeScheduler` with `NodeInvocation`, in which the latter implements "a tool returns or raises".
2. `LogContext`: the stack of log contexts under threads and child processes.
3. `Retry`: the decorators of the OpenAI tools and of the utilities.
