------------------------------ MODULE LinePool ------------------------------
(***************************************************************************)
(* LineExecutionProcessPool (executor/_line_execution_process_pool.py):    *)
(* one call of run.  Worker threads take lines from a shared queue; each   *)
(* owns a child process, sends it one line at a time and reads its output  *)
(* queue until the line's result arrives or the line times out, in which   *)
(* case the worker writes a Failed result itself, kills the child and      *)
(* starts another with new queues.                                         *)
(*                                                                         *)
(* The child runs FlowExecutor.exec_line with a storage that puts every    *)
(* run record on the output queue.  Putting an object only buffers it: the *)
(* queue's feeder thread pickles it later, in the state it has by then.    *)
(* A child may hang or die at any point, and a result may fail to pickle.  *)
(*                                                                         *)
(* Time is abstracted: a line may time out whenever its worker waits.      *)
(***************************************************************************)
EXTENDS Naturals, Sequences, FiniteSets

CONSTANTS NLines,         \* number of lines of the batch
          Workers,        \* the worker threads: _n_process of them
          StorageMayFail  \* persisting a record may raise

\* _n_process is the worker count, cut down to the lines and the memory there are.
ASSUME PoolAssumption ==
  /\ NLines \in Nat
  /\ IsFiniteSet(Workers) /\ Cardinality(Workers) \in 1 .. NLines
  /\ StorageMayFail \in BOOLEAN

\* A line is its position in the batch; line numbers are distinct.
Lines == 1 .. NLines

VARIABLES
  taskQueue,   \* _inputs_queue
  worker,      \* where each worker thread is
  line,        \* the line each worker handles, 0 if none
  child,       \* each worker's child process and its flow run record
  inQueue,     \* the child's input queue
  buffer,      \* what the child has put and its feeder has not pickled
  outQueue,    \* what the worker can read
  results,     \* result_list
  stored,      \* the line record in the run storage
  storedNodes, \* lines with a node record in the run storage
  processing,  \* keys of _processing_idx
  completed,   \* keys of _completed_idx
  outcome      \* of run: running, returned or raised

poolVars == <<taskQueue, results, stored, storedNodes, processing, completed, outcome>>
childVars == <<child, inQueue, buffer, outQueue>>
vars == <<poolVars, worker, line, childVars>>

WorkerStates == {"get", "wait", "timedout", "kill", "mark", "pop", "exited", "died"}
ChildStates ==
  {"starting", "idle", "running", "ran", "ending", "ended", "persisted", "dead"}
Statuses == {"none", "Running", "Completed", "Failed"}
MessageKinds == {"flow", "node", "result"}

\* A child process: where it is, its line, and the line's FlowRunInfo, of which the
\* status and whether end_time is set matter.
NewChild == [pc |-> "starting", line |-> 0, status |-> "none", ended |-> FALSE]
DeadChild == [NewChild EXCEPT !.pc = "dead"]
Buffered(kind, l) == [kind |-> kind, line |-> l]

Init ==
  /\ taskQueue = [i \in Lines |-> i]
  /\ worker = [w \in Workers |-> "get"]
  /\ line = [w \in Workers |-> 0]
  /\ child = [w \in Workers |-> NewChild]
  /\ inQueue = [w \in Workers |-> <<>>]
  /\ buffer = [w \in Workers |-> <<>>]
  /\ outQueue = [w \in Workers |-> <<>>]
  /\ results = <<>>
  /\ stored = [l \in Lines |-> "none"]
  /\ storedNodes = {}
  /\ processing = {}
  /\ completed = {}
  /\ outcome = "running"

-----------------------------------------------------------------------------
(* The worker threads: _timeout_process_wrapper *)

\* task_queue.get, input_queue.put and the entry in _processing_idx.
Dispatch(w) ==
  /\ worker[w] = "get"
  /\ taskQueue # <<>>
  /\ LET l == Head(taskQueue)
     IN  /\ line' = [line EXCEPT ![w] = l]
         /\ inQueue' = [inQueue EXCEPT ![w] = Append(@, l)]
         /\ processing' = processing \cup {l}
  /\ taskQueue' = Tail(taskQueue)
  /\ worker' = [worker EXCEPT ![w] = "wait"]
  /\ UNCHANGED <<child, buffer, outQueue, results, stored, storedNodes, completed, outcome>>

\* end_process.  (Mutant: the child is left alone.)
MutantEnded(process) == process
Ended(process) == DeadChild

\* The queue stays empty for a second: end_process and leave.
QueueEmpty(w) ==
  /\ worker[w] = "get"
  /\ taskQueue = <<>>
  /\ child' = [child EXCEPT ![w] = Ended(@)]
  /\ buffer' = [buffer EXCEPT ![w] = <<>>]
  /\ worker' = [worker EXCEPT ![w] = "exited"]
  /\ UNCHANGED <<poolVars, line, inQueue, outQueue>>

Message(w) == Head(outQueue[w])
Receiving(w, kind) ==
  worker[w] = "wait" /\ outQueue[w] # <<>> /\ Message(w).kind = kind
Received(w) == outQueue' = [outQueue EXCEPT ![w] = Tail(@)]

Result(l, status) == [line |-> l, status |-> status]

\* A result ends the waiting loop.
AfterResult == "mark"

ReceiveResult(w) ==
  /\ Receiving(w, "result")
  /\ Received(w)
  /\ results' = Append(results, Result(Message(w).line, Message(w).status))
  /\ worker' = [worker EXCEPT ![w] = AfterResult]
  /\ UNCHANGED <<taskQueue, stored, storedNodes, processing, completed, outcome, line,
                 child, inQueue, buffer>>

\* persist_flow_run skips a run that is not terminated.
ReceiveFlowRun(w) ==
  /\ Receiving(w, "flow")
  /\ Message(w).status = "Running" \/ Message(w).ended
  /\ Received(w)
  /\ stored' = IF Message(w).status = "Running" THEN stored
               ELSE [stored EXCEPT ![Message(w).line] = Message(w).status]
  /\ UNCHANGED <<taskQueue, results, storedNodes, processing, completed, outcome, worker,
                 line, child, inQueue, buffer>>

ReceiveNodeRun(w) ==
  /\ Receiving(w, "node")
  /\ Received(w)
  /\ storedNodes' = storedNodes \cup {Message(w).line}
  /\ UNCHANGED <<taskQueue, results, stored, processing, completed, outcome, worker,
                 line, child, inQueue, buffer>>

\* An exception while persisting ends the worker thread and leaves its child alive:
\* the storage raises, or the record has no end_time to be formatted, because it was
\* pickled between the assignments of status and of end_time, or because nothing set
\* it: a node's record stays without when its bookkeeping raised (NodeInvocation).
PersistRaises(w) ==
  /\ \/ Receiving(w, "flow") /\ Message(w).status # "Running"
        /\ (StorageMayFail \/ ~ Message(w).ended)
     \/ Receiving(w, "node")
  /\ Received(w)
  /\ worker' = [worker EXCEPT ![w] = "died"]
  /\ UNCHANGED <<poolVars, line, child, inQueue, buffer>>

\* The line's entry in _completed_idx.
Marked(w) == completed \cup {line[w]}

\* output_queue.get gives up after a second, whether or not the child ever writes.
\* (Mutant: get blocks until there is a message.)
MutantPollEnds(w) == worker[w] = "wait" /\ outQueue[w] # <<>>
PollEnds(w) == worker[w] = "wait"

\* The loop ends without a result; the line enters _completed_idx nevertheless.
TimeOut(w) ==
  /\ PollEnds(w)
  /\ completed' = Marked(w)
  /\ worker' = [worker EXCEPT ![w] = "timedout"]
  /\ UNCHANGED <<taskQueue, results, stored, storedNodes, processing, outcome, line, childVars>>

MarkCompleted(w) ==
  /\ worker[w] = "mark"
  /\ completed' = Marked(w)
  /\ worker' = [worker EXCEPT ![w] = "pop"]
  /\ UNCHANGED <<taskQueue, results, stored, storedNodes, processing, outcome, line, childVars>>

\* What a timed out line leaves in the storage and among the results.  (Mutant:
\* nothing is appended.)
TimeoutStored(w) == [stored EXCEPT ![line[w]] = "Failed"]
MutantNoTimeoutResult(w) == results
TimeoutResults(w) == Append(results, Result(line[w], "Failed"))

\* _generate_line_result_for_exception persists the Failed record, then the result
\* is appended.
FailLine(w) ==
  /\ worker[w] = "timedout"
  /\ stored' = TimeoutStored(w)
  /\ results' = TimeoutResults(w)
  /\ worker' = [worker EXCEPT ![w] = "kill"]
  /\ UNCHANGED <<taskQueue, storedNodes, processing, completed, outcome, line, childVars>>

FailLineRaises(w) ==
  /\ worker[w] = "timedout"
  /\ StorageMayFail
  /\ worker' = [worker EXCEPT ![w] = "died"]
  /\ UNCHANGED <<poolVars, line, childVars>>

\* The queue a new child gets.  (Mutant: the old one.)
MutantNewQueue(old) == old
NewQueue(old) == <<>>

\* end_process and _new_process: the new child has queues of its own.
ReplaceChild(w) ==
  /\ worker[w] = "kill"
  /\ child' = [child EXCEPT ![w] = NewChild]
  /\ inQueue' = [inQueue EXCEPT ![w] = NewQueue(@)]
  /\ buffer' = [buffer EXCEPT ![w] = <<>>]
  /\ outQueue' = [outQueue EXCEPT ![w] = NewQueue(@)]
  /\ worker' = [worker EXCEPT ![w] = "pop"]
  /\ UNCHANGED <<poolVars, line>>

PopProcessing(w) ==
  /\ worker[w] = "pop"
  /\ processing' = processing \ {line[w]}
  /\ line' = [line EXCEPT ![w] = 0]
  /\ worker' = [worker EXCEPT ![w] = "get"]
  /\ UNCHANGED <<taskQueue, results, stored, storedNodes, completed, outcome, childVars>>

-----------------------------------------------------------------------------
(* The child processes: exec_line_for_queue, _exec_line, FlowExecutor._exec *)

ChildStarts(w) ==
  /\ child[w].pc = "starting"
  /\ child' = [child EXCEPT ![w].pc = "idle"]
  /\ UNCHANGED <<poolVars, worker, line, inQueue, buffer, outQueue>>

Put(w, kind, l) == buffer' = [buffer EXCEPT ![w] = Append(@, Buffered(kind, l))]

\* start_flow_run persists the record, which is Running at that moment.
ChildTakesLine(w) ==
  /\ child[w].pc = "idle"
  /\ inQueue[w] # <<>>
  /\ LET l == Head(inQueue[w])
     IN  /\ child' = [child EXCEPT ![w] =
                        [pc |-> "running", line |-> l, status |-> "Running", ended |-> FALSE]]
         /\ Put(w, "flow", l)
  /\ inQueue' = [inQueue EXCEPT ![w] = Tail(@)]
  /\ UNCHANGED <<poolVars, worker, line, outQueue>>

\* The flow's nodes run; their records stand for one.
ChildRunsNodes(w) ==
  /\ child[w].pc = "running"
  /\ child' = [child EXCEPT ![w].pc = "ran"]
  /\ Put(w, "node", child[w].line)
  /\ UNCHANGED <<poolVars, worker, line, inQueue, outQueue>>

\* A line that fails before any node ran, on its inputs, has no node record.
\* (Mutant: a line can complete before its node records are put.)
MutantMayEnd(w, status) == child[w].pc \in {"running", "ran"}
MayEnd(w, status) ==
  child[w].pc = "ran" \/ (child[w].pc = "running" /\ status = "Failed")

\* end_run sets the status first.
ChildEndsRun(w, status) ==
  /\ MayEnd(w, status)
  /\ child' = [child EXCEPT ![w].pc = "ending", ![w].status = status]
  /\ UNCHANGED <<poolVars, worker, line, inQueue, buffer, outQueue>>

ChildSetsEndTime(w) ==
  /\ child[w].pc = "ending"
  /\ child' = [child EXCEPT ![w].pc = "ended", ![w].ended = TRUE]
  /\ UNCHANGED <<poolVars, worker, line, inQueue, buffer, outQueue>>

\* _extract_aggregation_inputs raises after end_run(result=...): end_run(ex=...).
ChildFailsAggregationInputs(w) ==
  /\ child[w].pc = "ended"
  /\ child[w].status = "Completed"
  /\ child' = [child EXCEPT ![w].status = "Failed"]
  /\ UNCHANGED <<poolVars, worker, line, inQueue, buffer, outQueue>>

ChildPersistsFlowRun(w) ==
  /\ child[w].pc = "ended"
  /\ child' = [child EXCEPT ![w].pc = "persisted"]
  /\ Put(w, "flow", child[w].line)
  /\ UNCHANGED <<poolVars, worker, line, inQueue, outQueue>>

ChildPutsResult(w) ==
  /\ child[w].pc = "persisted"
  /\ child' = [child EXCEPT ![w].pc = "idle"]
  /\ Put(w, "result", child[w].line)
  /\ UNCHANGED <<poolVars, worker, line, inQueue, outQueue>>

\* The process is killed from outside, crashes, or leaves exec_line_for_queue by an
\* exception, as when the executor cannot be created.  What its feeder has not
\* pickled is lost.
ChildDies(w) ==
  /\ child[w].pc # "dead"
  /\ child' = [child EXCEPT ![w] = DeadChild]
  /\ buffer' = [buffer EXCEPT ![w] = <<>>]
  /\ UNCHANGED <<poolVars, worker, line, inQueue, outQueue>>

\* What the feeder pickles: the flow run record as it is now.
Pickled(w, m) ==
  IF m.kind = "node"
  THEN [kind |-> "node", line |-> m.line, status |-> "none", ended |-> TRUE]
  ELSE [kind |-> m.kind, line |-> m.line, status |-> child[w].status, ended |-> child[w].ended]

Feed(w) ==
  /\ buffer[w] # <<>>
  /\ outQueue' = [outQueue EXCEPT ![w] = Append(@, Pickled(w, Head(buffer[w])))]
  /\ buffer' = [buffer EXCEPT ![w] = Tail(@)]
  /\ UNCHANGED <<poolVars, worker, line, child, inQueue>>

\* A result that cannot be pickled is dropped by the feeder.
FeedFails(w) ==
  /\ buffer[w] # <<>>
  /\ Head(buffer[w]).kind = "result"
  /\ buffer' = [buffer EXCEPT ![w] = Tail(@)]
  /\ UNCHANGED <<poolVars, worker, line, child, inQueue, outQueue>>

-----------------------------------------------------------------------------
\* starmap ends when every worker has returned or raised, and raises if one did.
RunEnds ==
  /\ outcome = "running"
  /\ \A w \in Workers : worker[w] \in {"exited", "died"}
  /\ outcome' = IF \E w \in Workers : worker[w] = "died" THEN "raised" ELSE "returned"
  /\ UNCHANGED <<taskQueue, results, stored, storedNodes, processing, completed, worker,
                 line, childVars>>

WorkerStep(w) ==
  \/ Dispatch(w) \/ QueueEmpty(w)
  \/ ReceiveResult(w) \/ ReceiveFlowRun(w) \/ ReceiveNodeRun(w) \/ PersistRaises(w)
  \/ TimeOut(w) \/ MarkCompleted(w)
  \/ FailLine(w) \/ FailLineRaises(w) \/ ReplaceChild(w) \/ PopProcessing(w)

ChildStep(w) ==
  \/ ChildStarts(w) \/ ChildTakesLine(w) \/ ChildRunsNodes(w)
  \/ \E status \in {"Completed", "Failed"} : ChildEndsRun(w, status)
  \/ ChildSetsEndTime(w) \/ ChildFailsAggregationInputs(w)
  \/ ChildPersistsFlowRun(w) \/ ChildPutsResult(w)
  \/ ChildDies(w)
  \/ Feed(w) \/ FeedFails(w)

Next ==
  \/ \E w \in Workers : WorkerStep(w) \/ ChildStep(w)
  \/ RunEnds

Spec == Init /\ [][Next]_vars

\* The worker threads are scheduled, and a line's timeout expires.  Nothing is
\* assumed of the children.
Fairness ==
  /\ \A w \in Workers : WF_vars(WorkerStep(w)) /\ WF_vars(TimeOut(w))
  /\ WF_vars(RunEnds)

FairSpec == Spec /\ Fairness

-----------------------------------------------------------------------------
(* Properties *)

Messages(kinds) ==
  [kind : kinds, line : Lines, status : Statuses, ended : BOOLEAN]
ResultSet == {results[i] : i \in 1 .. Len(results)}

\* Every variable has its type; a result is Completed or Failed.
TypeOK ==
  /\ taskQueue \in Seq(Lines)
  /\ worker \in [Workers -> WorkerStates]
  /\ line \in [Workers -> Lines \cup {0}]
  /\ child \in [Workers ->
       [pc : ChildStates, line : Lines \cup {0}, status : Statuses, ended : BOOLEAN]]
  /\ inQueue \in [Workers -> Seq(Lines)]
  /\ buffer \in [Workers -> Seq([kind : MessageKinds, line : Lines])]
  /\ outQueue \in [Workers -> Seq(Messages(MessageKinds))]
  /\ results \in Seq([line : Lines, status : {"Completed", "Failed"}])
  /\ stored \in [Lines -> Statuses \ {"Running"}]
  /\ storedNodes \in SUBSET Lines
  /\ processing \in SUBSET Lines
  /\ completed \in SUBSET Lines
  /\ outcome \in {"running", "returned", "raised"}

\* The line record in the storage says what the line's result says, also when the
\* child had persisted a Completed record before its worker gave the line up.
RecordMatchesResult == \A r \in ResultSet : stored[r.line] = r.status

\* A line reported Completed has its node records in the storage.
NodeRecordsStored ==
  \A r \in ResultSet : r.status = "Completed" => r.line \in storedNodes

\* When run returns no child process is left; a live child would keep the
\* interpreter from exiting, since it waits for input forever.
NoChildLeft == outcome = "returned" => \A w \in Workers : child[w].pc = "dead"

\* run ends, whatever the children do: a child that hangs, dies or drops its result
\* is given up when the line times out.
RunTerminates == <>(outcome # "running")

\* The pool implements BulkExecution: a line gets one result, once, so that an answer
\* that comes too late, from a child that is being replaced, is never taken for the
\* answer of another line.
ResultsOf(l) == {i \in 1 .. Len(results) : results[i].line = l}
AnswerOf(l) ==
  CASE ResultsOf(l) = {} -> "none"
    [] Cardinality(ResultsOf(l)) = 1 -> results[CHOOSE i \in ResultsOf(l) : TRUE].status
    [] OTHER -> "twice"
Bulk == INSTANCE BulkExecution WITH answer <- [l \in Lines |-> AnswerOf(l)]
ImplementsBulkExecution == Bulk!Spec
=============================================================================
