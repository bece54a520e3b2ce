---------------------------- MODULE NodeScheduler ----------------------------
(***************************************************************************)
(* FlowNodesScheduler.execute (executor/_flow_nodes_scheduler.py) with the *)
(* DAGManager it drives (executor/_dag_manager.py) and the threads of its  *)
(* ThreadPoolExecutor: one call of execute, for one line or for the        *)
(* aggregation nodes of a run.                                             *)
(*                                                                         *)
(* The main thread pops the ready nodes, submits them one by one, waits    *)
(* for some futures, collects their results and starts over; the pool      *)
(* threads take submitted nodes in order and run them.  A tool returns or  *)
(* raises, or is left by an exception that is no Exception (SystemExit);   *)
(* a skipped node is one that returns without calling its tool.  A future  *)
(* is identified with its node.                                            *)
(***************************************************************************)
EXTENDS FlowGraph, Sequences

CONSTANTS NodeConcurrency,          \* node_concurrency of the caller
          DEFAULT_CONCURRENCY_FLOW  \* the cap execute puts on it

ASSUME ConcurrencyAssumption ==
  NodeConcurrency \in Nat \ {0} /\ DEFAULT_CONCURRENCY_FLOW \in Nat \ {0}

VARIABLES
  flow,       \* the flow and stage of this call
  pc,         \* where the main thread is
  pending,    \* DAGManager._pending_nodes
  ready,      \* nodes_to_exec still to be submitted
  outputs,    \* keys of DAGManager._completed_nodes_outputs
  dict,       \* the dict _submit_nodes passes on: {} at first, then the live outputs
  given,      \* the dict each submitted node was given
  future,     \* state of each node's future
  workQueue,  \* the pool's work queue
  inFlight,   \* keys of future_to_node
  batch,      \* completed_futures of the last wait
  toCancel,   \* futures the cancel loop has not reached
  error       \* the node whose exception is raised, 0 if none

mainVars == <<pc, pending, ready, outputs, dict, inFlight, batch, toCancel, error>>
vars == <<flow, mainVars, given, future, workQueue>>

PCs == {"pop", "submit", "wait", "collect", "cancel", "exit", "returned", "raised"}
FutureStates == {"none", "queued", "running", "done", "raised", "exited", "cancelled"}

MaxWorkers ==
  IF NodeConcurrency <= DEFAULT_CONCURRENCY_FLOW
  THEN NodeConcurrency ELSE DEFAULT_CONCURRENCY_FLOW

In(state) == {n \in Nodes(flow) : future[n] = state}

\* The futures that hold an exception: one that the except clause of execute catches,
\* or one that it does not.
Failed == In("raised") \cup In("exited")
Ended == In("done") \cup Failed \cup In("cancelled")

\* DAGManager.completed compares two lengths.  (Mutant: with the whole flow's nodes.)
MutantCompleted == Cardinality(outputs) = flow.size
Completed == Cardinality(outputs) = Cardinality(Nodes(flow))

\* The nodes whose outputs node n finds in the dict it was given.
Visible(n) == IF given[n] = "live" THEN outputs ELSE {}

\* DAGManager.__init__.
InitialPending == Nodes(flow)

Init ==
  /\ flow \in Flows
  /\ pc = "pop"
  /\ pending = InitialPending
  /\ ready = {}
  /\ outputs = {}
  /\ dict = "empty"
  /\ given = [n \in 1 .. flow.size |-> "empty"]
  /\ future = [n \in 1 .. flow.size |-> "none"]
  /\ workQueue = <<>>
  /\ inFlight = {}
  /\ batch = {}
  /\ toCancel = {}
  /\ error = 0

-----------------------------------------------------------------------------
(* The main thread *)

\* DAGManager._is_node_ready.  (Mutants: the skip configuration is not looked at;
\* a reference that is no longer pending is taken for completed.)
MutantReadyIgnoringSkip(n) == flow.inputRefs[n] \cap Nodes(flow) \subseteq outputs
MutantReadyWhenSubmitted(n) == Refs(flow, n) \cap pending = {}
IsReady(n) == Refs(flow, n) \subseteq outputs

\* What pop_ready_nodes leaves behind.
NotPopped == {n \in pending : ~ IsReady(n)}

PopReadyNodes ==
  /\ pc = "pop"
  /\ ready' = {n \in pending : IsReady(n)}
  /\ pending' = NotPopped
  /\ pc' = "submit"
  /\ UNCHANGED <<flow, outputs, dict, given, future, workQueue, inFlight, batch, toCancel, error>>

\* One round of the loop in _submit_nodes; nodes come in the order of the list.
SubmitNode(n) ==
  /\ pc = "submit"
  /\ n \in ready
  /\ \A m \in ready : n <= m
  /\ ready' = ready \ {n}
  /\ future' = [future EXCEPT ![n] = "queued"]
  /\ given' = [given EXCEPT ![n] = dict]
  /\ workQueue' = Append(workQueue, n)
  /\ inFlight' = inFlight \cup {n}
  /\ UNCHANGED <<flow, pc, pending, outputs, dict, batch, toCancel, error>>

\* The test of the while loop.
CheckCompleted ==
  /\ pc = "submit"
  /\ ready = {}
  /\ pc' = IF Completed THEN "exit" ELSE "wait"
  /\ UNCHANGED <<flow, pending, ready, outputs, dict, given, future, workQueue,
                 inFlight, batch, toCancel, error>>

\* futures.wait(..., FIRST_COMPLETED): some of the ended futures, at least one
\* unless there is no future to wait for, when it returns at once.
Wait ==
  /\ pc = "wait"
  /\ \E B \in SUBSET (inFlight \cap Ended) :
       /\ B # {} \/ inFlight = {}
       /\ batch' = B
  /\ pc' = "collect"
  /\ UNCHANGED <<flow, pending, ready, outputs, dict, given, future, workQueue,
                 inFlight, toCancel, error>>

\* (Mutant: future_to_node is cleared instead of losing the batch.)
MutantStillInFlight == {}
StillInFlight == inFlight \ batch

\* Every future of the batch has a result: _collect_outputs, complete_nodes, and
\* the batch leaves future_to_node.
CollectOutputs ==
  /\ pc = "collect"
  /\ batch \subseteq In("done")
  /\ outputs' = outputs \cup batch
  /\ dict' = "live"
  /\ inFlight' = StillInFlight
  /\ batch' = {}
  /\ pc' = "pop"
  /\ UNCHANGED <<flow, pending, ready, given, future, workQueue, toCancel, error>>

\* The futures the cancel loop goes through.  (Mutant: those of the failed batch.)
MutantToBeCancelled == batch
ToBeCancelled == inFlight

\* future.result() raises an Exception: the batch's outputs are dropped and the cancel
\* loop starts.
CollectRaises(n) ==
  /\ pc = "collect"
  /\ n \in batch \cap In("raised")
  /\ error' = n
  /\ batch' = {}
  /\ toCancel' = ToBeCancelled
  /\ pc' = "cancel"
  /\ UNCHANGED <<flow, pending, ready, outputs, dict, given, future, workQueue, inFlight>>

\* future.result() raises what a tool was left by and is no Exception: the except clause
\* is passed by, and with it the cancel loop.
CollectExits(n) ==
  /\ pc = "collect"
  /\ n \in batch \cap In("exited")
  /\ error' = n
  /\ batch' = {}
  /\ pc' = "exit"
  /\ UNCHANGED <<flow, pending, ready, outputs, dict, given, future, workQueue, inFlight,
                 toCancel>>

\* Future.cancel: only a future that no thread has taken can be cancelled.
AfterCancel(state) == IF state = "queued" THEN "cancelled" ELSE state

CancelFuture(n) ==
  /\ pc = "cancel"
  /\ n \in toCancel
  /\ toCancel' = toCancel \ {n}
  /\ future' = [future EXCEPT ![n] = AfterCancel(@)]
  /\ UNCHANGED <<flow, pc, pending, ready, outputs, dict, given, workQueue,
                 inFlight, batch, error>>

RaiseError ==
  /\ pc = "cancel"
  /\ toCancel = {}
  /\ pc' = "exit"
  /\ UNCHANGED <<flow, pending, ready, outputs, dict, given, future, workQueue,
                 inFlight, batch, toCancel, error>>

\* Leaving the with block waits for the pool to drain.
PoolDrained == workQueue = <<>> /\ In("running") = {}

ExitPool ==
  /\ pc = "exit"
  /\ PoolDrained
  /\ pc' = IF error = 0 THEN "returned" ELSE "raised"
  /\ UNCHANGED <<flow, pending, ready, outputs, dict, given, future, workQueue,
                 inFlight, batch, toCancel, error>>

-----------------------------------------------------------------------------
(* The pool's threads *)

HasFreeThread == Cardinality(In("running")) < MaxWorkers

\* A free thread takes the next work item; a cancelled one is dropped.
TakeWorkItem ==
  /\ workQueue # <<>>
  /\ HasFreeThread
  /\ LET n == Head(workQueue)
     IN  future' = [future EXCEPT ![n] = IF @ = "queued" THEN "running" ELSE @]
  /\ workQueue' = Tail(workQueue)
  /\ UNCHANGED <<flow, mainVars, given>>

\* The tool returns, or the node is skipped and yields its return value.  Either
\* way the references are looked up in the dict the node was given.
NodeReturns(n) ==
  /\ n \in In("running")
  /\ Refs(flow, n) \subseteq Visible(n)
  /\ future' = [future EXCEPT ![n] = "done"]
  /\ UNCHANGED <<flow, mainVars, given, workQueue>>

\* The tool, or the lookup of a reference, raises.
NodeRaises(n) ==
  /\ n \in In("running")
  /\ future' = [future EXCEPT ![n] = "raised"]
  /\ UNCHANGED <<flow, mainVars, given, workQueue>>

\* The tool is left by SystemExit; the pool's thread stores it in the future like any
\* other exception and goes on.
NodeExits(n) ==
  /\ n \in In("running")
  /\ future' = [future EXCEPT ![n] = "exited"]
  /\ UNCHANGED <<flow, mainVars, given, workQueue>>

-----------------------------------------------------------------------------
MainThread ==
  \/ PopReadyNodes
  \/ \E n \in NodeIds : SubmitNode(n)
  \/ CheckCompleted
  \/ Wait
  \/ CollectOutputs
  \/ \E n \in NodeIds : CollectRaises(n)
  \/ \E n \in NodeIds : CollectExits(n)
  \/ \E n \in NodeIds : CancelFuture(n)
  \/ RaiseError
  \/ ExitPool

NodeEnds(n) == NodeReturns(n) \/ NodeRaises(n) \/ NodeExits(n)

Next ==
  \/ MainThread
  \/ TakeWorkItem
  \/ \E n \in NodeIds : NodeEnds(n)

Spec == Init /\ [][Next]_vars

\* The interpreter schedules every thread, and tools return, raise or exit in the end.
Fairness ==
  /\ WF_vars(MainThread)
  /\ WF_vars(TakeWorkItem)
  /\ \A n \in NodeIds : WF_vars(NodeEnds(n))

FairSpec == Spec /\ Fairness

-----------------------------------------------------------------------------
(* Properties *)

\* Every variable has its type; futures exist only for nodes of this call.
TypeOK ==
  /\ flow \in Flows
  /\ pc \in PCs
  /\ pending \in SUBSET Nodes(flow)
  /\ ready \in SUBSET Nodes(flow)
  /\ outputs \in SUBSET Nodes(flow)
  /\ dict \in {"empty", "live"}
  /\ given \in [1 .. flow.size -> {"empty", "live"}]
  /\ future \in [1 .. flow.size -> FutureStates]
  /\ workQueue \in Seq(Nodes(flow))
  /\ inFlight \in SUBSET Nodes(flow)
  /\ batch \in SUBSET Nodes(flow)
  /\ toCancel \in SUBSET Nodes(flow)
  /\ error \in Nodes(flow) \cup {0}

\* A node is on a thread only when everything it refers to has been collected,
\* and the dict it was given holds those outputs: parse_value never misses an
\* ancestor, although the first batch of nodes is handed a private empty dict and
\* the later ones a dict the main thread keeps changing.
InputsAvailable ==
  \A n \in In("running") : Refs(flow, n) \subseteq Visible(n)

\* The main thread waits on no future only in a call that cannot be satisfied: as
\* long as every reference names a node of the call, pop_ready_nodes and the set of
\* futures never run dry together while nodes are missing.  With an empty set of
\* futures the while loop of execute turns forever.
SpinsOnlyIfUnsatisfiable ==
  pc = "wait" /\ inFlight = {} => Unsatisfiable(flow)

\* execute returns only with the outputs of all nodes, and raises only the error of
\* a node that failed, in both cases with no tool left running or about to run
\* ("Should at least finish the running job", test_concurent_execution.py).
EndsQuiescent ==
  /\ pc \in {"returned", "raised"} => In("running") = {} /\ In("queued") = {}
  /\ pc = "returned" => outputs = Nodes(flow) /\ In("done") = Nodes(flow)
  /\ pc = "raised" => error \in Failed

\* A node's tool runs at most once: a future that was taken, cancelled or ended is
\* never queued or taken again, whatever pop_ready_nodes returns in later rounds.
RunsOnce ==
  [][\A n \in Nodes(flow) :
       /\ future[n] = "running" => future'[n] \in {"running", "done", "raised", "exited"}
       /\ future[n] \in {"done", "raised", "exited", "cancelled"} => future'[n] = future[n]]_vars

\* Once the cancel loop is through and the Exception of a node is being raised no
\* further node starts: the threads that drain the queue find only cancelled futures.
\* What is no Exception passes the cancel loop by, and the threads run all that is
\* queued while the with block is left.
NothingStartsAfterError ==
  [][pc = "exit" /\ error \in In("raised") => In("running")' \subseteq In("running")]_vars

\* What a call has still to do: nodes to submit, to end and to collect, behind the
\* three phases of execute.
Phase ==
  CASE pc \in {"pop", "submit", "wait", "collect"} -> 3
    [] pc = "cancel" -> 2
    [] pc = "exit" -> 1
    [] OTHER -> 0
Todo ==
  {"submit"} \X In("none") \cup {"end"} \X (Nodes(flow) \ Ended)
    \cup {"collect"} \X (Nodes(flow) \ outputs)
LoopRank == CASE pc = "pop" -> 3 [] pc = "submit" -> 2 [] pc = "wait" -> 1 [] OTHER -> 0

Shrinks(S, T) == S \subseteq T /\ S # T

\* Less is left: a later phase, or fewer things to do, or fewer work items, or fewer
\* futures to cancel, or nothing but the next place in the while loop.
Advances ==
  \/ Phase' < Phase
  \/ /\ Phase' = Phase
     /\ \/ Shrinks(Todo', Todo)
        \/ Todo' = Todo /\ Len(workQueue') < Len(workQueue)
        \/ Todo' = Todo /\ workQueue' = workQueue /\ Shrinks(toCancel', toCancel)
        \/ UNCHANGED <<Todo, workQueue, toCancel>> /\ LoopRank' < LoopRank

\* No step of any thread is in vain if every reference can be satisfied: the while
\* loop never turns without having collected something, so it cannot turn for ever.
EveryStepAdvances == [][~ Unsatisfiable(flow) => Advances]_vars

\* If every reference can be satisfied, execute returns or raises.
Terminates == ~ Unsatisfiable(flow) ~> pc \in {"returned", "raised"}

\* The threads, the futures and the work queue implement DagExecution.
Dag == INSTANCE DagExecution WITH
  started  <- In("running") \cup In("done") \cup Failed,
  finished <- In("done"),
  failed   <- Failed,
  outcome  <- IF pc \in {"returned", "raised"} THEN pc ELSE "none"

ImplementsDagExecution == Dag!Spec
=============================================================================
