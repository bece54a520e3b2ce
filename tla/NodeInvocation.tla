--------------------------- MODULE NodeInvocation ---------------------------
(***************************************************************************)
(* The invocation of one node's tool: FlowExecutionContext                 *)
(* (_core/flow_execution_context.py), the RunTracker that keeps its record *)
(* (_core/run_tracker.py), the Tracer that keeps the tree of the calls it  *)
(* makes (_core/tracer.py) and the NodeLogManager that collects what it    *)
(* prints (_core/log_manager.py).                                          *)
(*                                                                         *)
(* Calls of exec_line share one executor, hence one NodeLogManager and     *)
(* sys.stdout.  Each call has its own pool threads; a thread runs several  *)
(* nodes of its call one after the other and carries the context variables *)
(* from one to the next: the active tracer and the log context.            *)
(*                                                                         *)
(* A tool is arbitrary code: it prints, calls an injected API, calls       *)
(* another tool, which may raise, and in the end returns, raises an        *)
(* Exception or raises what is not one (SystemExit, CancelledError).       *)
(* Calls of a node are numbered as they are made, its tool is call 1; a    *)
(* trace holds the number of the call whose outcome was written to it.     *)
(* Only sys.stdout is modelled; sys.stderr is treated the same way.        *)
(***************************************************************************)
EXTENDS Naturals, Sequences, SequencesExt

CONSTANTS Calls,     \* concurrent calls of exec_line
          Threads,   \* pool threads
          Nodes,     \* node runs
          CallOf,    \* the call a thread or a node run belongs to
          MaxInner,  \* bound: calls the tool of each node makes
          MaxPrints  \* bound: lines the tool of each node prints

None == "none"

ASSUME InvocationAssumption ==
  /\ CallOf \in [Threads \cup Nodes -> Calls]
  /\ MaxInner \in [Nodes -> Nat] /\ MaxPrints \in [Nodes -> Nat]
  /\ None \notin Nodes

VARIABLES
  callPc,      \* where each call is in the log manager's with block
  loaded,      \* what __exit__ has loaded and not yet stored
  stdout,      \* sys.stdout
  prevStdout,  \* NodeLogManager._prev_stdout
  overlapped,  \* calls that were inside together with another one
  intruded,    \* calls during which another call's __exit__ stored sys.stdout
  lineStatus,  \* status of the call's flow run record
  lineStored,  \* that status when the storage was last given the record
  node,        \* the node on each thread
  codeStack,   \* the calls of the tool under way, innermost last
  tracer,      \* the thread's active Tracer
  logNode,     \* NodeLogWriter._context of the thread
  buffer,      \* NodeLogWriter.run_id_to_stdout
  printed,     \* how many lines the tool of each node printed
  record,      \* RunTracker._node_runs
  fate,        \* how the node ended
  broken,      \* nodes whose end_run raised
  nestedError, \* nodes that called a tool that raised
  persisted    \* node runs given to the storage

managerVars == <<callPc, loaded, stdout, prevStdout, overlapped, intruded>>
lineVars == <<lineStatus, lineStored>>
callVars == <<managerVars, lineVars>>
vars == <<callVars, node, codeStack, tracer, logNode, buffer, printed, record,
          fate, broken, nestedError, persisted>>

NoTracer == [run |-> None, traces |-> <<>>, stack |-> <<>>]
NoRecord == [status |-> None, traces |-> <<>>, logs |-> <<>>]
Idle(t) == node[t] = None
Inside(c) == callPc[c] = "inside"

Init ==
  /\ callPc = [c \in Calls |-> "out"]
  /\ loaded = [c \in Calls |-> None]
  /\ stdout = "original"
  /\ prevStdout = None
  /\ overlapped = {}
  /\ intruded = {}
  /\ lineStatus = [c \in Calls |-> None]
  /\ lineStored = [c \in Calls |-> None]
  /\ node = [t \in Threads |-> None]
  /\ codeStack = [t \in Threads |-> <<>>]
  /\ tracer = [t \in Threads |-> NoTracer]
  /\ logNode = [t \in Threads |-> None]
  /\ buffer = [n \in Nodes |-> <<>>]
  /\ printed = [n \in Nodes |-> 0]
  /\ record = [n \in Nodes |-> NoRecord]
  /\ fate = [n \in Nodes |-> None]
  /\ broken = {}
  /\ nestedError = {}
  /\ persisted = {}

-----------------------------------------------------------------------------
(* The log manager, entered by every call of exec_line *)

nodeVars == <<node, codeStack, tracer, logNode, buffer, printed, record, fate,
              broken, nestedError, persisted>>

OthersInside(c) == {d \in Calls \ {c} : callPc[d] \in {"entering", "inside", "ended", "leaving"}}

NodesOf(c) == {n \in Nodes : CallOf[n] = c}

\* The first line of __enter__.  (Mutant: sys.stdout has been replaced before.)
MutantSaved == "writer"
Saved == stdout

EnterSaves(c) ==
  /\ callPc[c] = "out"
  /\ prevStdout' = Saved
  /\ callPc' = [callPc EXCEPT ![c] = "entering"]
  /\ overlapped' =
       IF OthersInside(c) = {} THEN overlapped ELSE overlapped \cup {c} \cup OthersInside(c)
  /\ UNCHANGED <<nodeVars, lineVars, loaded, stdout, intruded>>

\* sys.stdout is replaced, and _exec has start_flow_run write the first record.
EnterReplaces(c) ==
  /\ callPc[c] = "entering"
  /\ stdout' = "writer"
  /\ callPc' = [callPc EXCEPT ![c] = "inside"]
  /\ lineStatus' = [lineStatus EXCEPT ![c] = "Running"]
  /\ lineStored' = [lineStored EXCEPT ![c] = "Running"]
  /\ UNCHANGED <<nodeVars, loaded, prevStdout, overlapped, intruded>>

\* How a node ends whose end_run is never reached: by what is not an Exception, or
\* because the tracing raised in the except clause.
NoEndRun == {"exited", "untraced"}
Unended(c) == {n \in NodesOf(c) : fate[n] \in NoEndRun}

Failing(n) == fate[n] \in {"raised", "refused", "untraced"} \/ n \in broken

\* How _exec leaves its try: with the outputs of every node, with an Exception (of a
\* node, or its own before the first node or after the last), or with what a tool
\* raised that is not an Exception and nothing catches.
TryEnds(c, status) ==
  CASE status = "Completed" -> \A n \in NodesOf(c) : fate[n] = "returned" /\ n \notin broken
    [] status = "Failed" ->
         \/ \E n \in NodesOf(c) : Failing(n)
         \/ \A n \in NodesOf(c) : fate[n] = "returned"
         \/ \A n \in NodesOf(c) : fate[n] = None
    [] OTHER -> \E n \in NodesOf(c) : fate[n] = "exited"

\* The finally of _exec: it adds up the api_calls of the nodes before it stores the
\* record, and a node whose end_run was never reached has none (TypeError).
StoredAtEnd(c, status) == IF Unended(c) = {} THEN status ELSE "Running"

LineEnds(c, status) ==
  /\ Inside(c)
  /\ \A t \in Threads : CallOf[t] = c => Idle(t)
  /\ TryEnds(c, status)
  /\ lineStatus' = [lineStatus EXCEPT ![c] = status]
  /\ lineStored' = [lineStored EXCEPT ![c] = StoredAtEnd(c, status)]
  /\ callPc' = [callPc EXCEPT ![c] = "ended"]
  /\ UNCHANGED <<nodeVars, loaded, stdout, prevStdout, overlapped, intruded>>

\* __exit__ loads _prev_stdout ...
ExitLoads(c) ==
  /\ callPc[c] = "ended"
  /\ loaded' = [loaded EXCEPT ![c] = prevStdout]
  /\ callPc' = [callPc EXCEPT ![c] = "leaving"]
  /\ UNCHANGED <<nodeVars, lineVars, stdout, prevStdout, overlapped, intruded>>

\* ... and stores it; another thread may run in between.
ExitStores(c) ==
  /\ callPc[c] = "leaving"
  /\ stdout' = loaded[c]
  /\ callPc' = [callPc EXCEPT ![c] = "left"]
  /\ loaded' = [loaded EXCEPT ![c] = None]
  /\ intruded' = intruded \cup OthersInside(c)
  /\ UNCHANGED <<nodeVars, lineVars, prevStdout, overlapped>>

-----------------------------------------------------------------------------
(* Starting a node: start_node_run, then Tracer.start_tracing *)

\* Tracer.push: the parent is whatever is on top of the stack.
NewTrace(tr, caller, kind) ==
  [by |-> caller, parent |-> IF tr.stack = <<>> THEN 0 ELSE Last(tr.stack),
   kind |-> kind, holds |-> 0]

Push(tr, caller, kind) ==
  [tr EXCEPT !.traces = Append(@, NewTrace(tr, caller, kind)),
             !.stack = Append(@, Len(tr.traces) + 1)]

\* Tracer.pop: the outcome of the given call is written to the top of the stack.
Pop(tr, call) ==
  [tr EXCEPT !.traces = [@ EXCEPT ![Last(tr.stack)].holds = call],
             !.stack = Front(@)]

\* NodeLogWriter.set_node_info.  (Mutant: a context that is set is kept.)
MutantLogContext(t, n) == IF logNode[t] = None THEN n ELSE logNode[t]
LogContext(t, n) == n

\* The scheduler gives an idle thread of the call a node of the call.
Starts(t, n) ==
  /\ Idle(t)
  /\ CallOf[t] = CallOf[n]
  /\ Inside(CallOf[t])
  /\ fate[n] = None
  /\ \A u \in Threads : node[u] # n

StartNode(t, n) ==
  /\ Starts(t, n)
  /\ tracer[t] = NoTracer
  /\ node' = [node EXCEPT ![t] = n]
  /\ record' = [record EXCEPT ![n].status = "Running"]
  /\ logNode' = [logNode EXCEPT ![t] = LogContext(t, n)]
  /\ tracer' = [tracer EXCEPT ![t] = Push([NoTracer EXCEPT !.run = n], 0, "TOOL")]
  /\ codeStack' = [codeStack EXCEPT ![t] = <<1>>]
  /\ UNCHANGED <<callVars, buffer, printed, fate, broken, nestedError, persisted>>

\* The new tracer's push_tool raises, on an input that cannot be turned into text or
\* that another node changes meanwhile.  In the except clause Tracer.pop then raises
\* too, on an empty stack, so that neither end_tracing nor end_run is reached.
PushRaises(t, n) ==
  /\ Starts(t, n)
  /\ tracer[t] = NoTracer
  /\ record' = [record EXCEPT ![n].status = "Running"]
  /\ logNode' = [logNode EXCEPT ![t] = LogContext(t, n)]
  /\ tracer' = [tracer EXCEPT ![t] = [NoTracer EXCEPT !.run = n]]
  /\ fate' = [fate EXCEPT ![n] = "untraced"]
  /\ persisted' = persisted \cup {n}
  /\ UNCHANGED <<callVars, node, codeStack, buffer, printed, broken, nestedError>>

\* _activate_in_context raises NotImplementedError when a tracer is active: the tool
\* is not called, the error is popped onto that tracer, and its traces become those
\* of this node; end_run may raise on their metrics.
StartIsRefused(t, n, endRaises) ==
  LET traces == Pop(tracer[t], 0).traces IN
  /\ Starts(t, n)
  /\ tracer[t] # NoTracer /\ tracer[t].stack # <<>>
  /\ endRaises => \E k \in DOMAIN traces : traces[k].kind = "LLM"
  /\ tracer' = [tracer EXCEPT ![t] = NoTracer]
  /\ logNode' = [logNode EXCEPT ![t] = IF endRaises THEN n ELSE None]
  /\ record' = [record EXCEPT ![n] =
       [status |-> IF endRaises THEN "Running" ELSE "Failed", traces |-> traces, logs |-> <<>>]]
  /\ fate' = [fate EXCEPT ![n] = "refused"]
  /\ broken' = IF endRaises THEN broken \cup {n} ELSE broken
  /\ persisted' = persisted \cup {n}
  /\ UNCHANGED <<callVars, node, codeStack, buffer, printed, nestedError>>

\* The error cannot be popped, the tracer having no open trace: it stays.  Or to_json
\* raises on its traces, once end_tracing has taken it away.
RefusalRaises(t, n) ==
  /\ Starts(t, n)
  /\ tracer[t] # NoTracer
  /\ tracer' = [tracer EXCEPT ![t] = IF @.stack = <<>> THEN @ ELSE NoTracer]
  /\ logNode' = [logNode EXCEPT ![t] = n]
  /\ record' = [record EXCEPT ![n].status = "Running"]
  /\ fate' = [fate EXCEPT ![n] = "untraced"]
  /\ persisted' = persisted \cup {n}
  /\ UNCHANGED <<callVars, node, codeStack, buffer, printed, broken, nestedError>>

-----------------------------------------------------------------------------
(* The tool's code *)

Caller(t) == Last(codeStack[t])
MayCall(t) == ~ Idle(t) /\ Len(tracer[t].traces) <= MaxInner[node[t]]

\* NodeLogWriter.write, or the console when sys.stdout is not the writer.
PrintLine(t) ==
  /\ ~ Idle(t)
  /\ printed[node[t]] < MaxPrints[node[t]]
  /\ printed' = [printed EXCEPT ![node[t]] = @ + 1]
  /\ buffer' = IF stdout = "writer"
               THEN [buffer EXCEPT ![logNode[t]] = Append(@, <<node[t], printed[node[t]] + 1>>)]
               ELSE buffer
  /\ UNCHANGED <<callVars, node, codeStack, tracer, logNode, record, fate, broken,
                 nestedError, persisted>>

\* inject_function pops in both cases, with the result or with the error.  (Mutant:
\* only when the API returned.)
MutantAfterApi(tr, call, returned) == IF returned THEN Pop(tr, call) ELSE tr
AfterApi(tr, call, returned) == Pop(tr, call)

CallApi(t, returned) ==
  /\ MayCall(t)
  /\ tracer' = [tracer EXCEPT ![t] =
                  AfterApi(Push(@, Caller(t), "LLM"), Len(@.traces) + 1, returned)]
  /\ UNCHANGED <<callVars, node, codeStack, logNode, buffer, printed, record, fate,
                 broken, nestedError, persisted>>

\* invoke_tool_with_cache while _current_tool is set: push, call, pop.
CallTool(t) ==
  /\ MayCall(t)
  /\ tracer' = [tracer EXCEPT ![t] = Push(@, Caller(t), "TOOL")]
  /\ codeStack' = [codeStack EXCEPT ![t] = Append(@, Len(tracer[t].traces) + 1)]
  /\ UNCHANGED <<callVars, node, logNode, buffer, printed, record, fate, broken,
                 nestedError, persisted>>

CalledToolReturns(t) ==
  /\ Len(codeStack[t]) > 1
  /\ tracer' = [tracer EXCEPT ![t] = Pop(@, Caller(t))]
  /\ codeStack' = [codeStack EXCEPT ![t] = Front(@)]
  /\ UNCHANGED <<callVars, node, logNode, buffer, printed, record, fate, broken,
                 nestedError, persisted>>

\* The called tool raises past Tracer.pop; its caller may catch what it raised.
CalledToolRaises(t) ==
  /\ Len(codeStack[t]) > 1
  /\ codeStack' = [codeStack EXCEPT ![t] = Front(@)]
  /\ nestedError' = nestedError \cup {node[t]}
  /\ UNCHANGED <<callVars, node, tracer, logNode, buffer, printed, record, fate,
                 broken, persisted>>

-----------------------------------------------------------------------------
(* The end of a node: Tracer.pop, end_tracing, end_run, persist_node_run *)

\* The thread is done with its node; the finally clauses have run.
Finish(t) ==
  /\ node' = [node EXCEPT ![t] = None]
  /\ codeStack' = [codeStack EXCEPT ![t] = <<>>]
  /\ persisted' = persisted \cup {node[t]}

Outcomes == {"returned", "raised"}

\* _common_postprocess.  (Mutants: the exception is not looked at; status holds it.)
MutantStatusAfter(outcome) == "Completed"
MutantStatusIsOutcome(outcome) == outcome
StatusAfter(outcome) == IF outcome = "returned" THEN "Completed" ELSE "Failed"

\* end_tracing.  (Mutant: the tracer stays active.)
MutantTracerAfter(tr) == tr
TracerAfter(tr) == NoTracer

\* The tool is back in invoke_tool_with_cache with a result or an Exception.
EndNode(t, outcome) ==
  LET n == node[t] IN
  /\ Len(codeStack[t]) = 1
  /\ record' = [record EXCEPT ![n] =
                  [status |-> StatusAfter(outcome), traces |-> Pop(tracer[t], 1).traces,
                   logs |-> buffer[n]]]
  /\ tracer' = [tracer EXCEPT ![t] = TracerAfter(Pop(@, 1))]
  /\ buffer' = [buffer EXCEPT ![n] = <<>>]
  /\ logNode' = [logNode EXCEPT ![t] = IF @ = n THEN None ELSE @]
  /\ fate' = [fate EXCEPT ![n] = outcome]
  /\ Finish(t)
  /\ UNCHANGED <<callVars, printed, broken, nestedError>>

\* end_run raises: in set_openai_metrics, when a usage is not a number, before the logs
\* are taken; or in repr of a value, after.  After a result the except clause then
\* pops a tracer that is no longer there; either way nothing sets status and end_time.
EndRunRaises(t, outcome, stage) ==
  LET n == node[t]
      traces == Pop(tracer[t], 1).traces
      logsTaken == stage = "values"
  IN
  /\ Len(codeStack[t]) = 1
  /\ stage = "metrics" => \E k \in DOMAIN traces : traces[k].kind = "LLM"
  /\ record' = [record EXCEPT ![n].traces = traces,
                              ![n].logs = IF logsTaken THEN buffer[n] ELSE @]
  /\ tracer' = [tracer EXCEPT ![t] = TracerAfter(Pop(@, 1))]
  /\ buffer' = [buffer EXCEPT ![n] = IF logsTaken THEN <<>> ELSE @]
  /\ logNode' = [logNode EXCEPT ![t] = IF logsTaken /\ @ = n THEN None ELSE @]
  /\ fate' = [fate EXCEPT ![n] = outcome]
  /\ broken' = broken \cup {n}
  /\ Finish(t)
  /\ UNCHANGED <<callVars, printed, nestedError>>

\* The except clause raises before end_run: on the text of the tool's error, with the
\* trace still open, or in to_json, once end_tracing has taken the tracer away.
TraceRaises(t, closed) ==
  /\ Len(codeStack[t]) = 1
  /\ tracer' = [tracer EXCEPT ![t] = IF closed THEN TracerAfter(Pop(@, 1)) ELSE @]
  /\ fate' = [fate EXCEPT ![node[t]] = "untraced"]
  /\ Finish(t)
  /\ UNCHANGED <<callVars, logNode, buffer, printed, record, broken, nestedError>>

\* No except clause catches what is not an Exception: only the record is persisted.
ToolExits(t) ==
  /\ ~ Idle(t)
  /\ fate' = [fate EXCEPT ![node[t]] = "exited"]
  /\ Finish(t)
  /\ UNCHANGED <<callVars, tracer, logNode, buffer, printed, record, broken, nestedError>>

-----------------------------------------------------------------------------
Next ==
  \/ \E c \in Calls :
       \/ EnterSaves(c)
       \/ EnterReplaces(c)
       \/ \E status \in {"Running", "Completed", "Failed"} : LineEnds(c, status)
       \/ ExitLoads(c)
       \/ ExitStores(c)
  \/ \E t \in Threads, n \in Nodes :
       \/ StartNode(t, n)
       \/ PushRaises(t, n)
       \/ \E endRaises \in BOOLEAN : StartIsRefused(t, n, endRaises)
       \/ RefusalRaises(t, n)
  \/ \E t \in Threads :
       \/ PrintLine(t)
       \/ \E returned \in BOOLEAN : CallApi(t, returned)
       \/ CallTool(t)
       \/ CalledToolReturns(t)
       \/ CalledToolRaises(t)
       \/ \E outcome \in Outcomes : EndNode(t, outcome)
       \/ \E outcome \in Outcomes, stage \in {"metrics", "values"} :
            EndRunRaises(t, outcome, stage)
       \/ \E closed \in BOOLEAN : TraceRaises(t, closed)
       \/ ToolExits(t)

Spec == Init /\ [][Next]_vars

-----------------------------------------------------------------------------
(* Correctness *)

Traces == [by : Nat, parent : Nat, kind : {"TOOL", "LLM"}, holds : Nat]
Tracers == [run : Nodes \cup {None}, traces : Seq(Traces), stack : Seq(Nat)]
Lines == Nodes \X Nat
Records == [status : {None, "Running", "Completed", "Failed"}, traces : Seq(Traces),
            logs : Seq(Lines)]

TypeOK ==
  /\ callPc \in [Calls -> {"out", "entering", "inside", "ended", "leaving", "left"}]
  /\ loaded \in [Calls -> {None, "original", "writer"}]
  /\ stdout \in {"original", "writer"}
  /\ prevStdout \in {None, "original", "writer"}
  /\ overlapped \subseteq Calls /\ intruded \subseteq Calls
  /\ lineStatus \in [Calls -> {None, "Running", "Completed", "Failed"}]
  /\ lineStored \in [Calls -> {None, "Running", "Completed", "Failed"}]
  /\ node \in [Threads -> Nodes \cup {None}]
  /\ codeStack \in [Threads -> Seq(Nat)]
  /\ tracer \in [Threads -> Tracers]
  /\ logNode \in [Threads -> Nodes \cup {None}]
  /\ buffer \in [Nodes -> Seq(Lines)]
  /\ printed \in [Nodes -> Nat]
  /\ record \in [Nodes -> Records]
  /\ fate \in [Nodes -> {None, "returned", "raised", "refused", "exited", "untraced"}]
  /\ broken \subseteq Nodes /\ nestedError \subseteq Nodes /\ persisted \subseteq Nodes

\* The first lines that node n prints, and some of them, each once and in their order.
FirstLines(n, many) == [k \in 1 .. many |-> <<n, k>>]
LinesInOrder(lines, n, many) ==
  /\ \A i \in DOMAIN lines : \E k \in 1 .. many : lines[i] = <<n, k>>
  /\ \A i, j \in DOMAIN lines : i < j => lines[i][2] < lines[j][2]

\* The logs of a node are lines its own tool printed, in order, whatever the other
\* threads print through the same writer; they are all of them unless another call put
\* sys.stdout back while this node's call was inside the log manager.
LogsOfOwnNode ==
  \A n \in persisted : fate[n] \in Outcomes /\ n \notin broken =>
    /\ LinesInOrder(record[n].logs, n, printed[n])
    /\ CallOf[n] \notin intruded => record[n].logs = FirstLines(n, printed[n])

\* The api_calls of a node are the tree of the calls its own tool made, each with its
\* own outcome: every trace hangs under the call that made it.  Only a node that
\* called a tool that raised may have an outcome on the wrong call.
TraceTreeIsCallTree ==
  \A n \in persisted :
    fate[n] \in Outcomes /\ n \notin nestedError =>
      \A k \in DOMAIN record[n].traces :
        LET trace == record[n].traces[k]
        IN  trace.parent = trace.by /\ trace.holds = k

\* What a thread takes along to its next node: no tracer and no log context, and no
\* lines stay in the writer, unless the tool of the node they belong to was left by
\* SystemExit or its tracing or end_run raised.  So only then is a node refused: a node
\* whose tool returned, or raised what could be written down, harms no other.
ThreadsLeftClean ==
  /\ \A t \in Threads : Idle(t) =>
       /\ tracer[t] # NoTracer => fate[tracer[t].run] \in NoEndRun
       /\ logNode[t] # None => fate[logNode[t]] \in NoEndRun \/ logNode[t] \in broken
  /\ \A n \in persisted : buffer[n] # <<>> => fate[n] \in NoEndRun \/ n \in broken
  /\ \A n \in Nodes : fate[n] = "refused" => Unended(CallOf[n]) # {}

\* A node's record tells how its tool ended, and has an end time: only one whose tool
\* was left by SystemExit or the like, or whose tracing or end_run raised, stays
\* "Running".
NodeRecordsEnd ==
  \A n \in persisted :
    IF fate[n] \in NoEndRun \/ n \in broken
    THEN record[n].status = "Running"
    ELSE record[n].status = IF fate[n] = "returned" THEN "Completed" ELSE "Failed"

\* The flow run record that storage holds once the call is over is the one the call
\* ended with, and a completed one has only completed nodes; a node whose end_run was
\* never reached takes the record of its line with it.
LineRecordsEnd ==
  \A c \in Calls : callPc[c] \in {"ended", "leaving", "left"} =>
    /\ Unended(c) = {} => lineStored[c] = lineStatus[c] /\ lineStatus[c] # "Running"
    /\ lineStored[c] = "Completed" =>
         \A n \in NodesOf(c) : n \in persisted /\ record[n].status = "Completed"
    /\ Unended(c) # {} => lineStored[c] = "Running"

\* Every record that is stored tells how its run ended, but for what an exception
\* nobody catches, or one in the bookkeeping, leaves behind.
RecordsEnd == NodeRecordsEnd /\ LineRecordsEnd

NobodyInside == \A c \in Calls : callPc[c] \in {"out", "left"}

\* "Restore sys.stdout and sys.stderr." (log_manager.py:60): once every call has left,
\* sys.stdout is the original one again, provided no two calls were inside at a time.
StdoutRestoredIfAlone == NobodyInside /\ overlapped = {} => stdout = "original"
=============================================================================
