------------------------------ MODULE Serving ------------------------------
(***************************************************************************)
(* The serving application (_sdk/_serving/app.py): requests to /score run  *)
(* in a thread each and share app.executor, app.flow and the process's     *)
(* working directory.  The first requests find no executor and build one,  *)
(* without a lock; an executor is known by the request that built it.      *)
(*                                                                         *)
(* A flow is the record                                                    *)
(*   outputs   its outputs in order, each the node it refers to; those     *)
(*             that are removed from the response are taken to refer to    *)
(*             nodes of their own and left out;                            *)
(*   kind      what each node is: an LLM node that can stream ("llm"), a   *)
(*             tool that yields ("generator"), another tool ("plain");     *)
(*   used      nodes that the inputs of other nodes refer to;              *)
(*   returns   for each node with a skip condition, the node whose value   *)
(*             it returns instead of its own when it is skipped, or None   *)
(*             when it returns a text;                                     *)
(*   includes  whether it has additional includes, and so is copied to a   *)
(*             temporary directory of its own each time it is loaded.      *)
(***************************************************************************)
EXTENDS Naturals, Sequences, FiniteSets

CONSTANTS Requests, Flows,
          Accepts   \* the Accept headers requests come with: sets of media types

MediaTypes == {"event-stream", "json", "other"}
None == "none"

ASSUME ServingAssumption ==
  /\ Accepts \subseteq SUBSET MediaTypes
  /\ \A f \in Flows :
       /\ f.outputs \in Seq(DOMAIN f.kind)
       /\ \A n \in DOMAIN f.kind : f.kind[n] \in {"llm", "generator", "plain"}
       /\ f.used \subseteq DOMAIN f.kind
       /\ DOMAIN f.returns \subseteq DOMAIN f.kind
       /\ \A n \in DOMAIN f.returns : f.returns[n] \in DOMAIN f.kind \cup {None}
       /\ f.includes \in BOOLEAN

Home == "home"       \* the directory the server was started in
FlowDir == "flow"    \* the flow's own directory
NoRequest == "no request"
ASSUME NoRequestAssumption == {NoRequest, Home, FlowDir} \cap Requests = {}

VARIABLES
  flow,        \* the flow that is served
  pc,          \* where each request is
  executor,    \* app.executor
  appFlow,     \* whether app.flow has been set
  streaming,   \* executors whose LLM tools have been wrapped
  cwd,         \* the working directory of the process
  saved,       \* saved_path of each request inside _change_working_dir
  tempDirs,    \* temporary copies of the flow that exist
  failing,     \* requests whose initialisation is raising
  picked,      \* the executor each request runs its line on
  answer,      \* the answer of each request
  early,       \* requests that picked their executor while one was being set up
  together     \* requests that were loading the flow together with another one

initVars == <<executor, appFlow, streaming>>
dirVars == <<cwd, saved, tempDirs>>
vars == <<flow, pc, initVars, dirVars, failing, picked, answer, early, together>>

\* An answer, with the header it is for and the run of the flow it comes from.
Answer(type, fields, accept, source) ==
  [type |-> type, fields |-> fields, accept |-> accept, source |-> source]
NoAnswer == Answer(None, <<>>, {}, <<>>)
Error(code) == Answer(code, <<>>, {}, <<>>)

Loading == {r \in Requests : pc[r] \in {"load", "chdir", "resolve", "restore", "assign", "leave"}}
SettingUp == {r \in Requests : pc[r] \in {"leave", "setFlow", "enable"}}

Init ==
  /\ flow \in Flows
  /\ pc = [r \in Requests |-> "new"]
  /\ executor = NoRequest
  /\ appFlow = FALSE
  /\ streaming = {}
  /\ cwd = Home
  /\ saved = [r \in Requests |-> Home]
  /\ tempDirs = {}
  /\ failing = {}
  /\ picked = [r \in Requests |-> NoRequest]
  /\ answer = [r \in Requests |-> NoAnswer]
  /\ early = {}
  /\ together = {}

-----------------------------------------------------------------------------
(* init_executor_if_not_exist *)

Goto(r, label) == pc' = [pc EXCEPT ![r] = label]
AnswerWith(r, a) == answer' = [answer EXCEPT ![r] = a] /\ Goto(r, "answered")

HasExecutor == executor # NoRequest

CheckExecutor(r) ==
  /\ pc[r] = "new"
  /\ Goto(r, IF HasExecutor THEN "score" ELSE "connections")
  /\ UNCHANGED <<flow, initVars, dirVars, failing, picked, answer, early, together>>

\* The connections are read, which may raise; then variant_overwrite_context makes
\* the temporary directory.
LoadFlow(r) ==
  /\ pc[r] = "connections"
  /\ tempDirs' = IF flow.includes THEN tempDirs \cup {r} ELSE tempDirs
  /\ together' = IF Loading = {} THEN together ELSE together \cup Loading \cup {r}
  /\ Goto(r, "load")
  /\ UNCHANGED <<flow, initVars, cwd, saved, failing, picked, answer, early>>

ConnectionsRaise(r) ==
  /\ pc[r] = "connections"
  /\ AnswerWith(r, Error("error"))
  /\ UNCHANGED <<flow, initVars, dirVars, failing, picked, early, together>>

Exists(dir) == dir \in {Home, FlowDir} \cup tempDirs
WorkingDir(r) == IF flow.includes THEN r ELSE FlowDir

\* _change_working_dir: getcwd, which raises when the directory is gone, ...
SaveCwd(r) ==
  /\ pc[r] = "load"
  /\ saved' = IF Exists(cwd) THEN [saved EXCEPT ![r] = cwd] ELSE saved
  /\ failing' = IF Exists(cwd) THEN failing ELSE failing \cup {r}
  /\ Goto(r, IF Exists(cwd) THEN "chdir" ELSE "leave")
  /\ UNCHANGED <<flow, initVars, cwd, tempDirs, picked, answer, early, together>>

\* ... chdir, ...
ChangeCwd(r) ==
  /\ pc[r] = "chdir"
  /\ cwd' = WorkingDir(r)
  /\ Goto(r, "resolve")
  /\ UNCHANGED <<flow, initVars, saved, tempDirs, failing, picked, answer, early, together>>

\* ... the tools are resolved, which may raise, ...
ResolveTools(r, raises) ==
  /\ pc[r] = "resolve"
  /\ failing' = IF raises THEN failing \cup {r} ELSE failing
  /\ Goto(r, "restore")
  /\ UNCHANGED <<flow, initVars, dirVars, picked, answer, early, together>>

\* ... and the finally clause: chdir back, which raises when the directory is gone.
\* (Mutant: back only when nothing was raised.)
MutantCwdAfter(r) == IF r \in failing \/ ~ Exists(saved[r]) THEN cwd ELSE saved[r]
CwdAfter(r) == IF Exists(saved[r]) THEN saved[r] ELSE cwd

RestoreCwd(r) ==
  /\ pc[r] = "restore"
  /\ cwd' = CwdAfter(r)
  /\ saved' = [saved EXCEPT ![r] = Home]
  /\ failing' = IF Exists(saved[r]) THEN failing ELSE failing \cup {r}
  /\ Goto(r, IF r \in failing' THEN "leave" ELSE "assign")
  /\ UNCHANGED <<flow, initVars, tempDirs, picked, answer, early, together>>

\* The flow is validated, which may raise, and the executor assigned.
AssignExecutor(r, raises) ==
  /\ pc[r] = "assign"
  /\ executor' = IF raises THEN executor ELSE r
  /\ failing' = IF raises THEN failing \cup {r} ELSE failing
  /\ Goto(r, "leave")
  /\ UNCHANGED <<flow, appFlow, streaming, dirVars, picked, answer, early, together>>

\* The end of variant_overwrite_context removes the temporary directory.
LeaveContext(r) ==
  /\ pc[r] = "leave"
  /\ tempDirs' = tempDirs \ {r}
  /\ IF r \in failing THEN AnswerWith(r, Error("error"))
                      ELSE Goto(r, "setFlow") /\ UNCHANGED answer
  /\ UNCHANGED <<flow, initVars, cwd, saved, failing, picked, early, together>>

SetFlow(r) ==
  /\ pc[r] = "setFlow"
  /\ appFlow' = TRUE
  /\ Goto(r, "enable")
  /\ UNCHANGED <<flow, executor, streaming, dirVars, failing, picked, answer, early, together>>

\* enable_streaming_for_llm_flow on the executor the application has by now.
\* (Mutant: on the first one only.)
MutantEnabled == IF streaming = {} THEN {executor} ELSE streaming
Enabled == streaming \cup {executor}

EnableStreaming(r) ==
  /\ pc[r] = "enable"
  /\ streaming' = Enabled
  /\ Goto(r, "score")
  /\ UNCHANGED <<flow, executor, appFlow, dirVars, failing, picked, answer, early, together>>

-----------------------------------------------------------------------------
(* score *)

\* app.flow is looked up before the executor; data that is not valid is refused.
PickExecutor(r) ==
  /\ pc[r] = "score"
  /\ appFlow
  /\ picked' = [picked EXCEPT ![r] = executor]
  /\ early' = IF SettingUp = {} THEN early ELSE early \cup {r}
  /\ Goto(r, "exec")
  /\ UNCHANGED <<flow, initVars, dirVars, failing, answer, together>>

RefuseRequest(r) ==
  /\ pc[r] = "score"
  /\ AnswerWith(r, Error(IF appFlow THEN "invalid" ELSE "error"))
  /\ UNCHANGED <<flow, initVars, dirVars, failing, picked, early, together>>

Fields == DOMAIN flow.outputs
Nodes == DOMAIN flow.kind

\* The nodes enable_streaming_for_llm_flow wraps: outputs refer to them, and no inputs
\* of other nodes; that a skipped node may return their value it does not ask.
Wrapped(n) ==
  flow.kind[n] = "llm" /\ n \notin flow.used /\ \E i \in Fields : flow.outputs[i] = n

\* Whether a node that runs returns a generator, for a request that asks for a stream
\* or not.
Yields(e, n, asked) ==
  flow.kind[n] = "generator" \/ (Wrapped(n) /\ e \in streaming /\ asked)

\* The node each node's value was made by, in a run of the flow: itself, or, for one
\* that is skipped, the maker of the value that it returns.  That is the same object.
Sources ==
  {source \in [Nodes -> Nodes \cup {None}] :
     \A n \in Nodes : \/ source[n] = n
                      \/ /\ n \in DOMAIN flow.returns
                         /\ LET returned == flow.returns[n] IN
                            source[n] = IF returned = None THEN None ELSE source[returned]}

\* The outputs that are generators, and those values that another node may have read.
Generators(e, source, asked) ==
  {i \in Fields : LET maker == source[flow.outputs[i]]
                  IN  maker # None /\ Yields(e, maker, asked)}
ReadByNodes(source) == {source[n] : n \in flow.used}

\* _stringify_generator_output goes through the outputs in order: what an earlier one
\* or another node has read of the generator is gone.  (Mutant: a node that yields is
\* read before its outputs are joined.)
MutantReadBefore(i, gens, source, consumed) == i \in gens
ReadBefore(i, gens, source, consumed) ==
  LET maker == source[flow.outputs[i]] IN
  maker \in consumed \/ \E j \in gens : j < i /\ source[flow.outputs[j]] = maker

Joined(gens, source, consumed) ==
  [i \in Fields |->
     IF i \in gens /\ ReadBefore(i, gens, source, consumed) THEN "empty" ELSE "text"]

AcceptsJson(accept) == accept = {} \/ "json" \in accept

\* ResponseCreator, by the outputs that are still generators.  (Mutant: JSON is
\* preferred to a stream.)
MutantPrefersJson(accept, left) ==
  IF Cardinality(left) > 1 THEN "multiple"
  ELSE IF AcceptsJson(accept) THEN "json"
  ELSE IF left # {} /\ "event-stream" \in accept THEN "event-stream"
  ELSE "not acceptable"
ResponseType(accept, left) ==
  IF Cardinality(left) > 1 THEN "multiple"
  ELSE IF left # {} /\ "event-stream" \in accept THEN "event-stream"
  ELSE IF AcceptsJson(accept) THEN "json"
  ELSE "not acceptable"

\* exec_line, with allow_generator_output when a stream is asked for, and the
\* response.  The values in "consumed" were read by a node, if they are generators.
Execute(r, accept, source, consumed) ==
  LET asked == "event-stream" \in accept
      gens == Generators(picked[r], source, asked)
      type == ResponseType(accept, IF asked THEN gens ELSE {})
  IN
  /\ pc[r] = "exec"
  /\ AnswerWith(r, Answer(type, Joined(gens, source, consumed), accept, source))
  /\ UNCHANGED <<flow, initVars, dirVars, failing, picked, early, together>>

\* A tool raises, and with raise_ex so does exec_line.
ExecuteRaises(r) ==
  /\ pc[r] = "exec"
  /\ AnswerWith(r, Error("error"))
  /\ UNCHANGED <<flow, initVars, dirVars, failing, picked, early, together>>

-----------------------------------------------------------------------------
Next ==
  \E r \in Requests :
    \/ CheckExecutor(r)
    \/ LoadFlow(r)
    \/ ConnectionsRaise(r)
    \/ SaveCwd(r)
    \/ ChangeCwd(r)
    \/ \E raises \in BOOLEAN : ResolveTools(r, raises) \/ AssignExecutor(r, raises)
    \/ RestoreCwd(r)
    \/ LeaveContext(r)
    \/ SetFlow(r)
    \/ EnableStreaming(r)
    \/ PickExecutor(r)
    \/ RefuseRequest(r)
    \/ \E accept \in Accepts, source \in Sources :
         \E consumed \in SUBSET ReadByNodes(source) : Execute(r, accept, source, consumed)
    \/ ExecuteRaises(r)

Spec == Init /\ [][Next]_vars

-----------------------------------------------------------------------------
(* Correctness *)

PCs == {"new", "connections", "load", "chdir", "resolve", "restore", "assign", "leave",
        "setFlow", "enable", "score", "exec", "answered"}
AnswerTypes == {"json", "event-stream", "multiple", "not acceptable"}
RunsOf(f) == [DOMAIN f.kind -> DOMAIN f.kind \cup {None}]
Runs == {<<>>} \cup UNION {RunsOf(f) : f \in Flows}

TypeOK ==
  /\ flow \in Flows
  /\ pc \in [Requests -> PCs]
  /\ executor \in Requests \cup {NoRequest}
  /\ appFlow \in BOOLEAN
  /\ streaming \subseteq Requests
  /\ cwd \in Requests \cup {Home, FlowDir}
  /\ saved \in [Requests -> Requests \cup {Home, FlowDir}]
  /\ tempDirs \subseteq Requests
  /\ failing \subseteq Requests
  /\ picked \in [Requests -> Requests \cup {NoRequest}]
  /\ answer \in [Requests -> [type : AnswerTypes \cup {None, "error", "invalid"},
                              fields : Seq({"text", "empty"}), accept : SUBSET MediaTypes,
                              source : Runs]]
  /\ early \subseteq Requests /\ together \subseteq Requests

\* Once no request is setting up an executor, the one the application has can serve
\* and stream, however many requests were building executors at the same time; and so
\* can the executor a request picked at such a moment.
ReadyWhenQuiet ==
  /\ executor # NoRequest /\ SettingUp = {} => appFlow /\ executor \in streaming
  /\ \A r \in Requests : picked[r] # NoRequest /\ r \notin early => picked[r] \in streaming

\* The process is back in the directory it was started in and the temporary copies of
\* the flow are gone once nobody is loading the flow, also after errors, provided no
\* two requests loaded it at the same time.
WorkingDirKept ==
  Loading = {} => tempDirs = {} /\ (together = {} => cwd = Home)

\* The outputs that are streams when a stream is asked for, in a run of the flow: those
\* whose value a streaming node made, be it their own node or one before it.
StreamFields(source) ==
  {i \in Fields : LET maker == source[flow.outputs[i]] IN
                  /\ maker # None
                  /\ \/ flow.kind[maker] = "generator"
                     \/ /\ flow.kind[maker] = "llm" /\ maker \notin flow.used
                        /\ \E j \in Fields : flow.outputs[j] = maker}

WithoutStream(accept) == IF AcceptsJson(accept) THEN "json" ELSE "not acceptable"

WithStream(accept, source) ==
  IF StreamFields(source) = {} THEN WithoutStream(accept)
  ELSE IF Cardinality(StreamFields(source)) = 1 THEN "event-stream"
  ELSE "multiple"

\* Content negotiation (docs/how-to-guides/enable-streaming-mode.md): a stream for
\* those who name it, when one output of this run of the flow is one, JSON for those who
\* take it; and an error for those who ask for a stream when two are, as they also are
\* when a skipped node returns the stream of another output's node.  A request that
\* picked its executor while one was being set up may go without the stream.
AnswerAsAsked ==
  \A r \in Requests : answer[r].type \in AnswerTypes =>
    LET accept == answer[r].accept
        asked == "event-stream" \in accept
    IN  /\ ~ asked => answer[r].type = WithoutStream(accept)
        /\ asked /\ r \notin early => answer[r].type = WithStream(accept, answer[r].source)

\* Every output of an answer has the text that was made for it.  Only a generator that an
\* earlier output holds as well, or that another node also reads, may come out empty;
\* the stream of an LLM node is read by another node only as the value of a node that
\* was skipped.
TextAsProduced ==
  \A r \in Requests : answer[r].type \in {"json", "event-stream"} =>
    \A i \in Fields : answer[r].fields[i] = "empty" =>
      LET source == answer[r].source
          maker == source[flow.outputs[i]]
      IN  \/ \E j \in Fields : j < i /\ source[flow.outputs[j]] = maker
          \/ \E n \in flow.used :
               source[n] = maker /\ (flow.kind[maker] = "generator" \/ n # maker)
=============================================================================
