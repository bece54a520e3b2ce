--------------------------- MODULE Serving_proofs ---------------------------
(***************************************************************************)
(* Proofs about Serving, for any number of concurrent requests, any flows  *)
(* and any Accept headers.  The inductive invariant has three parts: who   *)
(* has still to make the shared executor ready (Setup), which directories  *)
(* the requests come from and go back to (Dirs), and what answers were     *)
(* made of (Answers).                                                      *)
(***************************************************************************)
EXTENDS Serving, FiniteSetTheorems, TLAPS

\* A request that goes on to set app.flow and to enable streaming.
Preparing(r) ==
  /\ pc[r] \in {"leave", "setFlow", "enable"}
  /\ r \notin failing
  /\ pc[r] = "enable" => appFlow

Setup ==
  /\ executor # NoRequest =>
       (appFlow /\ executor \in streaming) \/ \E r \in Requests : Preparing(r)
  /\ appFlow => executor # NoRequest
  /\ \A r \in Requests :
       /\ pc[r] \in {"setFlow", "enable"} \/ (pc[r] = "leave" /\ r \notin failing) =>
            executor # NoRequest
       /\ pc[r] \in {"assign", "setFlow", "enable"} => r \notin failing
       /\ pc[r] = "enable" => appFlow
       /\ pc[r] = "exec" => picked[r] # NoRequest
       /\ picked[r] # NoRequest /\ r \notin early => picked[r] \in streaming

\* A request that loads the flow alone finds the server in its home directory.
Dirs ==
  /\ tempDirs \subseteq Loading
  /\ together = {} =>
       /\ \A r, s \in Loading : r = s
       /\ Loading = {} => cwd = Home
       /\ \A r \in Loading :
            /\ pc[r] \in {"load", "chdir", "assign", "leave"} => cwd = Home
            /\ pc[r] \in {"chdir", "resolve", "restore"} => saved[r] = Home

Answers == AnswerAsAsked /\ TextAsProduced

-----------------------------------------------------------------------------
(* Types *)

AnswerSet == [type : AnswerTypes \cup {None, "error", "invalid"},
              fields : Seq({"text", "empty"}), accept : SUBSET MediaTypes, source : Runs]

LEMMA Typing ==
  ASSUME TypeOK, NEW r \in Requests
  PROVE  /\ \A label \in PCs : Goto(r, label) => pc' \in [Requests -> PCs]
         /\ \A a \in AnswerSet : AnswerWith(r, a) =>
              answer' \in [Requests -> AnswerSet] /\ pc' \in [Requests -> PCs]
<1>1. \A label \in PCs : Goto(r, label) => pc' \in [Requests -> PCs]
  BY DEF TypeOK, Goto
<1>2. \A a \in AnswerSet : AnswerWith(r, a) => answer' \in [Requests -> AnswerSet]
  <2>1. answer \in [Requests -> AnswerSet]
    BY DEF TypeOK, AnswerSet
  <2> QED BY <2>1 DEF AnswerWith
<1>3. \A a \in AnswerSet : AnswerWith(r, a) => Goto(r, "answered") /\ "answered" \in PCs
  BY DEF AnswerWith, PCs
<1> QED BY <1>1, <1>2, <1>3

\* An answer that is an error.
LEMMA ErrorIsAnswer == \A code \in {None, "error", "invalid"} : Error(code) \in AnswerSet
<1>1. <<>> \in Runs
  BY DEF Runs
<1> QED BY <1>1 DEF Error, Answer, AnswerSet

\* An answer of the flow.
LEMMA ExecuteAnswers ==
  ASSUME TypeOK, NEW left, NEW gens, NEW accept \in Accepts, NEW source \in Sources, NEW consumed
  PROVE  Answer(ResponseType(accept, left), Joined(gens, source, consumed), accept, source)
           \in AnswerSet
<1>1. ResponseType(accept, left) \in AnswerTypes
  BY DEF ResponseType, AnswerTypes
<1>2. Joined(gens, source, consumed) \in Seq({"text", "empty"})
  <2>1. flow.outputs \in Seq(DOMAIN flow.kind)
    BY ServingAssumption DEF TypeOK
  <2>2. Fields = 1 .. Len(flow.outputs) /\ Len(flow.outputs) \in Nat
    BY <2>1 DEF Fields
  <2>3. Joined(gens, source, consumed) \in [1 .. Len(flow.outputs) -> {"text", "empty"}]
    BY <2>2 DEF Joined
  <2> QED BY <2>2, <2>3
<1>3. accept \in SUBSET MediaTypes
  BY ServingAssumption
<1>4. source \in Runs
  BY DEF Sources, Nodes, Runs, RunsOf, TypeOK
<1> QED BY <1>1, <1>2, <1>3, <1>4 DEF Answer, AnswerSet

\* The types are kept by every step.
LEMMA TypesStep ==
  ASSUME TypeOK, Setup, [Next]_vars
  PROVE  TypeOK'
<1> USE DEF initVars, dirVars
<1>1. ASSUME NEW r \in Requests, CheckExecutor(r) \/ ChangeCwd(r) \/ SetFlow(r) \/ PickExecutor(r)
      PROVE  TypeOK'
  <2>1. pc' \in [Requests -> PCs]
    BY <1>1, Typing DEF CheckExecutor, ChangeCwd, SetFlow, PickExecutor, PCs
  <2>2. CASE CheckExecutor(r)
    BY <2>1, <2>2 DEF TypeOK, CheckExecutor
  <2>3. CASE SetFlow(r)
    BY <2>1, <2>3 DEF TypeOK, SetFlow
  <2>4. CASE PickExecutor(r)
    BY <2>1, <2>4 DEF TypeOK, PickExecutor
  <2>5. CASE ChangeCwd(r)
    <3>1. cwd' \in Requests \cup {Home, FlowDir}
      BY <2>5 DEF ChangeCwd, WorkingDir
    <3> QED BY <2>1, <2>5, <3>1 DEF TypeOK, ChangeCwd
  <2> QED BY <1>1, <2>2, <2>3, <2>4, <2>5
<1>2. ASSUME NEW r \in Requests, LoadFlow(r) \/ SaveCwd(r) \/ RestoreCwd(r)
      PROVE  TypeOK'
  <2>1. pc' \in [Requests -> PCs]
    BY <1>2, Typing DEF LoadFlow, SaveCwd, RestoreCwd, PCs
  <2>2. CASE LoadFlow(r)
    BY <2>1, <2>2 DEF TypeOK, LoadFlow, Loading
  <2>3. CASE SaveCwd(r)
    BY <2>1, <2>3 DEF TypeOK, SaveCwd
  <2>4. CASE RestoreCwd(r)
    BY <2>1, <2>4 DEF TypeOK, RestoreCwd, CwdAfter
  <2> QED BY <1>2, <2>2, <2>3, <2>4
<1>3. ASSUME NEW r \in Requests, NEW raises \in BOOLEAN,
             ResolveTools(r, raises) \/ AssignExecutor(r, raises)
      PROVE  TypeOK'
  <2>1. pc' \in [Requests -> PCs]
    BY <1>3, Typing DEF ResolveTools, AssignExecutor, PCs
  <2> QED BY <1>3, <2>1 DEF TypeOK, ResolveTools, AssignExecutor
<1>4. ASSUME NEW r \in Requests, EnableStreaming(r) PROVE TypeOK'
  <2>1. pc' \in [Requests -> PCs]
    BY <1>4, Typing DEF EnableStreaming, PCs
  <2>2. executor \in Requests
    BY <1>4 DEF EnableStreaming, Setup, TypeOK
  <2> QED BY <1>4, <2>1, <2>2 DEF TypeOK, EnableStreaming, Enabled
<1>5. ASSUME NEW r \in Requests,
             ConnectionsRaise(r) \/ RefuseRequest(r) \/ ExecuteRaises(r) \/ LeaveContext(r)
      PROVE  TypeOK'
  <2>1. pc' \in [Requests -> PCs] /\ answer' \in [Requests -> AnswerSet]
    <3>1. (\E code \in {"error", "invalid"} : AnswerWith(r, Error(code)))
          \/ (Goto(r, "setFlow") /\ UNCHANGED answer)
      BY <1>5 DEF ConnectionsRaise, RefuseRequest, ExecuteRaises, LeaveContext
    <3>2. "setFlow" \in PCs /\ answer \in [Requests -> AnswerSet]
      BY DEF PCs, TypeOK, AnswerSet
    <3> QED BY <3>1, <3>2, Typing, ErrorIsAnswer
  <2>2. /\ UNCHANGED <<flow, initVars, cwd, saved, failing, picked, early, together>>
        /\ tempDirs' \subseteq tempDirs
    BY <1>5 DEF ConnectionsRaise, RefuseRequest, ExecuteRaises, LeaveContext
  <2> QED BY <2>1, <2>2 DEF TypeOK, AnswerSet
<1>6. ASSUME NEW r \in Requests, NEW accept \in Accepts, NEW source \in Sources,
             NEW consumed \in SUBSET ReadByNodes(source), Execute(r, accept, source, consumed)
      PROVE  TypeOK'
  <2>1. pc' \in [Requests -> PCs] /\ answer' \in [Requests -> AnswerSet]
    <3>1. PICK a \in AnswerSet : AnswerWith(r, a)
      BY <1>6, ExecuteAnswers DEF Execute
    <3> QED BY <3>1, Typing
  <2>2. UNCHANGED <<flow, initVars, dirVars, failing, picked, early, together>>
    BY <1>6 DEF Execute
  <2> QED BY <2>1, <2>2 DEF TypeOK, AnswerSet
<1>7. CASE UNCHANGED vars
  BY <1>7 DEF vars, TypeOK
<1> QED BY <1>1, <1>2, <1>3, <1>4, <1>5, <1>6, <1>7 DEF Next

-----------------------------------------------------------------------------
(* Setting up the executor *)

\* A step of a request that is loading the flow and has not come to assign the
\* executor: it may fail, and then it leaves.
LEMMA SetupKept ==
  ASSUME TypeOK, Setup, NEW r \in Requests, pc[r] \in {"load", "resolve"},
         NEW place \in {"chdir", "restore", "leave"}, Goto(r, place),
         UNCHANGED <<executor, appFlow, streaming, picked, early>>,
         failing' \in {failing, failing \cup {r}}, place = "leave" => r \in failing'
  PROVE  Setup'
<1>1. pc'[r] = place /\ \A q \in Requests \ {r} : pc'[q] = pc[q] /\ (q \in failing' <=> q \in failing)
  BY DEF TypeOK, Goto
<1>2. \A q \in Requests : Preparing(q) => Preparing(q)'
  BY <1>1 DEF Preparing
<1>3. executor' # NoRequest =>
        (appFlow' /\ executor' \in streaming') \/ \E q \in Requests : Preparing(q)'
  BY <1>2 DEF Setup
<1> QED BY <1>1, <1>3 DEF Setup

LEMMA SetupStep ==
  ASSUME TypeOK, Setup, TypeOK', [Next]_vars
  PROVE  Setup'
<1> USE DEF initVars, dirVars, TypeOK, Setup, Preparing, Goto
<1>1. ASSUME NEW r \in Requests,
             CheckExecutor(r) \/ LoadFlow(r) \/ SaveCwd(r) \/ ChangeCwd(r) \/ RestoreCwd(r)
      PROVE  Setup'
  <2>1. CASE CheckExecutor(r)
    BY <2>1 DEF CheckExecutor
  <2>2. CASE LoadFlow(r)
    BY <2>2 DEF LoadFlow
  <2>3. CASE SaveCwd(r)
    <3>1. /\ pc[r] = "load"
          /\ UNCHANGED <<executor, appFlow, streaming, picked, early>>
          /\ failing' = IF Exists(cwd) THEN failing ELSE failing \cup {r}
          /\ pc' = [pc EXCEPT ![r] = IF Exists(cwd) THEN "chdir" ELSE "leave"]
      BY <2>3 DEF SaveCwd
    <3>2. PICK place \in {"chdir", "leave"} :
            pc' = [pc EXCEPT ![r] = place] /\ (place = "leave" => r \in failing')
      BY <3>1
    <3> HIDE DEF initVars, dirVars, TypeOK, Setup, Preparing
    <3> QED BY <3>1, <3>2, SetupKept
  <2>4. CASE ChangeCwd(r)
    BY <2>4 DEF ChangeCwd
  <2>5. CASE RestoreCwd(r)
    BY <2>5 DEF RestoreCwd
  <2> QED BY <1>1, <2>1, <2>2, <2>3, <2>4, <2>5
<1>2. ASSUME NEW r \in Requests, NEW raises \in BOOLEAN, ResolveTools(r, raises)
      PROVE  Setup'
  <2>1. /\ pc[r] = "resolve" /\ pc' = [pc EXCEPT ![r] = "restore"]
        /\ UNCHANGED <<executor, appFlow, streaming, picked, early>>
        /\ failing' \in {failing, failing \cup {r}}
    BY <1>2 DEF ResolveTools
  <2> HIDE DEF initVars, dirVars, TypeOK, Setup, Preparing
  <2> QED BY <2>1, SetupKept
<1>3. ASSUME NEW r \in Requests, NEW raises \in BOOLEAN, AssignExecutor(r, raises)
      PROVE  Setup'
  BY <1>3, NoRequestAssumption DEF AssignExecutor
<1>4. ASSUME NEW r \in Requests, LeaveContext(r) PROVE Setup'
  BY <1>4 DEF LeaveContext, AnswerWith
<1>5. ASSUME NEW r \in Requests, SetFlow(r) PROVE Setup'
  BY <1>5 DEF SetFlow
<1>6. ASSUME NEW r \in Requests, EnableStreaming(r) PROVE Setup'
  BY <1>6 DEF EnableStreaming, Enabled
<1>7. ASSUME NEW r \in Requests, PickExecutor(r) PROVE Setup'
  BY <1>7 DEF PickExecutor, SettingUp
<1>8. ASSUME NEW r \in Requests, ConnectionsRaise(r) \/ RefuseRequest(r) \/ ExecuteRaises(r)
      PROVE  Setup'
  <2>1. CASE ConnectionsRaise(r)
    BY <2>1 DEF ConnectionsRaise, AnswerWith
  <2>2. CASE RefuseRequest(r)
    BY <2>2 DEF RefuseRequest, AnswerWith
  <2>3. CASE ExecuteRaises(r)
    BY <2>3 DEF ExecuteRaises, AnswerWith
  <2> QED BY <1>8, <2>1, <2>2, <2>3
<1>9. ASSUME NEW r \in Requests, NEW accept \in Accepts, NEW source \in Sources,
             NEW consumed \in SUBSET ReadByNodes(source), Execute(r, accept, source, consumed)
      PROVE  Setup'
  BY <1>9 DEF Execute, AnswerWith
<1>10. CASE UNCHANGED vars
  BY <1>10 DEF vars
<1> HIDE DEF initVars, dirVars, TypeOK, Setup, Preparing, Goto
<1> QED BY <1>1, <1>2, <1>3, <1>4, <1>5, <1>6, <1>7, <1>8, <1>9, <1>10 DEF Next

\* The variables keep their types, and whoever built the executor last is still on the
\* way to make it ready, unless it is.
THEOREM SetupInvariance == Spec => [](TypeOK /\ Setup)
<1>1. Init => TypeOK
  <2>1. NoAnswer \in AnswerSet
    BY ErrorIsAnswer DEF NoAnswer, Error, None
  <2> QED BY <2>1 DEF Init, TypeOK, AnswerSet, PCs
<1>2. Init => Setup
  BY DEF Init, Setup
<1> QED BY <1>1, <1>2, TypesStep, SetupStep, PTL DEF Spec

\* An executor that is served when nobody is setting one up can serve and stream.
THEOREM QuietIsReady == Spec => []ReadyWhenQuiet
<1>1. Setup => ReadyWhenQuiet
  BY DEF Setup, ReadyWhenQuiet, Preparing, SettingUp
<1> QED BY <1>1, SetupInvariance, PTL

\* Where a request is that is done with loading the flow.
Loaded == {"leave", "setFlow", "enable", "score", "exec", "answered"}

\* An executor the application has, or a request runs a line on, was built by a request
\* that loaded the flow to the end and raised nothing.
ExecutorsAreWhole ==
  \A b \in Requests :
    executor = b \/ (\E r \in Requests : picked[r] = b) => pc[b] \in Loaded /\ b \notin failing

\* A step that leaves the executors, of a request that goes on or fails as it loads.
LEMMA WholeKept ==
  ASSUME ExecutorsAreWhole, NEW r \in Requests,
         UNCHANGED <<executor, picked>>,
         \A q \in Requests \ {r} : pc'[q] = pc[q],
         failing' \subseteq failing \cup {r},
         pc[r] \in Loaded => pc'[r] \in Loaded /\ failing' = failing
  PROVE  ExecutorsAreWhole'
<1> SUFFICES ASSUME NEW b \in Requests, executor = b \/ \E q \in Requests : picked[q] = b
             PROVE  pc'[b] \in Loaded /\ b \notin failing'
  BY DEF ExecutorsAreWhole
<1>1. pc[b] \in Loaded /\ b \notin failing
  BY DEF ExecutorsAreWhole
<1>2. CASE b = r
  BY <1>1, <1>2
<1>3. CASE b # r
  BY <1>1, <1>3
<1> QED BY <1>2, <1>3

LEMMA WholeStep ==
  ASSUME TypeOK, Setup, ExecutorsAreWhole, [Next]_vars
  PROVE  ExecutorsAreWhole'
<1>0. pc \in [Requests -> PCs] /\ picked \in [Requests -> Requests \cup {NoRequest}]
  BY DEF TypeOK
<1> USE <1>0 DEF initVars, dirVars, Goto, AnswerWith, Loaded
<1>1. ASSUME NEW r \in Requests, CheckExecutor(r) \/ LoadFlow(r) \/ ChangeCwd(r) \/ SetFlow(r)
                                 \/ EnableStreaming(r)
      PROVE  ExecutorsAreWhole'
  BY <1>1, WholeKept DEF CheckExecutor, LoadFlow, ChangeCwd, SetFlow, EnableStreaming
<1>2. ASSUME NEW r \in Requests, SaveCwd(r) \/ RestoreCwd(r) PROVE ExecutorsAreWhole'
  BY <1>2, WholeKept DEF SaveCwd, RestoreCwd
<1>3. ASSUME NEW r \in Requests, NEW raises \in BOOLEAN, ResolveTools(r, raises)
      PROVE  ExecutorsAreWhole'
  BY <1>3, WholeKept DEF ResolveTools
<1>4. ASSUME NEW r \in Requests, ConnectionsRaise(r) \/ LeaveContext(r) \/ RefuseRequest(r)
                                 \/ ExecuteRaises(r)
      PROVE  ExecutorsAreWhole'
  BY <1>4, WholeKept DEF ConnectionsRaise, LeaveContext, RefuseRequest, ExecuteRaises
<1>5. ASSUME NEW r \in Requests, NEW accept \in Accepts, NEW source \in Sources,
             NEW consumed \in SUBSET ReadByNodes(source), Execute(r, accept, source, consumed)
      PROVE  ExecutorsAreWhole'
  BY <1>5, WholeKept DEF Execute
<1>6. ASSUME NEW r \in Requests, NEW raises \in BOOLEAN, AssignExecutor(r, raises)
      PROVE  ExecutorsAreWhole'
  <2>1. CASE raises
    BY <1>6, <2>1, WholeKept DEF AssignExecutor
  <2>2. CASE ~ raises
    <3>1. /\ executor' = r /\ picked' = picked /\ failing' = failing /\ pc'[r] = "leave"
          /\ \A q \in Requests \ {r} : pc'[q] = pc[q]
          /\ r \notin failing
      BY <1>6, <2>2 DEF AssignExecutor, Setup
    <3>2. ASSUME NEW b \in Requests, executor' = b \/ \E q \in Requests : picked'[q] = b
          PROVE  pc'[b] \in Loaded /\ b \notin failing'
      <4>1. CASE b = r
        BY <3>1, <4>1
      <4>2. CASE b # r
        BY <3>1, <3>2, <4>2 DEF ExecutorsAreWhole
      <4> QED BY <4>1, <4>2
    <3> QED BY <3>2 DEF ExecutorsAreWhole
  <2> QED BY <2>1, <2>2
<1>7. ASSUME NEW r \in Requests, PickExecutor(r) PROVE ExecutorsAreWhole'
  <2>1. /\ executor' = executor /\ failing' = failing /\ pc[r] = "score" /\ pc'[r] = "exec"
        /\ \A q \in Requests \ {r} : pc'[q] = pc[q] /\ picked'[q] = picked[q]
        /\ picked'[r] = executor
    BY <1>7 DEF PickExecutor
  <2>2. ASSUME NEW b \in Requests, executor' = b \/ \E q \in Requests : picked'[q] = b
        PROVE  pc[b] \in Loaded /\ b \notin failing
    <3>1. executor = b \/ \E q \in Requests : picked[q] = b
      BY <2>1, <2>2
    <3> QED BY <3>1 DEF ExecutorsAreWhole
  <2>3. \A b \in Requests : pc[b] \in Loaded => pc'[b] \in Loaded
    BY <2>1
  <2> QED BY <2>1, <2>2, <2>3 DEF ExecutorsAreWhole
<1>8. CASE UNCHANGED vars
  BY <1>8 DEF vars, ExecutorsAreWhole
<1> HIDE DEF initVars, dirVars, Goto, AnswerWith, Loaded
<1> QED BY <1>1, <1>2, <1>3, <1>4, <1>5, <1>6, <1>7, <1>8 DEF Next

\* No line runs on an executor whose loading raised, however the requests that build
\* executors at the same time overtake one another.
LinesRunOnWhole ==
  \A r \in Requests : pc[r] = "exec" =>
    /\ picked[r] \in Requests \ failing
    /\ pc[picked[r]] \in Loaded

THEOREM OnlyWholeExecutorsServe == Spec => []LinesRunOnWhole
<1>1. Init => ExecutorsAreWhole
  BY NoRequestAssumption DEF Init, ExecutorsAreWhole
<1>2. TypeOK /\ Setup /\ ExecutorsAreWhole => LinesRunOnWhole
  BY DEF TypeOK, Setup, ExecutorsAreWhole, LinesRunOnWhole
<1> QED BY <1>1, <1>2, WholeStep, SetupInvariance, PTL DEF Spec

-----------------------------------------------------------------------------
(* The working directory and the temporary copies *)

LEMMA DirsStep ==
  ASSUME TypeOK, Dirs, [Next]_vars
  PROVE  Dirs'
<1> USE DEF initVars, dirVars, TypeOK, Dirs, Loading, Goto
<1>1. ASSUME NEW r \in Requests, CheckExecutor(r) PROVE Dirs'
  BY <1>1 DEF CheckExecutor
<1>2. ASSUME NEW r \in Requests, LoadFlow(r) PROVE Dirs'
  BY <1>2 DEF LoadFlow
<1>3. ASSUME NEW r \in Requests, ConnectionsRaise(r) PROVE Dirs'
  BY <1>3 DEF ConnectionsRaise, AnswerWith
<1>4. ASSUME NEW r \in Requests, SaveCwd(r) PROVE Dirs'
  BY <1>4 DEF SaveCwd
<1>5. ASSUME NEW r \in Requests, ChangeCwd(r) PROVE Dirs'
  BY <1>5 DEF ChangeCwd
<1>6. ASSUME NEW r \in Requests, RestoreCwd(r) PROVE Dirs'
  BY <1>6 DEF RestoreCwd, CwdAfter, Exists
<1>7. ASSUME NEW r \in Requests, LeaveContext(r) PROVE Dirs'
  <2>1. /\ \E place \in {"answered", "setFlow"} : pc' = [pc EXCEPT ![r] = place]
        /\ pc[r] = "leave" /\ tempDirs' = tempDirs \ {r}
        /\ UNCHANGED <<cwd, saved, together>>
    BY <1>7 DEF LeaveContext, AnswerWith
  <2>2. Loading' = Loading \ {r} /\ r \in Loading
    BY <2>1
  <2>3. tempDirs' \subseteq Loading'
    BY <2>1, <2>2
  <2>4. \A q \in Loading' : q \in Loading /\ pc'[q] = pc[q]
    BY <2>1, <2>2
  <2>5. together = {} /\ Loading' = {} => cwd = Home
    BY <2>1, <2>2
  <2> HIDE DEF Loading
  <2> QED BY <2>1, <2>3, <2>4, <2>5
<1>8. ASSUME NEW r \in Requests, SetFlow(r) PROVE Dirs'
  BY <1>8 DEF SetFlow
<1>9. ASSUME NEW r \in Requests, EnableStreaming(r) PROVE Dirs'
  BY <1>9 DEF EnableStreaming
<1>10. ASSUME NEW r \in Requests, PickExecutor(r) PROVE Dirs'
  BY <1>10 DEF PickExecutor
<1>11. ASSUME NEW r \in Requests, RefuseRequest(r) PROVE Dirs'
  BY <1>11 DEF RefuseRequest, AnswerWith
<1>12. ASSUME NEW r \in Requests, ExecuteRaises(r) PROVE Dirs'
  BY <1>12 DEF ExecuteRaises, AnswerWith
<1>13. ASSUME NEW r \in Requests, NEW raises \in BOOLEAN, ResolveTools(r, raises)
       PROVE  Dirs'
  BY <1>13 DEF ResolveTools
<1>14. ASSUME NEW r \in Requests, NEW raises \in BOOLEAN, AssignExecutor(r, raises)
       PROVE  Dirs'
  BY <1>14 DEF AssignExecutor
<1>15. ASSUME NEW r \in Requests, NEW accept \in Accepts, NEW source \in Sources,
              NEW consumed \in SUBSET ReadByNodes(source), Execute(r, accept, source, consumed)
       PROVE  Dirs'
  BY <1>15 DEF Execute, AnswerWith
<1>16. CASE UNCHANGED vars
  BY <1>16 DEF vars
<1> HIDE DEF initVars, dirVars, TypeOK, Dirs, Loading, Goto
<1> QED BY <1>1, <1>2, <1>3, <1>4, <1>5, <1>6, <1>7, <1>8, <1>9, <1>10, <1>11, <1>12, <1>13,
           <1>14, <1>15, <1>16 DEF Next

\* The process comes back to its directory and the temporary copies go.
THEOREM DirectoriesRestored == Spec => []WorkingDirKept
<1>1. Init => Dirs
  BY DEF Init, Dirs, Loading
<1>2. Dirs => WorkingDirKept
  BY DEF Dirs, WorkingDirKept
<1> QED BY <1>1, <1>2, DirsStep, SetupInvariance, PTL DEF Spec

-----------------------------------------------------------------------------
(* Answers *)

\* The type of an answer, by the outputs that are still generators.
LEMMA TypeByGenerators ==
  ASSUME NEW accept, NEW left, IsFiniteSet(left)
  PROVE  /\ "event-stream" \notin accept /\ left = {} =>
              ResponseType(accept, left) = WithoutStream(accept)
         /\ "event-stream" \in accept => ResponseType(accept, left) =
              IF left = {} THEN WithoutStream(accept)
              ELSE IF Cardinality(left) = 1 THEN "event-stream"
              ELSE "multiple"
<1>1. left = {} => Cardinality(left) = 0
  BY FS_EmptySet
<1>2. left # {} => Cardinality(left) \in Nat /\ Cardinality(left) # 0
  BY FS_CardinalityType, FS_EmptySet
<1>3. CASE left = {}
  <2>1. ~ (Cardinality(left) > 1)
    BY <1>1, <1>3
  <2>2. ResponseType(accept, left) = WithoutStream(accept)
    BY <1>3, <2>1 DEF ResponseType, WithoutStream
  <2> QED BY <1>3, <2>2
<1>4. CASE left # {}
  <2>1. Cardinality(left) > 1 <=> Cardinality(left) # 1
    BY <1>2, <1>4
  <2>2. "event-stream" \in accept => ResponseType(accept, left) =
          IF Cardinality(left) = 1 THEN "event-stream" ELSE "multiple"
    BY <1>4, <2>1 DEF ResponseType
  <2> QED BY <1>4, <2>2
<1> QED BY <1>3, <1>4

\* When an output may come out empty.
MayBeEmpty(source, i) ==
  LET maker == source[flow.outputs[i]] IN
  \/ \E j \in Fields : j < i /\ source[flow.outputs[j]] = maker
  \/ \E n \in flow.used :
       source[n] = maker /\ (flow.kind[maker] = "generator" \/ n # maker)

TextExplained(r) ==
  answer[r].type \in {"json", "event-stream"} =>
    \A i \in Fields : answer[r].fields[i] = "empty" => MayBeEmpty(answer[r].source, i)

LEMMA TextIsExplained ==
  /\ TextAsProduced <=> \A r \in Requests : TextExplained(r)
  /\ TextAsProduced' <=> \A r \in Requests : TextExplained(r)'
<1>1. TextAsProduced <=> \A r \in Requests : TextExplained(r)
  BY Zenon DEF TextAsProduced, TextExplained, MayBeEmpty
<1>2. TextAsProduced' <=> \A r \in Requests : TextExplained(r)'
  BY Zenon DEF TextAsProduced, TextExplained, MayBeEmpty
<1> QED BY <1>1, <1>2

\* The flow does not change, so that only an answer does.
LEMMA ExplainedBy ==
  ASSUME UNCHANGED flow, NEW r \in Requests
  PROVE  TextExplained(r)' <=>
           (answer'[r].type \in {"json", "event-stream"} =>
              \A i \in Fields : answer'[r].fields[i] = "empty" =>
                MayBeEmpty(answer'[r].source, i))
<1>1. Fields' = Fields
  BY DEF Fields
<1>2. \A a, i : MayBeEmpty(a, i)' <=> MayBeEmpty(a, i)
  BY <1>1 DEF MayBeEmpty
<1> QED BY <1>1, <1>2 DEF TextExplained

\* What one line execution answers.
LEMMA ExecuteAsAsked ==
  ASSUME TypeOK, Setup, NEW r \in Requests, NEW accept \in Accepts, NEW source \in Sources,
         NEW consumed \in SUBSET ReadByNodes(source), Execute(r, accept, source, consumed)
  PROVE  LET a == answer'[r]
             asked == "event-stream" \in accept
         IN  /\ a.accept = accept /\ a.source = source
             /\ ~ asked => a.type = WithoutStream(accept)
             /\ asked /\ r \notin early => a.type = WithStream(accept, source)
             /\ \A i \in Fields : a.fields[i] = "empty" => MayBeEmpty(source, i)
<1> DEFINE asked == "event-stream" \in accept
           gens == Generators(picked[r], source, asked)
<1>1. answer'[r] = Answer(ResponseType(accept, IF asked THEN gens ELSE {}),
                          Joined(gens, source, consumed), accept, source)
  BY DEF Execute, AnswerWith, TypeOK
<1>2. IsFiniteSet(gens)
  <2>1. flow.outputs \in Seq(DOMAIN flow.kind)
    BY ServingAssumption DEF TypeOK
  <2>2. Fields = 1 .. Len(flow.outputs) /\ Len(flow.outputs) \in Nat
    BY <2>1 DEF Fields
  <2>3. IsFiniteSet(Fields)
    BY <2>2, FS_Interval
  <2> QED BY <2>3, FS_Subset DEF Generators
<1>3. asked /\ r \notin early => gens = StreamFields(source)
  <2>1. r \notin early => picked[r] \in streaming
    BY DEF Execute, Setup
  <2> QED BY <2>1 DEF Generators, Yields, Wrapped, StreamFields
<1>4. ~ asked => answer'[r].type = WithoutStream(accept)
  BY <1>1, TypeByGenerators, FS_EmptySet DEF Answer
<1>5. asked /\ r \notin early => answer'[r].type = WithStream(accept, source)
  <2> HIDE DEF gens
  <2> QED BY <1>1, <1>2, <1>3, TypeByGenerators DEF Answer, WithStream
<1>6. ASSUME NEW i \in Fields, answer'[r].fields[i] = "empty"
      PROVE  MayBeEmpty(source, i)
  <2> DEFINE maker == source[flow.outputs[i]]
  <2>1. i \in gens /\ ReadBefore(i, gens, source, consumed)
    BY <1>1, <1>6 DEF Answer, Joined
  <2>2. CASE \E j \in gens : j < i /\ source[flow.outputs[j]] = maker
    BY <2>2 DEF MayBeEmpty, Generators
  <2>3. CASE maker \in consumed
    <3>1. PICK n \in flow.used : source[n] = maker
      BY <2>3 DEF ReadByNodes
    <3>2. flow.kind[maker] = "generator" \/ maker \notin flow.used
      BY <2>1 DEF Generators, Yields, Wrapped
    <3> QED BY <3>1, <3>2 DEF MayBeEmpty
  <2> QED BY <2>1, <2>2, <2>3 DEF ReadBefore
<1> QED BY <1>1, <1>4, <1>5, <1>6 DEF Answer

\* An answer once given stays, and only becomes less binding when requests are early.
LEMMA AnswersStep ==
  ASSUME TypeOK, Setup, Answers, [Next]_vars
  PROVE  Answers'
<1>1. ASSUME NEW r \in Requests, NEW accept \in Accepts, NEW source \in Sources,
             NEW consumed \in SUBSET ReadByNodes(source), Execute(r, accept, source, consumed)
      PROVE  Answers'
  <2>1. /\ UNCHANGED <<flow, early>>
        /\ \A s \in Requests \ {r} : answer'[s] = answer[s]
    BY <1>1 DEF Execute, AnswerWith, TypeOK
  <2>2. \A a, s : WithoutStream(a)' = WithoutStream(a) /\ WithStream(a, s)' = WithStream(a, s)
    BY <2>1 DEF WithoutStream, WithStream, AcceptsJson, StreamFields, Fields
  <2>3. AnswerAsAsked'
    <3> SUFFICES ASSUME NEW s \in Requests, answer'[s].type \in AnswerTypes
                 PROVE  LET a == answer'[s].accept
                            asked == "event-stream" \in a
                        IN  /\ ~ asked => answer'[s].type = WithoutStream(a)
                            /\ asked /\ s \notin early =>
                                 answer'[s].type = WithStream(a, answer'[s].source)
      BY <2>1, <2>2 DEF AnswerAsAsked
    <3>1. CASE s = r
      BY <1>1, <3>1, ExecuteAsAsked
    <3>2. CASE s # r
      BY <2>1, <3>2 DEF Answers, AnswerAsAsked
    <3> QED BY <3>1, <3>2
  <2>4. TextAsProduced'
    <3>1. TextExplained(r)'
      BY <1>1, <2>1, ExecuteAsAsked, ExplainedBy
    <3>2. ASSUME NEW s \in Requests, s # r PROVE TextExplained(s)'
      <4>1. answer'[s] = answer[s] /\ TextExplained(s)
        BY <2>1, <3>2, TextIsExplained DEF Answers
      <4> QED BY <2>1, <4>1, ExplainedBy DEF TextExplained
    <3> QED BY <3>1, <3>2, TextIsExplained
  <2> QED BY <2>3, <2>4 DEF Answers
<1>2. ASSUME /\ UNCHANGED flow /\ early \subseteq early'
             /\ \A s \in Requests : \/ answer'[s] = answer[s]
                                    \/ answer'[s].type \in {"error", "invalid"}
      PROVE  Answers'
  <2>1. \A s \in Requests : answer'[s].type \in AnswerTypes => answer'[s] = answer[s]
    BY <1>2 DEF AnswerTypes
  <2>2. \A a, s : WithoutStream(a)' = WithoutStream(a) /\ WithStream(a, s)' = WithStream(a, s)
    BY <1>2 DEF WithoutStream, WithStream, AcceptsJson, StreamFields, Fields
  <2>3. AnswerAsAsked'
    BY <1>2, <2>1, <2>2 DEF Answers, AnswerAsAsked
  <2>4. TextAsProduced'
    <3>1. ASSUME NEW s \in Requests PROVE TextExplained(s)'
      <4>1. TextExplained(s)
        BY TextIsExplained DEF Answers
      <4>2. answer'[s].type \in {"json", "event-stream"} => answer'[s] = answer[s]
        BY <2>1 DEF AnswerTypes
      <4> QED BY <1>2, <4>1, <4>2, ExplainedBy DEF TextExplained
    <3> QED BY <3>1, TextIsExplained
  <2> QED BY <2>3, <2>4 DEF Answers
<1> USE DEF TypeOK, initVars, dirVars
<1>3. ASSUME NEW r \in Requests,
             \/ CheckExecutor(r) \/ LoadFlow(r) \/ SaveCwd(r) \/ ChangeCwd(r) \/ RestoreCwd(r)
             \/ SetFlow(r) \/ EnableStreaming(r) \/ PickExecutor(r)
             \/ \E raises \in BOOLEAN : ResolveTools(r, raises) \/ AssignExecutor(r, raises)
      PROVE  UNCHANGED flow /\ early \subseteq early' /\ UNCHANGED answer
  BY <1>3 DEF CheckExecutor, LoadFlow, SaveCwd, ChangeCwd, RestoreCwd, SetFlow, EnableStreaming,
              PickExecutor, ResolveTools, AssignExecutor
<1>4. ASSUME NEW r \in Requests,
             ConnectionsRaise(r) \/ RefuseRequest(r) \/ ExecuteRaises(r) \/ LeaveContext(r)
      PROVE  /\ UNCHANGED <<flow, early>>
             /\ \A s \in Requests : \/ answer'[s] = answer[s]
                                    \/ answer'[s].type \in {"error", "invalid"}
  BY <1>4 DEF ConnectionsRaise, RefuseRequest, ExecuteRaises, LeaveContext, AnswerWith, Error,
              Answer
<1>5. CASE UNCHANGED vars
  BY <1>5, <1>2 DEF vars
<1> HIDE DEF TypeOK, initVars, dirVars
<1> QED BY <1>1, <1>2, <1>3, <1>4, <1>5 DEF Next

\* The answers that were given are what was asked for and what was produced.
THEOREM AnswersInvariance == Spec => []Answers
<1>1. Init => Answers
  <2>1. Init => \A r \in Requests : answer[r].type = None
    BY DEF Init, NoAnswer, Answer
  <2>2. None \notin AnswerTypes
    BY DEF None, AnswerTypes
  <2>3. None \notin {"json", "event-stream"}
    BY DEF None
  <2> QED BY <2>1, <2>2, <2>3 DEF Answers, AnswerAsAsked, TextAsProduced
<1> QED BY <1>1, AnswersStep, SetupInvariance, PTL DEF Spec

\* Every answer has the type the request's Accept header and the flow's outputs call for.
THEOREM AnswersAsAsked == Spec => []AnswerAsAsked
BY AnswersInvariance, PTL DEF Answers

\* Every output of an answer has the text its node produced.
THEOREM TextsAsProduced == Spec => []TextAsProduced
BY AnswersInvariance, PTL DEF Answers
=============================================================================
