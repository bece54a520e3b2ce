------------------------ MODULE NodeScheduler_proofs ------------------------
(***************************************************************************)
(* Proofs about NodeScheduler, for every set of validated flows and every  *)
(* concurrency.  The inductive invariant IInv says where each node is:     *)
(* pending, about to be submitted, in flight or collected; that whatever   *)
(* left pending had its references collected first; and what the main      *)
(* thread's position implies.                                              *)
(***************************************************************************)
EXTENDS NodeScheduler, FiniteSetTheorems, WellFoundedInduction, TLAPS

\* A node has a future once it is neither pending nor waiting to be submitted, and
\* from then on it is in flight or collected, never both.
NodesAccounted ==
  /\ pending \cap ready = {}
  /\ inFlight \cap outputs = {}
  /\ \A n \in Nodes(flow) :
       /\ future[n] = "none" <=> n \in pending \cup ready
       /\ future[n] # "none" <=> n \in inFlight \cup outputs
  /\ outputs \subseteq In("done")

\* Whatever left pending had all its references collected, and was not given the
\* first, empty dict if it has any.
ReferencesCollected ==
  /\ dict = "empty" => outputs = {}
  /\ \A n \in Nodes(flow) \ pending : Refs(flow, n) \subseteq outputs
  /\ \A n \in Nodes(flow) \ (pending \cup ready) :
       given[n] = "live" \/ Refs(flow, n) = {}

\* A queued future still has its work item.
QueueHoldsQueued ==
  \A n \in In("queued") : \E i \in 1 .. Len(workQueue) : workQueue[i] = n

\* What the main thread's position says of its variables.
MainThreadInv ==
  /\ ready # {} => pc = "submit"
  /\ pc \in {"submit", "wait", "collect"} => \A n \in pending : ~ IsReady(n)
  /\ pc = "wait" => outputs # Nodes(flow)
  /\ batch \subseteq inFlight \cap Ended
  /\ pc \in {"pop", "submit", "wait", "collect", "returned"} => error = 0
  /\ error = 0 => In("cancelled") = {}
  /\ pc \in {"cancel", "raised"} => error # 0
  /\ error # 0 => error \in Failed
  /\ pc = "cancel" => In("queued") \subseteq toCancel
  /\ pc = "cancel" => error \in In("raised")
  /\ pc = "exit" /\ error # 0 /\ error \in In("raised") => In("queued") = {}
  /\ pc \in {"exit", "returned"} /\ error = 0 => outputs = Nodes(flow)
  /\ pc \in {"returned", "raised"} => In("running") = {} /\ In("queued") = {}

IInv ==
  /\ TypeOK
  /\ NodesAccounted
  /\ ReferencesCollected
  /\ QueueHoldsQueued
  /\ MainThreadInv

-----------------------------------------------------------------------------
(* The flow graph *)

\* The nodes of a call are finitely many positions of flow.nodes, and every
\* reference of a node is to an earlier position.
LEMMA NodesFacts ==
  ASSUME NEW f \in Flows
  PROVE  /\ f.size \in Nat
         /\ Nodes(f) \subseteq 1 .. f.size
         /\ IsFiniteSet(Nodes(f))
         /\ \A n \in Nodes(f) : Refs(f, n) \subseteq 1 .. f.size /\ \A m \in Refs(f, n) : m < n
<1>1. IsFlow(f) /\ IsOrdered(f)
  BY FlowsAssumption
<1>2. f.size \in Nat /\ Nodes(f) \subseteq 1 .. f.size
  BY <1>1 DEF IsFlow, Nodes
<1>3. IsFiniteSet(Nodes(f))
  <2>1. IsFiniteSet(1 .. f.size)
    BY <1>2, FS_Interval
  <2> QED BY <1>2, <2>1, FS_Subset
<1>4. \A n \in Nodes(f) : Refs(f, n) \subseteq 1 .. f.size /\ \A m \in Refs(f, n) : m < n
  BY <1>1, <1>2 DEF IsFlow, IsOrdered, Refs
<1> QED BY <1>2, <1>3, <1>4

\* A non-empty set of positions has a first one.
EarlierThan == {ss \in Nat \X Nat : ss[1] < ss[2]}

LEMMA FirstExists ==
  ASSUME NEW T, T \subseteq Nat, T # {}
  PROVE  \E x \in T : \A y \in T : x <= y
<1>1. IsWellFoundedOn(EarlierThan, Nat)
  BY NatLessThanWellFounded DEF OpToRel, EarlierThan
<1>2. PICK x \in T : \A y \in T : ~ (<<y, x>> \in EarlierThan)
  BY <1>1, WFMin
<1>3. \A y \in T : ~ (y < x)
  BY <1>2 DEF EarlierThan
<1> QED BY <1>3

\* DAGManager.completed compares lengths; on collected outputs this says all nodes.
LEMMA CompletedMeansAll ==
  ASSUME flow \in Flows, outputs \subseteq Nodes(flow)
  PROVE  Completed <=> outputs = Nodes(flow)
BY NodesFacts, FS_Subset DEF Completed

-----------------------------------------------------------------------------
(* Type correctness *)

\* In every behaviour of the scheduler the variables keep their types.
THEOREM TypeCorrect == Spec => []TypeOK
<1>1. Init => TypeOK
  BY NodesFacts DEF Init, InitialPending, TypeOK, PCs, FutureStates
<1>2. TypeOK /\ [Next]_vars => TypeOK'
  <2> SUFFICES ASSUME TypeOK, [Next]_vars PROVE TypeOK'
    OBVIOUS
  <2> USE DEF TypeOK
  <2> Nodes(flow) \subseteq 1 .. flow.size
    BY NodesFacts
  <2>1. CASE PopReadyNodes
    BY <2>1 DEF PopReadyNodes, NotPopped, PCs
  <2>2. ASSUME NEW n \in NodeIds, SubmitNode(n) PROVE TypeOK'
    <3>1. n \in Nodes(flow)
      BY <2>2 DEF SubmitNode
    <3>2. workQueue' \in Seq(Nodes(flow))
      BY <2>2, <3>1 DEF SubmitNode
    <3> QED BY <2>2, <3>1, <3>2 DEF SubmitNode, FutureStates
  <2>3. CASE CheckCompleted
    BY <2>3 DEF CheckCompleted, PCs
  <2>4. CASE Wait
    BY <2>4 DEF Wait, PCs
  <2>5. CASE CollectOutputs
    BY <2>5 DEF CollectOutputs, StillInFlight, PCs
  <2>6. ASSUME NEW n \in NodeIds, CollectRaises(n) PROVE TypeOK'
    BY <2>6 DEF CollectRaises, ToBeCancelled, PCs
  <2>13. ASSUME NEW n \in NodeIds, CollectExits(n) PROVE TypeOK'
    BY <2>13 DEF CollectExits, PCs
  <2>7. ASSUME NEW n \in NodeIds, CancelFuture(n) PROVE TypeOK'
    BY <2>7 DEF CancelFuture, AfterCancel, FutureStates
  <2>8. CASE RaiseError
    BY <2>8 DEF RaiseError, PCs
  <2>9. CASE ExitPool
    BY <2>9 DEF ExitPool, PCs
  <2>10. CASE TakeWorkItem
    <3>1. workQueue' \in Seq(Nodes(flow)) /\ Head(workQueue) \in Nodes(flow)
      BY <2>10 DEF TakeWorkItem
    <3> QED BY <2>10, <3>1 DEF TakeWorkItem, mainVars, FutureStates
  <2>11. ASSUME NEW n \in NodeIds, NodeEnds(n) PROVE TypeOK'
    BY <2>11 DEF NodeEnds, NodeReturns, NodeRaises, NodeExits, In, mainVars, FutureStates
  <2>12. CASE UNCHANGED vars
    BY <2>12 DEF vars, mainVars
  <2> QED
    BY <2>1, <2>2, <2>3, <2>4, <2>5, <2>6, <2>7, <2>8, <2>9, <2>10, <2>11, <2>12, <2>13
    DEF Next, MainThread
<1> QED BY <1>1, <1>2, PTL DEF Spec

-----------------------------------------------------------------------------
(* The inductive invariant *)

LEMMA InitIInv == Init => IInv
<1> SUFFICES ASSUME Init PROVE IInv
  OBVIOUS
<1> USE NodesFacts DEF Init, InitialPending
<1>1. TypeOK
  BY DEF TypeOK, PCs, FutureStates
<1>2. NodesAccounted
  BY DEF NodesAccounted, In
<1>3. ReferencesCollected
  BY DEF ReferencesCollected
<1>4. QueueHoldsQueued
  BY DEF QueueHoldsQueued, In
<1>5. MainThreadInv
  BY DEF MainThreadInv, In, Ended, Failed
<1> QED BY <1>1, <1>2, <1>3, <1>4, <1>5 DEF IInv

LEMMA PopReadyNodesIInv ==
  ASSUME IInv, TypeOK', PopReadyNodes PROVE IInv'
<1> USE DEF IInv, PopReadyNodes, NotPopped, TypeOK
<1>1. NodesAccounted'
  <2>1. ready = {}
    BY DEF MainThreadInv
  <2> QED BY <2>1 DEF NodesAccounted, In
<1>2. ReferencesCollected'
  BY DEF ReferencesCollected, MainThreadInv, IsReady
<1>3. QueueHoldsQueued'
  BY DEF QueueHoldsQueued, In
<1>4. MainThreadInv'
  BY DEF MainThreadInv, In, Ended, Failed, IsReady
<1> QED BY <1>1, <1>2, <1>3, <1>4

LEMMA SubmitNodeIInv ==
  ASSUME IInv, TypeOK', NEW n \in NodeIds, SubmitNode(n) PROVE IInv'
<1> USE DEF IInv, SubmitNode, TypeOK
<1>0. n \in Nodes(flow) /\ n \in 1 .. flow.size /\ future[n] = "none" /\ n \notin inFlight \cup outputs
  BY NodesFacts DEF NodesAccounted
<1>1. NodesAccounted'
  BY <1>0, NodesFacts DEF NodesAccounted, In
<1>2. ReferencesCollected'
  BY <1>0, NodesFacts DEF ReferencesCollected, NodesAccounted
<1>3. QueueHoldsQueued'
  <2> SUFFICES ASSUME NEW m \in Nodes(flow), future'[m] = "queued"
               PROVE  \E i \in 1 .. Len(workQueue') : workQueue'[i] = m
    BY DEF QueueHoldsQueued, In
  <2>1. Len(workQueue') = Len(workQueue) + 1 /\ workQueue'[Len(workQueue) + 1] = n
        /\ \A i \in 1 .. Len(workQueue) : workQueue'[i] = workQueue[i]
    BY <1>0
  <2>2. CASE m = n
    BY <2>1, <2>2
  <2>3. CASE m # n
    <3>1. future[m] = "queued"
      BY <2>3, <1>0, NodesFacts
    <3>2. PICK i \in 1 .. Len(workQueue) : workQueue[i] = m
      BY <3>1 DEF QueueHoldsQueued, In
    <3> QED BY <3>2, <2>1
  <2> QED BY <2>2, <2>3
<1>4. MainThreadInv'
  BY <1>0, NodesFacts DEF MainThreadInv, In, Ended, Failed, IsReady
<1> QED BY <1>1, <1>2, <1>3, <1>4

LEMMA CheckCompletedIInv ==
  ASSUME IInv, TypeOK', CheckCompleted PROVE IInv'
<1> USE DEF IInv, CheckCompleted
<1>1. NodesAccounted'
  BY DEF NodesAccounted, In
<1>2. ReferencesCollected'
  BY DEF ReferencesCollected
<1>3. QueueHoldsQueued'
  BY DEF QueueHoldsQueued, In
<1>4. MainThreadInv'
  <2>1. pc' \in {"exit", "wait"} /\ (pc' = "exit" <=> outputs = Nodes(flow))
    BY CompletedMeansAll DEF TypeOK
  <2> QED BY <2>1 DEF MainThreadInv, In, Ended, Failed, IsReady
<1> QED BY <1>1, <1>2, <1>3, <1>4

LEMMA WaitIInv ==
  ASSUME IInv, TypeOK', Wait PROVE IInv'
<1> USE DEF IInv, Wait
<1>1. NodesAccounted'
  BY DEF NodesAccounted, In
<1>2. ReferencesCollected'
  BY DEF ReferencesCollected
<1>3. QueueHoldsQueued'
  BY DEF QueueHoldsQueued, In
<1>4. MainThreadInv'
  BY DEF MainThreadInv, In, Ended, Failed, IsReady
<1> QED BY <1>1, <1>2, <1>3, <1>4

LEMMA CollectOutputsIInv ==
  ASSUME IInv, TypeOK', CollectOutputs PROVE IInv'
<1> USE DEF IInv, CollectOutputs, StillInFlight, TypeOK
<1>0. batch \subseteq inFlight /\ batch \subseteq In("done") /\ In("done")' = In("done")
  BY DEF MainThreadInv, In
<1>1. NodesAccounted'
  BY <1>0 DEF NodesAccounted
<1>2. ReferencesCollected'
  BY DEF ReferencesCollected
<1>3. QueueHoldsQueued'
  BY DEF QueueHoldsQueued, In
<1>4. MainThreadInv'
  BY DEF MainThreadInv, In, Ended, Failed
<1> QED BY <1>1, <1>2, <1>3, <1>4

LEMMA CollectRaisesIInv ==
  ASSUME IInv, TypeOK', NEW n \in NodeIds, CollectRaises(n) PROVE IInv'
<1> USE DEF IInv, CollectRaises, ToBeCancelled, TypeOK
<1>1. NodesAccounted'
  BY DEF NodesAccounted, In
<1>2. ReferencesCollected'
  BY DEF ReferencesCollected
<1>3. QueueHoldsQueued'
  BY DEF QueueHoldsQueued, In
<1>4. MainThreadInv'
  <2>1. In("queued") \subseteq inFlight
    BY DEF NodesAccounted, In
  <2>2. n # 0 /\ n \in In("raised")
    BY NodesFacts DEF In
  <2> QED BY <2>1, <2>2 DEF MainThreadInv, In, Ended, Failed
<1> QED BY <1>1, <1>2, <1>3, <1>4

LEMMA CollectExitsIInv ==
  ASSUME IInv, TypeOK', NEW n \in NodeIds, CollectExits(n) PROVE IInv'
<1> USE DEF IInv, CollectExits, TypeOK
<1>1. NodesAccounted'
  BY DEF NodesAccounted, In
<1>2. ReferencesCollected'
  BY DEF ReferencesCollected
<1>3. QueueHoldsQueued'
  BY DEF QueueHoldsQueued, In
<1>4. MainThreadInv'
  <2>1. n # 0 /\ n \in In("exited") /\ n \notin In("raised")
    BY NodesFacts DEF In
  <2> QED BY <2>1 DEF MainThreadInv, In, Ended, Failed
<1> QED BY <1>1, <1>2, <1>3, <1>4

LEMMA CancelFutureIInv ==
  ASSUME IInv, TypeOK', NEW n \in NodeIds, CancelFuture(n) PROVE IInv'
<1> USE DEF IInv, CancelFuture, AfterCancel, TypeOK
<1>0. n \in Nodes(flow) /\ n \in 1 .. flow.size
  BY NodesFacts
<1>1. NodesAccounted'
  BY <1>0, NodesFacts DEF NodesAccounted, In
<1>2. ReferencesCollected'
  BY DEF ReferencesCollected
<1>3. QueueHoldsQueued'
  BY <1>0, NodesFacts DEF QueueHoldsQueued, In
<1>4. MainThreadInv'
  BY <1>0, NodesFacts DEF MainThreadInv, In, Ended, Failed
<1> QED BY <1>1, <1>2, <1>3, <1>4

LEMMA RaiseErrorIInv ==
  ASSUME IInv, TypeOK', RaiseError PROVE IInv'
<1> USE DEF IInv, RaiseError
<1>1. NodesAccounted'
  BY DEF NodesAccounted, In
<1>2. ReferencesCollected'
  BY DEF ReferencesCollected
<1>3. QueueHoldsQueued'
  BY DEF QueueHoldsQueued, In
<1>4. MainThreadInv'
  BY DEF MainThreadInv, In, Ended, Failed
<1> QED BY <1>1, <1>2, <1>3, <1>4

LEMMA ExitPoolIInv ==
  ASSUME IInv, TypeOK', ExitPool PROVE IInv'
<1> USE DEF IInv, ExitPool, PoolDrained
<1>1. NodesAccounted'
  BY DEF NodesAccounted, In
<1>2. ReferencesCollected'
  BY DEF ReferencesCollected
<1>3. QueueHoldsQueued'
  BY DEF QueueHoldsQueued, In
<1>4. MainThreadInv'
  <2>1. In("queued") = {}
    BY DEF QueueHoldsQueued
  <2> QED BY <2>1 DEF MainThreadInv, In, Ended, Failed
<1> QED BY <1>1, <1>2, <1>3, <1>4

LEMMA TakeWorkItemIInv ==
  ASSUME IInv, TypeOK', TakeWorkItem PROVE IInv'
<1> USE DEF IInv, TypeOK
<1> DEFINE h == Head(workQueue)
<1>0. /\ h \in Nodes(flow) /\ h \in 1 .. flow.size
      /\ future' = [future EXCEPT ![h] = IF @ = "queued" THEN "running" ELSE @]
      /\ workQueue' = Tail(workQueue)
      /\ UNCHANGED <<flow, mainVars, given>>
  BY NodesFacts DEF TakeWorkItem
<1>u. UNCHANGED <<flow, pc, pending, ready, outputs, dict, inFlight, batch, toCancel, error, given>>
  BY <1>0 DEF mainVars
<1>q. \A m \in Nodes(flow) : future'[m] = IF m = h /\ future[m] = "queued" THEN "running" ELSE future[m]
  BY <1>0, NodesFacts
<1> HIDE DEF h
<1>1. NodesAccounted'
  BY <1>q, <1>u DEF NodesAccounted, In
<1>2. ReferencesCollected'
  BY <1>u DEF ReferencesCollected
<1>3. QueueHoldsQueued'
  <2> SUFFICES ASSUME NEW m \in Nodes(flow), future'[m] = "queued"
               PROVE  \E i \in 1 .. Len(workQueue') : workQueue'[i] = m
    BY <1>u DEF QueueHoldsQueued, In
  <2>1. future[m] = "queued" /\ m # h
    BY <1>q
  <2>2. PICK i \in 1 .. Len(workQueue) : workQueue[i] = m
    BY <2>1 DEF QueueHoldsQueued, In
  <2>3. i # 1 /\ workQueue # <<>>
    BY <2>1, <2>2 DEF h
  <2>4. Len(workQueue') = Len(workQueue) - 1 /\ workQueue'[i - 1] = workQueue[i]
    BY <1>0, <2>3
  <2> QED BY <2>2, <2>3, <2>4
<1>4. MainThreadInv'
  <2>1. /\ In("queued")' \subseteq In("queued") /\ In("done")' = In("done")
        /\ In("raised")' = In("raised") /\ In("exited")' = In("exited")
        /\ In("cancelled")' = In("cancelled")
        /\ In("queued") = {} => In("running")' = In("running")
    BY <1>q, <1>u DEF In
  <2>2. Failed' = Failed /\ Ended' = Ended
    BY <2>1 DEF Failed, Ended
  <2> QED BY <2>1, <2>2, <1>u DEF MainThreadInv, IsReady
<1> QED BY <1>1, <1>2, <1>3, <1>4

LEMMA NodeEndsIInv ==
  ASSUME IInv, TypeOK', NEW n \in NodeIds, NodeEnds(n) PROVE IInv'
<1> USE DEF IInv, TypeOK
<1>0. n \in Nodes(flow) /\ n \in 1 .. flow.size /\ future[n] = "running"
  BY NodesFacts DEF NodeEnds, NodeReturns, NodeRaises, NodeExits, In
<1>u. UNCHANGED <<flow, pc, pending, ready, outputs, dict, inFlight, batch, toCancel, error,
                  given, workQueue>>
  BY DEF NodeEnds, NodeReturns, NodeRaises, NodeExits, mainVars
<1>q. \A m \in Nodes(flow) : IF m = n THEN future'[m] \in {"done", "raised", "exited"} ELSE future'[m] = future[m]
  BY NodesFacts DEF NodeEnds, NodeReturns, NodeRaises, NodeExits
<1>1. NodesAccounted'
  BY <1>0, <1>q, <1>u DEF NodesAccounted, In
<1>2. ReferencesCollected'
  BY <1>u DEF ReferencesCollected
<1>3. QueueHoldsQueued'
  BY <1>0, <1>q, <1>u DEF QueueHoldsQueued, In
<1>4. MainThreadInv'
  <2>1. /\ In("queued")' = In("queued") /\ In("cancelled")' = In("cancelled")
        /\ In("raised") \subseteq In("raised")' /\ In("exited") \subseteq In("exited")'
        /\ In("done") \subseteq In("done")'
        /\ In("running") # {}
    BY <1>0, <1>q, <1>u DEF In
  <2>2. Ended \subseteq Ended'
    BY <2>1 DEF Ended, Failed
  <2>3. error # 0 => error \in Failed' /\ (error \in In("raised")' => error \in In("raised"))
    BY <1>0, <1>q, <1>u DEF MainThreadInv, Failed, In
  <2> QED BY <2>1, <2>2, <2>3, <1>u DEF MainThreadInv, IsReady
<1> QED BY <1>1, <1>2, <1>3, <1>4

\* IInv holds initially and every step preserves it.
THEOREM Invariance == Spec => []IInv
<1>1. IInv /\ TypeOK' /\ [Next]_vars => IInv'
  <2> SUFFICES ASSUME IInv, TypeOK', [Next]_vars PROVE IInv'
    OBVIOUS
  <2>1. CASE UNCHANGED vars
    BY <2>1 DEF vars, mainVars, IInv, TypeOK, NodesAccounted, ReferencesCollected,
      QueueHoldsQueued, MainThreadInv, In, Ended, Failed, IsReady
  <2> QED
    BY <2>1, PopReadyNodesIInv, SubmitNodeIInv, CheckCompletedIInv, WaitIInv, CollectOutputsIInv,
       CollectRaisesIInv, CollectExitsIInv, CancelFutureIInv, RaiseErrorIInv, ExitPoolIInv, TakeWorkItemIInv,
       NodeEndsIInv
    DEF Next, MainThread
<1> QED BY InitIInv, TypeCorrect, <1>1, PTL DEF Spec

-----------------------------------------------------------------------------
(* What follows from the invariant *)

\* A running node finds all its references in the dict it was given.
THEOREM NoMissingInput == Spec => []InputsAvailable
<1>1. IInv => InputsAvailable
  <2> SUFFICES ASSUME IInv, NEW n \in In("running") PROVE Refs(flow, n) \subseteq Visible(n)
    BY DEF InputsAvailable
  <2>1. n \in Nodes(flow) /\ n \notin pending \cup ready
    BY DEF IInv, NodesAccounted, In
  <2> QED BY <2>1 DEF IInv, ReferencesCollected, Visible
<1> QED BY <1>1, Invariance, PTL

\* The main thread runs out of futures only if some node refers to a node that is
\* not part of the call.  Otherwise the first pending node would be ready: its
\* references point to earlier nodes, which are all collected.
THEOREM NoSpin == Spec => []SpinsOnlyIfUnsatisfiable
<1>1. IInv => SpinsOnlyIfUnsatisfiable
  <2> SUFFICES ASSUME IInv, pc = "wait", inFlight = {} PROVE Unsatisfiable(flow)
    BY DEF SpinsOnlyIfUnsatisfiable
  <2> USE DEF IInv
  <2>1. ready = {} /\ outputs # Nodes(flow) /\ \A n \in pending : ~ IsReady(n)
    BY DEF MainThreadInv
  <2>2. pending = Nodes(flow) \ outputs /\ pending # {}
    BY <2>1 DEF NodesAccounted, TypeOK
  <2>3. pending \subseteq Nat
    BY NodesFacts DEF TypeOK
  <2>4. PICK n \in pending : \A m \in pending : n <= m
    BY <2>2, <2>3, FirstExists
  <2>5. PICK r \in Refs(flow, n) : r \notin outputs
    BY <2>1 DEF IsReady
  <2>6. n \in Nodes(flow) /\ r < n /\ r \in Nat /\ n \in Nat
    BY <2>2, <2>3, <2>5, NodesFacts DEF TypeOK
  <2>7. r \notin Nodes(flow)
    BY <2>2, <2>4, <2>5, <2>6
  <2> QED BY <2>5, <2>6, <2>7 DEF Unsatisfiable
<1> QED BY <1>1, Invariance, PTL

\* The call ends with every output or with a failed node's error, and with the pool idle.
THEOREM QuiescentEnd == Spec => []EndsQuiescent
<1>1. IInv => EndsQuiescent
  BY DEF IInv, TypeOK, NodesAccounted, MainThreadInv, EndsQuiescent, In
<1> QED BY <1>1, Invariance, PTL

\* No node's tool is run twice.
THEOREM AtMostOnce == Spec => RunsOnce
<1>1. IInv /\ [Next]_vars =>
        [\A n \in Nodes(flow) :
           /\ future[n] = "running" => future'[n] \in {"running", "done", "raised", "exited"}
           /\ future[n] \in {"done", "raised", "exited", "cancelled"} => future'[n] = future[n]]_vars
  <2> SUFFICES ASSUME IInv, Next, NEW n \in Nodes(flow)
               PROVE  /\ future[n] = "running" => future'[n] \in {"running", "done", "raised", "exited"}
                      /\ future[n] \in {"done", "raised", "exited", "cancelled"} => future'[n] = future[n]
    OBVIOUS
  <2> USE DEF IInv, TypeOK
  <2>1. CASE PopReadyNodes \/ CheckCompleted \/ Wait \/ CollectOutputs \/ RaiseError \/ ExitPool
    BY <2>1 DEF PopReadyNodes, CheckCompleted, Wait, CollectOutputs, RaiseError, ExitPool
  <2>2. ASSUME NEW m \in NodeIds, SubmitNode(m) PROVE future[m] = "none" /\ (m # n => future'[n] = future[n])
    BY <2>2, NodesFacts DEF SubmitNode, NodesAccounted
  <2>3. ASSUME NEW m \in NodeIds, CollectRaises(m) PROVE future' = future
    BY <2>3 DEF CollectRaises, ToBeCancelled
  <2>7. ASSUME NEW m \in NodeIds, CollectExits(m) PROVE future' = future
    BY <2>7 DEF CollectExits
  <2>4. ASSUME NEW m \in NodeIds, CancelFuture(m) PROVE future'[n] = future[n] \/ future[n] = "queued"
    BY <2>4, NodesFacts DEF CancelFuture, AfterCancel
  <2>5. CASE TakeWorkItem
    <3>1. future'[n] = future[n] \/ future[n] = "queued"
      BY <2>5, NodesFacts DEF TakeWorkItem
    <3> QED BY <3>1
  <2>6. ASSUME NEW m \in NodeIds, NodeEnds(m)
        PROVE  future'[n] = future[n] \/ (future[n] = "running" /\ future'[n] \in {"done", "raised", "exited"})
    BY <2>6, NodesFacts DEF NodeEnds, NodeReturns, NodeRaises, NodeExits, In
  <2> QED BY <2>1, <2>2, <2>3, <2>4, <2>5, <2>6, <2>7 DEF Next, MainThread
<1> QED BY <1>1, Invariance, PTL DEF RunsOnce, Spec

\* While a node's Exception is on its way out of execute no further node starts.
THEOREM NoLateStart == Spec => NothingStartsAfterError
<1>1. IInv /\ [Next]_vars =>
        [pc = "exit" /\ error \in In("raised") => In("running")' \subseteq In("running")]_vars
  <2> SUFFICES ASSUME IInv, Next, pc = "exit", error \in In("raised")
               PROVE  In("running")' \subseteq In("running")
    OBVIOUS
  <2> USE DEF IInv, TypeOK
  <2>1. In("queued") = {}
    <3>1. error # 0
      BY NodesFacts DEF In
    <3> QED BY <3>1 DEF MainThreadInv
  <2>2. ready = {}
    BY DEF MainThreadInv
  <2>3. CASE ExitPool
    BY <2>3 DEF ExitPool, In
  <2>4. CASE TakeWorkItem
    BY <2>1, <2>4, NodesFacts DEF TakeWorkItem, In
  <2>5. ASSUME NEW m \in NodeIds, NodeEnds(m) PROVE In("running")' \subseteq In("running")
    BY <2>5, NodesFacts DEF NodeEnds, NodeReturns, NodeRaises, NodeExits, In
  <2> QED
    BY <2>3, <2>4, <2>5
    DEF Next, MainThread, PopReadyNodes, SubmitNode, CheckCompleted, Wait, CollectOutputs,
        CollectRaises, CollectExits, ToBeCancelled, CancelFuture, RaiseError
<1> QED BY <1>1, Invariance, PTL DEF NothingStartsAfterError, Spec

-----------------------------------------------------------------------------
(* Progress *)

\* There is less to do when nothing was added to any part and one lost something.
LEMMA TodoShrinks ==
  ASSUME flow' = flow, In("none")' \subseteq In("none"), Ended \subseteq Ended',
         outputs \subseteq outputs',
         \/ In("none")' # In("none")
         \/ \E n \in Nodes(flow) : n \in Ended' \ Ended
         \/ \E n \in Nodes(flow) : n \in outputs' \ outputs
  PROVE  Shrinks(Todo', Todo)
<1>1. Todo' \subseteq Todo
  BY DEF Todo
<1>2. Todo' # Todo
  <2>1. CASE In("none")' # In("none")
    <3>1. PICK n : n \in In("none") /\ n \notin In("none")'
      BY <2>1
    <3>2. <<"submit", n>> \in Todo /\ <<"submit", n>> \notin Todo'
      BY <3>1 DEF Todo
    <3> QED BY <3>2
  <2>2. ASSUME NEW n \in Nodes(flow), n \in Ended' \ Ended PROVE Todo' # Todo
    <3>1. <<"end", n>> \in Todo /\ <<"end", n>> \notin Todo'
      BY <2>2 DEF Todo
    <3> QED BY <3>1
  <2>3. ASSUME NEW n \in Nodes(flow), n \in outputs' \ outputs PROVE Todo' # Todo
    <3>1. <<"collect", n>> \in Todo /\ <<"collect", n>> \notin Todo'
      BY <2>3 DEF Todo
    <3> QED BY <3>1
  <2> QED BY <2>1, <2>2, <2>3
<1> QED BY <1>1, <1>2 DEF Shrinks

\* A step that leaves futures and outputs alone leaves as much to do.
LEMMA TodoSame ==
  ASSUME UNCHANGED <<flow, future, outputs>>
  PROVE  Todo' = Todo
BY DEF Todo, In, Ended, Failed

\* When the main thread collects, it has something to collect, if every reference can
\* be satisfied.
BatchNotEmpty == pc = "collect" /\ ~ Unsatisfiable(flow) => batch # {}

LEMMA BatchNotEmptyStep ==
  ASSUME IInv, SpinsOnlyIfUnsatisfiable, BatchNotEmpty, [Next]_vars
  PROVE  BatchNotEmpty'
<1> USE DEF BatchNotEmpty
<1>1. CASE PopReadyNodes \/ CheckCompleted \/ RaiseError \/ ExitPool \/ CollectOutputs
  BY <1>1 DEF PopReadyNodes, CheckCompleted, RaiseError, ExitPool, CollectOutputs
<1>2. CASE Wait
  <2>1. ~ Unsatisfiable(flow) => inFlight # {}
    BY <1>2 DEF Wait, SpinsOnlyIfUnsatisfiable
  <2> QED BY <1>2, <2>1 DEF Wait
<1>3. ASSUME NEW n \in NodeIds, SubmitNode(n) \/ CollectRaises(n) \/ CollectExits(n) \/ CancelFuture(n)
      PROVE  BatchNotEmpty'
  BY <1>3 DEF SubmitNode, CollectRaises, CollectExits, CancelFuture
<1>4. ASSUME UNCHANGED <<flow, pc, batch>> PROVE BatchNotEmpty'
  BY <1>4
<1>5. CASE TakeWorkItem
  BY <1>4, <1>5 DEF TakeWorkItem, mainVars
<1>6. ASSUME NEW n \in NodeIds, NodeEnds(n) PROVE BatchNotEmpty'
  BY <1>4, <1>6 DEF NodeEnds, NodeReturns, NodeRaises, NodeExits, mainVars
<1>7. CASE UNCHANGED vars
  BY <1>4, <1>7 DEF vars, mainVars
<1> QED BY <1>1, <1>2, <1>3, <1>5, <1>6, <1>7 DEF Next, MainThread

\* Whenever the main thread collects a call that can be satisfied, its batch is not empty.
THEOREM NoEmptyCollection == Spec => []BatchNotEmpty
<1>1. Init => BatchNotEmpty
  BY DEF Init, BatchNotEmpty
<1> QED BY <1>1, BatchNotEmptyStep, Invariance, NoSpin, PTL DEF Spec

\* The steps of the loop that touch no future and no output move on to the next place.
LEMMA LoopAdvances ==
  ASSUME IInv, PopReadyNodes \/ CheckCompleted \/ Wait
  PROVE  Advances
<1>1. UNCHANGED <<flow, future, outputs, workQueue, toCancel>>
  BY DEF PopReadyNodes, CheckCompleted, Wait
<1>2. Todo' = Todo
  BY <1>1, TodoSame
<1>3. \/ pc = "pop" /\ pc' = "submit"
      \/ pc = "submit" /\ pc' \in {"wait", "exit"}
      \/ pc = "wait" /\ pc' = "collect"
  BY DEF PopReadyNodes, CheckCompleted, Wait
<1>4. Phase' < Phase \/ (Phase' = Phase /\ LoopRank' < LoopRank)
  BY <1>3 DEF Phase, LoopRank
<1> QED BY <1>1, <1>2, <1>4 DEF Advances

\* The futures that have ended, by their states.
EndStates == {"done", "raised", "exited", "cancelled"}
LEMMA EndedFacts ==
  /\ \A m : m \in Ended <=> m \in Nodes(flow) /\ future[m] \in EndStates
  /\ \A m : m \in Ended' <=> m \in Nodes(flow') /\ future'[m] \in EndStates
<1>1. \A m : m \in Ended <=> m \in Nodes(flow) /\ future[m] \in EndStates
  BY DEF Ended, Failed, In, EndStates
<1>2. \A m : m \in Ended' <=> m \in Nodes(flow') /\ future'[m] \in EndStates
  BY DEF Ended, Failed, In, EndStates
<1> QED BY <1>1, <1>2

LEMMA SubmitAdvances ==
  ASSUME IInv, NEW n \in NodeIds, SubmitNode(n)
  PROVE  Advances
<1> USE DEF IInv, TypeOK
<1>1. n \in Nodes(flow) /\ n \in 1 .. flow.size /\ future[n] = "none"
  BY NodesFacts DEF SubmitNode, NodesAccounted
<1>2. \A m \in Nodes(flow) : future'[m] = IF m = n THEN "queued" ELSE future[m]
  BY <1>1, NodesFacts DEF SubmitNode
<1>3. UNCHANGED <<flow, outputs, pc>>
  BY DEF SubmitNode
<1>4. In("none")' \subseteq In("none") /\ In("none")' # In("none")
  BY <1>1, <1>2, <1>3 DEF In
<1>5. Ended \subseteq Ended'
  BY <1>1, <1>2, <1>3, EndedFacts DEF EndStates
<1>6. outputs \subseteq outputs'
  BY <1>3
<1>7. Shrinks(Todo', Todo)
  BY <1>3, <1>4, <1>5, <1>6, TodoShrinks
<1>8. Phase' = Phase
  BY <1>3 DEF Phase
<1> QED BY <1>7, <1>8 DEF Advances

\* A batch that is not empty brings new outputs: what is in flight was not collected yet.
LEMMA CollectAdvances ==
  ASSUME IInv, BatchNotEmpty, ~ Unsatisfiable(flow), CollectOutputs
  PROVE  Advances
<1>1. PICK n : n \in batch
  BY DEF BatchNotEmpty, CollectOutputs
<1>2. n \in Nodes(flow) /\ n \notin outputs
  BY <1>1 DEF IInv, TypeOK, MainThreadInv, NodesAccounted
<1>3. UNCHANGED <<flow, future>> /\ outputs' = outputs \cup batch
  BY DEF CollectOutputs
<1>4. In("none")' \subseteq In("none") /\ Ended \subseteq Ended'
  BY <1>3 DEF In, Ended, Failed
<1>5. \E m \in Nodes(flow) : m \in outputs' \ outputs
  BY <1>1, <1>2, <1>3
<1>6. Shrinks(Todo', Todo)
  BY <1>3, <1>4, <1>5, TodoShrinks
<1>7. Phase' = Phase
  BY DEF CollectOutputs, Phase
<1> QED BY <1>6, <1>7 DEF Advances

\* Failing, leaving the cancel loop and leaving the pool are later phases.
LEMMA PhaseAdvances ==
  ASSUME RaiseError \/ ExitPool \/ \E n \in NodeIds : CollectRaises(n) \/ CollectExits(n)
  PROVE  Advances
<1>1. \/ pc = "collect" /\ pc' \in {"cancel", "exit"}
      \/ pc = "cancel" /\ pc' = "exit"
      \/ pc = "exit" /\ pc' \in {"returned", "raised"}
  BY DEF RaiseError, ExitPool, CollectRaises, CollectExits
<1>2. Phase' < Phase
  BY <1>1 DEF Phase
<1> QED BY <1>2 DEF Advances

LEMMA CancelAdvances ==
  ASSUME IInv, NEW n \in NodeIds, CancelFuture(n)
  PROVE  Advances
<1> USE DEF IInv, TypeOK
<1>1. n \in Nodes(flow) /\ n \in 1 .. flow.size
  BY NodesFacts DEF CancelFuture
<1>2. \A m \in Nodes(flow) : future'[m] = IF m = n THEN AfterCancel(future[m]) ELSE future[m]
  BY <1>1, NodesFacts DEF CancelFuture
<1>3. UNCHANGED <<flow, outputs, pc, workQueue>>
  BY DEF CancelFuture
<1>4. Phase' = Phase
  BY <1>3 DEF Phase
<1>5. CASE future[n] = "queued"
  <2>1. In("none")' \subseteq In("none")
    BY <1>1, <1>2, <1>3, <1>5 DEF In, AfterCancel
  <2>2. Ended \subseteq Ended'
    BY <1>1, <1>2, <1>3, <1>5, EndedFacts DEF EndStates, AfterCancel
  <2>3. n \in Ended' \ Ended
    BY <1>1, <1>2, <1>3, <1>5, EndedFacts DEF EndStates, AfterCancel
  <2>4. \E m \in Nodes(flow) : m \in Ended' \ Ended
    BY <1>1, <2>3
  <2>5. outputs \subseteq outputs'
    BY <1>3
  <2>6. Shrinks(Todo', Todo)
    BY <1>3, <2>1, <2>2, <2>4, <2>5, TodoShrinks
  <2> QED BY <1>4, <2>6 DEF Advances
<1>6. CASE future[n] # "queued"
  <2>1. future' = future
    BY <1>6 DEF CancelFuture, AfterCancel
  <2>2. Todo' = Todo
    BY <1>3, <2>1, TodoSame
  <2>3. Shrinks(toCancel', toCancel)
    BY DEF CancelFuture, Shrinks
  <2> QED BY <1>3, <1>4, <2>2, <2>3 DEF Advances
<1> QED BY <1>5, <1>6

LEMMA TakeAdvances ==
  ASSUME IInv, TakeWorkItem
  PROVE  Advances
<1> USE DEF IInv, TypeOK
<1> DEFINE h == Head(workQueue)
<1>1. h \in Nodes(flow) /\ h \in 1 .. flow.size
  BY NodesFacts DEF TakeWorkItem
<1>2. future' = [future EXCEPT ![h] = IF @ = "queued" THEN "running" ELSE @]
  BY DEF TakeWorkItem
<1> HIDE DEF h
<1>3. \A m \in Nodes(flow) : future'[m] = IF m = h /\ future[m] = "queued" THEN "running" ELSE future[m]
  BY <1>1, <1>2, NodesFacts
<1>4. UNCHANGED <<flow, pc, outputs>>
  BY DEF TakeWorkItem, mainVars
<1>5. /\ In("none")' = In("none") /\ In("done")' = In("done")
      /\ In("raised")' = In("raised") /\ In("cancelled")' = In("cancelled")
      /\ In("exited")' = In("exited")
  BY <1>3, <1>4 DEF In
<1>6. Todo' = Todo
  BY <1>4, <1>5 DEF Todo, Ended, Failed
<1>7. Len(workQueue') < Len(workQueue)
  BY DEF TakeWorkItem
<1>8. Phase' = Phase
  BY <1>4 DEF Phase
<1> QED BY <1>6, <1>7, <1>8 DEF Advances

LEMMA EndAdvances ==
  ASSUME IInv, NEW n \in NodeIds, NodeEnds(n)
  PROVE  Advances
<1> USE DEF IInv, TypeOK
<1>1. n \in Nodes(flow) /\ n \in 1 .. flow.size /\ future[n] = "running"
  BY NodesFacts DEF NodeEnds, NodeReturns, NodeRaises, NodeExits, In
<1>2. \A m \in Nodes(flow) : IF m = n THEN future'[m] \in {"done", "raised", "exited"} ELSE future'[m] = future[m]
  BY NodesFacts DEF NodeEnds, NodeReturns, NodeRaises, NodeExits
<1>3. UNCHANGED <<flow, pc, outputs>>
  BY DEF NodeEnds, NodeReturns, NodeRaises, NodeExits, mainVars
<1>4. In("none")' \subseteq In("none")
  BY <1>1, <1>2, <1>3 DEF In
<1>5. Ended \subseteq Ended' /\ n \in Ended' \ Ended
  BY <1>1, <1>2, <1>3, EndedFacts DEF EndStates
<1>6. \E m \in Nodes(flow) : m \in Ended' \ Ended
  BY <1>1, <1>5
<1>7. outputs \subseteq outputs'
  BY <1>3
<1>8. Shrinks(Todo', Todo)
  BY <1>3, <1>4, <1>5, <1>6, <1>7, TodoShrinks
<1>9. Phase' = Phase
  BY <1>3 DEF Phase
<1> QED BY <1>8, <1>9 DEF Advances

\* In a call whose references can be satisfied every step of the main thread and of the
\* pool leaves less to do: no behaviour takes steps for ever.
THEOREM NoStepInVain == Spec => EveryStepAdvances
<1>1. IInv /\ BatchNotEmpty /\ [Next]_vars => [~ Unsatisfiable(flow) => Advances]_vars
  <2> SUFFICES ASSUME IInv, BatchNotEmpty, Next, ~ Unsatisfiable(flow) PROVE Advances
    OBVIOUS
  <2> QED
    BY LoopAdvances, SubmitAdvances, CollectAdvances, PhaseAdvances, CancelAdvances, TakeAdvances,
       EndAdvances
    DEF Next, MainThread
<1> QED BY <1>1, Invariance, NoEmptyCollection, PTL DEF EveryStepAdvances, Spec

\* What some thread can do: the guards of the actions.
MainCanStep ==
  \/ pc \in {"pop", "submit", "cancel"}
  \/ pc = "wait" /\ (inFlight \cap Ended # {} \/ inFlight = {})
  \/ pc = "collect" /\ (batch \subseteq In("done") \/ batch \cap Failed # {})
  \/ pc = "exit" /\ PoolDrained
PoolCanStep == In("running") # {} \/ (workQueue # <<>> /\ HasFreeThread)

NeverStuck == pc \in {"returned", "raised"} \/ MainCanStep \/ PoolCanStep

\* Until execute returns or raises some thread can take a step: what is queued finds a
\* free thread when no tool runs, and what is in flight is queued, running or ended.
THEOREM AlwaysCanStep == Spec => []NeverStuck
<1>1. IInv => NeverStuck
  <2> SUFFICES ASSUME IInv, In("running") = {}, pc \notin {"returned", "raised"}
               PROVE  MainCanStep \/ PoolCanStep
    BY DEF NeverStuck, PoolCanStep
  <2> USE DEF IInv, TypeOK
  <2>1. HasFreeThread
    <3>1. Cardinality(In("running")) = 0
      BY FS_EmptySet, Zenon
    <3>2. MaxWorkers > 0
      BY ConcurrencyAssumption DEF MaxWorkers
    <3> QED BY <3>1, <3>2 DEF HasFreeThread
  <2>2. CASE workQueue # <<>>
    BY <2>1, <2>2 DEF PoolCanStep
  <2>3. CASE workQueue = <<>>
    <3>1. In("queued") = {}
      BY <2>3 DEF QueueHoldsQueued
    <3>2. CASE pc = "wait"
      <4>1. \A n \in inFlight : n \in Ended
        BY <3>1, NodesFacts DEF NodesAccounted, Ended, Failed, In, FutureStates
      <4> QED BY <3>2, <4>1 DEF MainCanStep
    <3>3. CASE pc = "collect"
      <4>1. batch \subseteq Ended /\ In("cancelled") = {}
        BY <3>3 DEF MainThreadInv
      <4> QED BY <3>3, <4>1 DEF MainCanStep, Ended
    <3>4. CASE pc = "exit"
      BY <2>3, <3>4 DEF MainCanStep, PoolDrained
    <3> QED BY <3>2, <3>3, <3>4 DEF MainCanStep, PCs
  <2> QED BY <2>2, <2>3
<1> QED BY <1>1, Invariance, PTL

-----------------------------------------------------------------------------
(* Refinement *)

\* The scheduler's threads implement DagExecution: taking a queued item starts a
\* node, a tool's end finishes or fails it, and leaving the with block is the
\* return or the raise.  Every other step is invisible.
THEOREM Implementation == Spec => ImplementsDagExecution
<1>1. Init => Dag!Init
  BY NodesFacts DEF Init, Dag!Init, In, Failed
<1>2. IInv /\ IInv' /\ [Next]_vars => [Dag!Next]_(Dag!vars)
  <2> SUFFICES ASSUME IInv, IInv', [Next]_vars PROVE [Dag!Next]_(Dag!vars)
    OBVIOUS
  <2> USE DEF IInv, TypeOK
  <2>g. /\ Dag!NodeIds = NodeIds /\ Dag!Nodes(flow) = Nodes(flow)
        /\ \A n : Dag!Refs(flow, n) = Refs(flow, n)
    BY DEF Dag!NodeIds, NodeIds, Dag!Nodes, Nodes, Dag!Refs, Refs
  <2> DEFINE same == /\ flow' = flow
                     /\ In("running")' \cup In("done")' \cup Failed'
                          = In("running") \cup In("done") \cup Failed
                     /\ In("done")' = In("done") /\ Failed' = Failed
                     /\ pc' \notin {"returned", "raised"} /\ pc \notin {"returned", "raised"}
  <2>0. same => UNCHANGED Dag!vars
    BY DEF Dag!vars
  <2>1. CASE PopReadyNodes \/ CheckCompleted \/ Wait \/ CollectOutputs \/ RaiseError
             \/ \E n \in NodeIds : CollectRaises(n) \/ CollectExits(n)
    <3>1. same
      BY <2>1 DEF PopReadyNodes, CheckCompleted, Wait, CollectOutputs, RaiseError, CollectRaises, CollectExits, ToBeCancelled, In, Failed
    <3> QED BY <3>1, <2>0
  <2>2. ASSUME NEW n \in NodeIds, SubmitNode(n) PROVE UNCHANGED Dag!vars
    <3>1. n \in Nodes(flow) /\ future[n] = "none"
      BY <2>2 DEF SubmitNode, NodesAccounted
    <3>2. same
      BY <2>2, <3>1, NodesFacts DEF SubmitNode, In, Failed
    <3> QED BY <3>2, <2>0
  <2>3. ASSUME NEW n \in NodeIds, CancelFuture(n) PROVE UNCHANGED Dag!vars
    <3>1. same
      BY <2>3, NodesFacts DEF CancelFuture, AfterCancel, In, Failed
    <3> QED BY <3>1, <2>0
  <2>4. CASE ExitPool
    <3>1. In("running") = {} /\ In("queued") = {}
      BY <2>4 DEF ExitPool, PoolDrained, QueueHoldsQueued
    <3>2. UNCHANGED <<flow, In("running"), In("done"), Failed>> /\ pc = "exit"
      BY <2>4 DEF ExitPool, In, Failed
    <3>3. CASE error = 0
      <4>1. pc' = "returned" /\ In("done") = Nodes(flow)
        <5>1. pc = "exit" /\ pc' = "returned"
          BY <2>4, <3>3 DEF ExitPool
        <5>2. outputs = Nodes(flow) /\ outputs \subseteq In("done")
          BY <3>3, <5>1 DEF MainThreadInv, NodesAccounted
        <5>3. In("done") \subseteq Nodes(flow)
          BY DEF In, Failed
        <5> QED BY <5>1, <5>2, <5>3
      <4>2. Dag!Return
        BY <2>g, <3>2, <4>1 DEF Dag!Return
      <4> QED BY <4>2 DEF Dag!Next
    <3>4. CASE error # 0
      <4>1. pc' = "raised" /\ Failed # {}
        BY <2>4, <3>4 DEF ExitPool, MainThreadInv
      <4>2. Dag!Raise
        BY <3>1, <3>2, <4>1 DEF Dag!Raise
      <4> QED BY <4>2 DEF Dag!Next
    <3> QED BY <3>3, <3>4
  <2>5. CASE TakeWorkItem
    <3> DEFINE n == Head(workQueue)
    <3>0. n \in Nodes(flow) /\ n \in NodeIds /\ flow' = flow /\ pc' = pc
          /\ \A m \in Nodes(flow) :
               future'[m] = IF m = n /\ future[m] = "queued" THEN "running" ELSE future[m]
      BY <2>5, NodesFacts DEF TakeWorkItem, mainVars, NodeIds
    <3> HIDE DEF n
    <3>1. CASE future[n] = "queued"
      <4>1. pc \notin {"returned", "raised"}
        BY <3>0, <3>1 DEF MainThreadInv, In, Failed
      <4>2. Refs(flow, n) \subseteq In("done")
        BY <3>0, <3>1 DEF NodesAccounted, ReferencesCollected
      <4>3. /\ In("running")' = In("running") \cup {n}
            /\ In("done")' = In("done") /\ Failed' = Failed
            /\ n \notin In("running") \cup In("done") \cup Failed
        BY <3>0, <3>1 DEF In, Failed
      <4>4. Dag!Start(n)
        BY <2>g, <3>0, <4>1, <4>2, <4>3 DEF Dag!Start
      <4> QED BY <2>g, <3>0, <4>4 DEF Dag!Next
    <3>2. CASE future[n] # "queued"
      <4>1. UNCHANGED <<flow, pc, In("running"), In("done"), Failed>>
        BY <3>0, <3>2 DEF In, Failed
      <4> QED BY <4>1 DEF Dag!vars
    <3> QED BY <3>1, <3>2
  <2>6. ASSUME NEW n \in NodeIds, NodeEnds(n) PROVE Dag!Next
    <3>0. n \in Nodes(flow) /\ future[n] = "running" /\ flow' = flow /\ pc' = pc
      BY <2>6 DEF NodeEnds, NodeReturns, NodeRaises, NodeExits, In, mainVars
    <3>1. pc \notin {"returned", "raised"}
      BY <3>0 DEF MainThreadInv, In, Failed
    <3>2. CASE NodeReturns(n)
      <4>1. /\ In("running")' = In("running") \ {n}
            /\ In("done")' = In("done") \cup {n} /\ Failed' = Failed
            /\ n \in In("running") /\ n \notin In("done") \cup Failed
        BY <3>0, <3>2, NodesFacts DEF NodeReturns, In, Failed
      <4>2. Dag!Finish(n)
        BY <3>0, <3>1, <4>1 DEF Dag!Finish
      <4> QED BY <2>g, <4>2 DEF Dag!Next
    <3>3. CASE NodeRaises(n) \/ NodeExits(n)
      <4>1. /\ In("running")' = In("running") \ {n}
            /\ In("done")' = In("done") /\ Failed' = Failed \cup {n}
            /\ n \in In("running") /\ n \notin In("done") \cup Failed
        BY <3>0, <3>3, NodesFacts DEF NodeRaises, NodeExits, In, Failed
      <4>2. Dag!Fail(n)
        BY <3>0, <3>1, <4>1 DEF Dag!Fail
      <4> QED BY <2>g, <4>2 DEF Dag!Next
    <3> QED BY <2>6, <3>2, <3>3 DEF NodeEnds
  <2>7. CASE UNCHANGED vars
    BY <2>7 DEF vars, mainVars, Dag!vars, In, Failed
  <2> QED BY <2>1, <2>2, <2>3, <2>4, <2>5, <2>6, <2>7 DEF Next, MainThread
<1> QED BY <1>1, <1>2, Invariance, PTL DEF Spec, Dag!Spec, ImplementsDagExecution
=============================================================================
