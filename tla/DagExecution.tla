---------------------------- MODULE DagExecution ----------------------------
(***************************************************************************)
(* What executing a flow's nodes promises, whatever the threads do: a node *)
(* starts only when everything it refers to has finished, every node that  *)
(* was started runs to its end, the call returns when all nodes finished   *)
(* and raises only after a node failed and nothing is left running.        *)
(* NodeScheduler implements it.                                            *)
(***************************************************************************)
EXTENDS FlowGraph

VARIABLES flow, started, finished, failed, outcome

vars == <<flow, started, finished, failed, outcome>>

Init ==
  /\ flow \in Flows
  /\ started = {} /\ finished = {} /\ failed = {}
  /\ outcome = "none"

Start(n) ==
  /\ outcome = "none"
  /\ n \in Nodes(flow) \ started
  /\ Refs(flow, n) \subseteq finished
  /\ started' = started \cup {n}
  /\ UNCHANGED <<flow, finished, failed, outcome>>

Finish(n) ==
  /\ n \in started \ (finished \cup failed)
  /\ finished' = finished \cup {n}
  /\ UNCHANGED <<flow, started, failed, outcome>>

Fail(n) ==
  /\ n \in started \ (finished \cup failed)
  /\ failed' = failed \cup {n}
  /\ UNCHANGED <<flow, started, finished, outcome>>

Return ==
  /\ outcome = "none"
  /\ finished = Nodes(flow)
  /\ outcome' = "returned"
  /\ UNCHANGED <<flow, started, finished, failed>>

Raise ==
  /\ outcome = "none"
  /\ failed # {} /\ started = finished \cup failed
  /\ outcome' = "raised"
  /\ UNCHANGED <<flow, started, finished, failed>>

Next ==
  \/ \E n \in NodeIds : Start(n) \/ Finish(n) \/ Fail(n)
  \/ Return
  \/ Raise

Spec == Init /\ [][Next]_vars
=============================================================================
