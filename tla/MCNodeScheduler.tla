-------------------------- MODULE MCNodeScheduler --------------------------
(***************************************************************************)
(* Instances of NodeScheduler for TLC: sets of flows, small but complete.  *)
(***************************************************************************)
EXTENDS NodeScheduler

\* All ways the nodes of a flow of the given size can refer to earlier nodes.
BackRefs(size) ==
  {r \in [1 .. size -> SUBSET (1 .. size)] : \A n \in 1 .. size : r[n] \subseteq 1 .. (n - 1)}

NoRefs(size) == [n \in 1 .. size |-> {}]

\* Every validated flow of three nodes, in both stages.
AllFlowsOfThree ==
  [size : {3}, inputRefs : BackRefs(3), skipRefs : BackRefs(3),
   aggregation : SUBSET (1 .. 3), stage : Stages]

\* Every graph of four normal nodes.
LineFlowsOfFour ==
  [size : {4}, inputRefs : BackRefs(4), skipRefs : {NoRefs(4)},
   aggregation : {{}}, stage : {"line"}]

MCFlows == AllFlowsOfThree \cup LineFlowsOfFour
=============================================================================
