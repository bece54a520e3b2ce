----------------------------- MODULE FlowGraph -----------------------------
(***************************************************************************)
(* The dependency graph of a flow, as the executor sees it once            *)
(* FlowValidator has ordered it.  A node is its position in flow.nodes, so *)
(* every reference of node n points into 1..(n-1).                         *)
(*                                                                         *)
(* A flow is the record                                                    *)
(*   size         number of nodes;                                         *)
(*   inputRefs    node references among the inputs of each node;           *)
(*   skipRefs     node references in the skip condition and return value;  *)
(*   aggregation  the nodes marked "aggregation" (reduce nodes);           *)
(*   stage        which nodes this call of the scheduler is given: the     *)
(*                normal nodes of one line, or the aggregation nodes once  *)
(*                the lines are done.                                      *)
(***************************************************************************)
EXTENDS Naturals, FiniteSets

CONSTANT Flows

Stages == {"line", "aggregation"}

IsFlow(f) ==
  /\ f.size \in Nat
  /\ f.inputRefs \in [1 .. f.size -> SUBSET (1 .. f.size)]
  /\ f.skipRefs \in [1 .. f.size -> SUBSET (1 .. f.size)]
  /\ f.aggregation \in SUBSET (1 .. f.size)
  /\ f.stage \in Stages

\* What FlowValidator._ensure_nodes_order establishes: references point backwards.
IsOrdered(f) ==
  \A n \in 1 .. f.size : \A m \in f.inputRefs[n] \cup f.skipRefs[n] : m < n

ASSUME FlowsAssumption == \A f \in Flows : IsFlow(f) /\ IsOrdered(f)

NodeIds == UNION {1 .. f.size : f \in Flows}

\* nodes_from_invoker: FlowExecutor splits flow.nodes by the aggregation flag.
Nodes(f) == IF f.stage = "line" THEN (1 .. f.size) \ f.aggregation ELSE f.aggregation

\* The node references a node carries when it reaches the scheduler.  For the
\* aggregation stage the inputs that refer to normal nodes have been replaced by
\* the collected values; the skip configuration has not.
Refs(f, n) ==
  IF f.stage = "line"
  THEN f.inputRefs[n] \cup f.skipRefs[n]
  ELSE (f.inputRefs[n] \cap f.aggregation) \cup f.skipRefs[n]

\* Some node refers to a node that this call will never run: a normal node to an
\* aggregation node, or the skip configuration of an aggregation node to a
\* normal one.  The validator accepts both.
Unsatisfiable(f) == \E n \in Nodes(f) : ~ (Refs(f, n) \subseteq Nodes(f))
=============================================================================
