--------------------------- MODULE FlowValidation ---------------------------
(***************************************************************************)
(* FlowValidator (executor/flow_validator.py), which every flow passes     *)
(* when FlowExecutor.create loads it: the checks of the names and the      *)
(* references, and the order the nodes are put in.  The flow is what the   *)
(* file says:                                                              *)
(*   names        the names of the nodes, in the order of the file;        *)
(*   inputRefs    the node names each node's inputs refer to;              *)
(*   skipRefs     those its skip condition and return value refer to;      *)
(*   aggregation  the nodes marked "aggregation";                          *)
(*   inputsKnown  whether every flow input a node refers to is declared;   *)
(*   outputs      the node names the flow's outputs refer to;              *)
(*   otherOutputs what its other outputs are: a flow input that is         *)
(*                declared or not, a literal that is empty or not.         *)
(* A node is known by its place in the file.                               *)
(***************************************************************************)
EXTENDS Naturals, Sequences, FiniteSets

CONSTANTS RawFlows,
          Names      \* what nodes may be called, or references name

OtherOutputs == {"input", "unknown input", "literal", "empty literal"}

IsRawFlow(f) ==
  LET places == 1 .. Len(f.names) IN
  /\ f.names \in Seq(Names)
  /\ f.inputRefs \in [places -> SUBSET Names]
  /\ f.skipRefs \in [places -> SUBSET Names]
  /\ f.aggregation \in SUBSET places
  /\ f.inputsKnown \in BOOLEAN
  /\ f.outputs \in SUBSET Names
  /\ f.otherOutputs \in SUBSET OtherOutputs

ASSUME RawFlowsAssumption == \A f \in RawFlows : IsRawFlow(f)

VARIABLES
  flow,     \* the flow
  pc,       \* the check under way, or the error
  sorted,   \* sorted_nodes, as places in the file
  outputs   \* those outputs of nodes that are kept

vars == <<flow, pc, sorted, outputs>>

Errors == {"DuplicateNodeName", "InputReferenceNotFound", "NodeReferenceNotFound",
           "NodeCircularDependency", "EmptyOutputError", "OutputReferenceNotFound"}

Size == Len(flow.names)
Places == 1 .. Size
Known == {flow.names[k] : k \in Places}

Init ==
  /\ flow \in RawFlows
  /\ pc = "names"
  /\ sorted = <<>>
  /\ outputs = {}

-----------------------------------------------------------------------------
(* _validate_nodes_topology *)

Duplicates == \E j, k \in Places : j # k /\ flow.names[j] = flow.names[k]

CheckNames ==
  /\ pc = "names"
  /\ pc' = IF Duplicates THEN "DuplicateNodeName" ELSE "inputs"
  /\ UNCHANGED <<flow, sorted, outputs>>

CheckInputs ==
  /\ pc = "inputs"
  /\ pc' = IF flow.inputsKnown THEN "references" ELSE "InputReferenceNotFound"
  /\ UNCHANGED <<flow, sorted, outputs>>

-----------------------------------------------------------------------------
(* _ensure_nodes_order *)

\* The dependencies of a node.  (Mutant: the skip configuration is not looked at.)
MutantDependencies(k) == flow.inputRefs[k]
Dependencies(k) == flow.inputRefs[k] \cup flow.skipRefs[k]

CheckReferences ==
  /\ pc = "references"
  /\ pc' = IF \A k \in Places : Dependencies(k) \subseteq Known
           THEN "order" ELSE "NodeReferenceNotFound"
  /\ UNCHANGED <<flow, sorted, outputs>>

Sorted == {sorted[i] : i \in 1 .. Len(sorted)}
Picked == {flow.names[k] : k \in Sorted}

\* The nodes the generator of one round would yield.  (Mutant: only the first node that
\* has not been picked is looked at.)
MutantAvailable ==
  {k \in Places \ Sorted : Dependencies(k) \subseteq Picked /\ \A j \in Places \ Sorted : k <= j}
Available == {k \in Places \ Sorted : Dependencies(k) \subseteq Picked}

PickNode(k) ==
  /\ pc = "order"
  /\ Len(sorted) < Size
  /\ k \in Available
  /\ \A j \in Available : k <= j
  /\ sorted' = Append(sorted, k)
  /\ UNCHANGED <<flow, pc, outputs>>

NoNodeToPick ==
  /\ pc = "order"
  /\ Len(sorted) < Size
  /\ Available = {}
  /\ pc' = "NodeCircularDependency"
  /\ UNCHANGED <<flow, sorted, outputs>>

AllPicked ==
  /\ pc = "order"
  /\ Len(sorted) = Size
  /\ pc' = "outputs"
  /\ UNCHANGED <<flow, sorted, outputs>>

-----------------------------------------------------------------------------
(* _ensure_outputs_valid *)

\* Outputs of reduce nodes are dropped.
Kept == {name \in flow.outputs : \E k \in Places \ flow.aggregation : flow.names[k] = name}

EmptyOutput == "empty literal" \in flow.otherOutputs
DanglingOutput == "unknown input" \in flow.otherOutputs \/ ~ (flow.outputs \subseteq Known)

\* The first output at fault, in the order of the file, decides the error.
CheckOutputs ==
  /\ pc = "outputs"
  /\ \/ EmptyOutput /\ pc' = "EmptyOutputError" /\ UNCHANGED outputs
     \/ DanglingOutput /\ pc' = "OutputReferenceNotFound" /\ UNCHANGED outputs
     \/ ~ EmptyOutput /\ ~ DanglingOutput /\ pc' = "valid" /\ outputs' = Kept
  /\ UNCHANGED <<flow, sorted>>

Next ==
  \/ CheckNames
  \/ CheckInputs
  \/ CheckReferences
  \/ \E k \in Places : PickNode(k)
  \/ NoNodeToPick
  \/ AllPicked
  \/ CheckOutputs

Spec == Init /\ [][Next]_vars

-----------------------------------------------------------------------------
(* Correctness *)

TypeOK ==
  /\ flow \in RawFlows
  /\ pc \in {"names", "inputs", "references", "order", "outputs", "valid"} \cup Errors
  /\ sorted \in Seq(Places)
  /\ outputs \subseteq flow.outputs

\* The flow the executor goes on with, as FlowGraph describes it: the nodes in the
\* order found, a reference being the place of the node it names.
PlacesOf(names) == {i \in 1 .. Len(sorted) : flow.names[sorted[i]] \in names}

Validated(stage) ==
  [size |-> Len(sorted),
   inputRefs |-> [i \in 1 .. Len(sorted) |-> PlacesOf(flow.inputRefs[sorted[i]])],
   skipRefs |-> [i \in 1 .. Len(sorted) |-> PlacesOf(flow.skipRefs[sorted[i]])],
   aggregation |-> {i \in 1 .. Len(sorted) : sorted[i] \in flow.aggregation},
   stage |-> stage]

Graph == INSTANCE FlowGraph WITH Flows <- {}

Ordered == pc \in {"outputs", "EmptyOutputError", "OutputReferenceNotFound", "valid"}

\* A flow that gets through has all of its nodes, each once, every one after all the
\* nodes it refers to in its inputs and in its skip configuration: it is a flow such as
\* NodeScheduler assumes.  Every reference still names a node, and so do the outputs
\* that are kept, of which none is a reduce node.
OrderIsTopological ==
  /\ Ordered =>
       /\ Sorted = Places /\ Len(sorted) = Size
       /\ \A stage \in Graph!Stages :
            Graph!IsFlow(Validated(stage)) /\ Graph!IsOrdered(Validated(stage))
       /\ \A k \in Places : Dependencies(k) \subseteq Known
  /\ pc = "valid" =>
       \A name \in outputs : \E k \in Places \ flow.aggregation : flow.names[k] = name

\* Some nodes all wait for one of themselves: the references form a cycle.
Cyclic ==
  \E S \in SUBSET Places :
    /\ S # {}
    /\ \A k \in S : \E j \in S : flow.names[j] \in Dependencies(k)

\* A flow is refused for a circular dependency exactly when there is one, wherever the
\* file puts its nodes.
RejectsOnlyCycles ==
  /\ pc = "NodeCircularDependency" => Cyclic
  /\ Ordered => ~ Cyclic
=============================================================================
