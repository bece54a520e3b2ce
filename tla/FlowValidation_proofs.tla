------------------------ MODULE FlowValidation_proofs ------------------------
(***************************************************************************)
(* Proofs about FlowValidation, for every set of flows, whatever their     *)
(* names and references.  The inductive invariant IInv says what each      *)
(* check has established, that no node was picked twice, and that every    *)
(* picked node comes after the nodes it depends on.                        *)
(***************************************************************************)
EXTENDS FlowValidation, FiniteSetTheorems, WellFoundedInduction, TLAPS

\* No node is picked twice.
PickedOnce == \A i, j \in 1 .. Len(sorted) : sorted[i] = sorted[j] => i = j

\* Whatever a picked node depends on was picked before it.
DependenciesFirst ==
  \A i \in 1 .. Len(sorted) : \A name \in Dependencies(sorted[i]) :
    \E j \in 1 .. Len(sorted) : j < i /\ flow.names[sorted[j]] = name

\* What the checks that have been passed say of the flow.
ChecksPassed ==
  /\ pc \notin {"names", "DuplicateNodeName"} => ~ Duplicates
  /\ pc \in {"order", "NodeCircularDependency"} \/ Ordered =>
       \A k \in Places : Dependencies(k) \subseteq Known
  /\ Ordered => Len(sorted) = Size
  /\ pc = "NodeCircularDependency" => Len(sorted) < Size /\ Available = {}
  /\ pc = "valid" => outputs = Kept

IInv == TypeOK /\ PickedOnce /\ DependenciesFirst /\ ChecksPassed

-----------------------------------------------------------------------------
(* Facts about flows and positions *)

LEMMA FlowFacts ==
  ASSUME flow \in RawFlows
  PROVE  /\ Size \in Nat
         /\ flow.names \in Seq(Names)
         /\ flow.inputRefs \in [Places -> SUBSET Names]
         /\ flow.skipRefs \in [Places -> SUBSET Names]
         /\ flow.aggregation \in SUBSET Places
         /\ \A k \in Places : flow.names[k] \in Names
BY RawFlowsAssumption DEF IsRawFlow, Size, Places

\* A non-empty set of positions has a first one.
EarlierThan == {ss \in Nat \X Nat : ss[1] < ss[2]}

LEMMA FirstExists ==
  ASSUME NEW T, T \subseteq Nat, T # {}
  PROVE  \E x \in T : \A y \in T : x <= y
<1>1. IsWellFoundedOn(EarlierThan, Nat)
  BY NatLessThanWellFounded DEF OpToRel, EarlierThan
<1>2. PICK x \in T : \A y \in T : ~ (<<y, x>> \in EarlierThan)
  BY <1>1, WFMin
<1>3. \A y \in T : ~ (y < x)
  BY <1>2 DEF EarlierThan
<1> QED BY <1>3

\* Nodes that are picked once each are all the nodes exactly when there are as many.
LEMMA AllPickedMeansAll ==
  ASSUME TypeOK, PickedOnce
  PROVE  Sorted = Places <=> Len(sorted) = Size
<1> DEFINE Positions == 1 .. Len(sorted)
<1>1. Len(sorted) \in Nat /\ Size \in Nat /\ sorted \in [Positions -> Places]
  BY FlowFacts DEF TypeOK
<1>2. sorted \in Injection(Positions, Places)
  BY <1>1 DEF Injection, IsInjective, PickedOnce
<1>3. /\ IsFiniteSet(Positions) /\ Cardinality(Positions) = Len(sorted)
      /\ IsFiniteSet(Places) /\ Cardinality(Places) = Size
  <2>1. \A n \in Nat : IsFiniteSet(1 .. n) /\ Cardinality(1 .. n) = n
    <3> TAKE n \in Nat
    <3>1. CASE n = 0
      BY <3>1, FS_Interval
    <3>2. CASE n > 0
      BY <3>2, FS_Interval
    <3> QED BY <3>1, <3>2
  <2> QED BY <1>1, <2>1 DEF Places
<1>4. sorted \in Surjection(Positions, Places) <=> Len(sorted) = Size
  <2> HIDE DEF Positions
  <2> QED BY <1>2, <1>3, FS_Injection
<1>5. sorted \in Surjection(Positions, Places) <=> Sorted = Places
  BY <1>1 DEF Surjection, Sorted
<1> QED BY <1>4, <1>5

-----------------------------------------------------------------------------
(* The invariant *)

\* In every behaviour of the validator the variables keep their types.
THEOREM TypeCorrect == Spec => []TypeOK
<1>1. Init => TypeOK
  BY DEF Init, TypeOK
<1>2. TypeOK /\ [Next]_vars => TypeOK'
  <2> SUFFICES ASSUME TypeOK, [Next]_vars PROVE TypeOK'
    OBVIOUS
  <2>1. CASE CheckNames \/ CheckInputs \/ CheckReferences \/ NoNodeToPick \/ AllPicked
    BY <2>1 DEF TypeOK, Errors, Places, Size, CheckNames, CheckInputs, CheckReferences,
                NoNodeToPick, AllPicked
  <2>2. CASE \E k \in Places : PickNode(k)
    BY <2>2 DEF TypeOK, Places, Size, PickNode
  <2>3. CASE CheckOutputs
    BY <2>3 DEF TypeOK, Errors, Places, Size, CheckOutputs, Kept
  <2>4. CASE UNCHANGED vars
    BY <2>4 DEF vars, TypeOK, Places, Size
  <2> QED BY <2>1, <2>2, <2>3, <2>4 DEF Next
<1> QED BY <1>1, <1>2, PTL DEF Spec

\* What the definitions say of a flow stays as long as flow and sorted do.
LEMMA SameOrder ==
  ASSUME UNCHANGED <<flow, sorted>>
  PROVE  /\ PickedOnce => PickedOnce'
         /\ DependenciesFirst => DependenciesFirst'
         /\ Duplicates' <=> Duplicates
         /\ Known' = Known /\ Places' = Places /\ Size' = Size
         /\ \A k : Dependencies(k)' = Dependencies(k)
         /\ Available' = Available
         /\ Kept' = Kept
BY DEF PickedOnce, DependenciesFirst, Duplicates, Known, Places, Size, Dependencies,
       Available, Sorted, Picked, Kept

\* A step that picks a node.
LEMMA PickKeeps ==
  ASSUME IInv, NEW k \in Places, PickNode(k)
  PROVE  PickedOnce' /\ DependenciesFirst'
<1>1. /\ Len(sorted) \in Nat /\ Len(sorted') = Len(sorted) + 1
      /\ \A i \in 1 .. Len(sorted) : sorted'[i] = sorted[i]
      /\ sorted'[Len(sorted) + 1] = k
      /\ flow' = flow
  BY DEF IInv, TypeOK, PickNode
<1>2. k \notin Sorted /\ Dependencies(k) \subseteq Picked
  BY DEF PickNode, Available
<1>3. \A i \in 1 .. Len(sorted) : sorted[i] # k
  BY <1>2 DEF Sorted
<1>4. PickedOnce'
  <2> SUFFICES ASSUME NEW i \in 1 .. Len(sorted'), NEW j \in 1 .. Len(sorted'),
                      sorted'[i] = sorted'[j]
               PROVE  i = j
    BY DEF PickedOnce
  <2>1. CASE i \in 1 .. Len(sorted) /\ j \in 1 .. Len(sorted)
    BY <2>1, <1>1 DEF IInv, PickedOnce
  <2>2. CASE i \notin 1 .. Len(sorted) \/ j \notin 1 .. Len(sorted)
    BY <2>2, <1>1, <1>3
  <2> QED BY <2>1, <2>2
<1>5. DependenciesFirst'
  <2> SUFFICES ASSUME NEW i \in 1 .. Len(sorted'), NEW name \in Dependencies(sorted'[i])
               PROVE  \E j \in 1 .. Len(sorted') : j < i /\ flow.names[sorted'[j]] = name
    BY <1>1 DEF DependenciesFirst, Dependencies
  <2>1. CASE i \in 1 .. Len(sorted)
    <3>1. PICK j \in 1 .. Len(sorted) : j < i /\ flow.names[sorted[j]] = name
      BY <2>1, <1>1 DEF IInv, DependenciesFirst
    <3> QED BY <3>1, <1>1
  <2>2. CASE i = Len(sorted) + 1
    <3>1. PICK j \in 1 .. Len(sorted) : flow.names[sorted[j]] = name
      BY <2>2, <1>1, <1>2 DEF Picked, Sorted
    <3> QED BY <2>2, <3>1, <1>1
  <2> QED BY <2>1, <2>2, <1>1
<1> QED BY <1>4, <1>5

\* The inductive invariant holds in every reachable state.
THEOREM Invariance == Spec => []IInv
<1>1. Init => IInv
  BY DEF Init, IInv, TypeOK, PickedOnce, DependenciesFirst, ChecksPassed, Ordered
<1>2. IInv /\ TypeOK' /\ [Next]_vars => IInv'
  <2> SUFFICES ASSUME IInv, TypeOK', [Next]_vars
               PROVE  PickedOnce' /\ DependenciesFirst' /\ ChecksPassed'
    BY DEF IInv
  <2>1. CASE CheckNames
    BY <2>1, SameOrder DEF CheckNames, IInv, ChecksPassed, Ordered
  <2>2. CASE CheckInputs
    BY <2>2, SameOrder DEF CheckInputs, IInv, ChecksPassed, Ordered
  <2>3. CASE CheckReferences
    BY <2>3, SameOrder DEF CheckReferences, IInv, ChecksPassed, Ordered
  <2>4. ASSUME NEW k \in Places, PickNode(k) PROVE PickedOnce' /\ DependenciesFirst' /\ ChecksPassed'
    <3>1. ChecksPassed'
      BY <2>4 DEF PickNode, IInv, ChecksPassed, Ordered, Duplicates, Known, Places, Size,
                  Dependencies
    <3> QED BY <2>4, <3>1, PickKeeps
  <2>5. CASE NoNodeToPick
    BY <2>5, SameOrder DEF NoNodeToPick, IInv, ChecksPassed, Ordered
  <2>6. CASE AllPicked
    BY <2>6, SameOrder DEF AllPicked, IInv, ChecksPassed, Ordered
  <2>7. CASE CheckOutputs
    BY <2>7, SameOrder DEF CheckOutputs, IInv, ChecksPassed, Ordered
  <2>8. CASE UNCHANGED vars
    BY <2>8, SameOrder DEF vars, IInv, ChecksPassed, Ordered
  <2> QED BY <2>1, <2>2, <2>3, <2>4, <2>5, <2>6, <2>7, <2>8 DEF Next
<1> QED BY <1>1, <1>2, TypeCorrect, PTL DEF Spec

-----------------------------------------------------------------------------
(* The order *)

\* Names stand for places when no name is used twice.
LEMMA NameIsPlace ==
  ASSUME ~ Duplicates, NEW j \in Places, NEW k \in Places, flow.names[j] = flow.names[k]
  PROVE  j = k
BY DEF Duplicates

\* In the flow the executor goes on with, references point backwards.
LEMMA ReferencesBackwards ==
  ASSUME IInv, Ordered, NEW i \in 1 .. Len(sorted), NEW m \in 1 .. Len(sorted),
         flow.names[sorted[m]] \in Dependencies(sorted[i])
  PROVE  m < i
<1>1. PICK j \in 1 .. Len(sorted) : j < i /\ flow.names[sorted[j]] = flow.names[sorted[m]]
  BY DEF IInv, DependenciesFirst
<1>2. sorted[j] \in Places /\ sorted[m] \in Places /\ ~ Duplicates
  BY DEF IInv, TypeOK, ChecksPassed, Ordered
<1>3. sorted[j] = sorted[m]
  BY <1>1, <1>2, NameIsPlace
<1> QED BY <1>1, <1>3 DEF IInv, PickedOnce

\* What gets through the validator is a flow such as NodeScheduler assumes: complete,
\* each node once and after all it refers to, and no output of a reduce node is kept.
THEOREM OrderFound == Spec => []OrderIsTopological
<1>1. ASSUME IInv, Ordered PROVE Sorted = Places /\ Len(sorted) = Size
  BY <1>1, AllPickedMeansAll DEF IInv, ChecksPassed
<1>2. ASSUME IInv, Ordered, NEW stage \in Graph!Stages
      PROVE  Graph!IsFlow(Validated(stage))
  BY <1>2 DEF Graph!IsFlow, Validated, PlacesOf, IInv, TypeOK
<1>3. ASSUME IInv, Ordered, NEW stage \in Graph!Stages
      PROVE  Graph!IsOrdered(Validated(stage))
  <2> SUFFICES ASSUME NEW i \in 1 .. Len(sorted),
                      NEW m \in PlacesOf(flow.inputRefs[sorted[i]])
                                \cup PlacesOf(flow.skipRefs[sorted[i]])
               PROVE  m < i
    BY DEF Graph!IsOrdered, Validated
  <2>1. m \in 1 .. Len(sorted) /\ flow.names[sorted[m]] \in Dependencies(sorted[i])
    BY DEF PlacesOf, Dependencies
  <2> QED BY <1>3, <2>1, ReferencesBackwards
<1>4. IInv => OrderIsTopological
  <2> SUFFICES ASSUME IInv PROVE OrderIsTopological
    OBVIOUS
  <2>1. Ordered => \A k \in Places : Dependencies(k) \subseteq Known
    BY DEF IInv, ChecksPassed
  <2>2. pc = "valid" =>
          \A name \in outputs : \E k \in Places \ flow.aggregation : flow.names[k] = name
    BY DEF IInv, ChecksPassed, Kept
  <2> QED BY <1>1, <1>2, <1>3, <2>1, <2>2 DEF OrderIsTopological
<1> QED BY <1>4, Invariance, PTL

\* A flow is refused as circular exactly when some of its nodes wait for one another.
THEOREM CyclesFound == Spec => []RejectsOnlyCycles
<1>1. ASSUME IInv, pc = "NodeCircularDependency" PROVE Cyclic
  <2> DEFINE S == Places \ Sorted
  <2>1. Sorted \subseteq Places /\ Len(sorted) < Size
    BY <1>1, FlowFacts DEF IInv, TypeOK, Sorted, ChecksPassed
  <2>2. S # {}
    <3>1. Len(sorted) # Size
      BY <1>1, <2>1, FlowFacts DEF IInv, TypeOK
    <3>2. Sorted # Places
      BY <1>1, <3>1, AllPickedMeansAll DEF IInv
    <3> QED BY <2>1, <3>2
  <2>3. ASSUME NEW k \in S PROVE \E j \in S : flow.names[j] \in Dependencies(k)
    <3>1. PICK name \in Dependencies(k) : name \notin Picked
      BY <1>1 DEF IInv, ChecksPassed, Available
    <3>2. PICK j \in Places : flow.names[j] = name
      BY <1>1, <3>1 DEF IInv, ChecksPassed, Known
    <3>3. j \notin Sorted
      BY <3>1, <3>2 DEF Picked
    <3> QED BY <3>1, <3>2, <3>3
  <2> QED BY <2>2, <2>3 DEF Cyclic
<1>2. ASSUME IInv, Ordered, Cyclic PROVE FALSE
  <2>1. PICK S \in SUBSET Places :
          S # {} /\ \A k \in S : \E j \in S : flow.names[j] \in Dependencies(k)
    BY <1>2 DEF Cyclic
  <2> DEFINE T == {i \in 1 .. Len(sorted) : sorted[i] \in S}
  <2>2. Sorted = Places /\ Len(sorted) \in Nat /\ ~ Duplicates
    BY <1>2, AllPickedMeansAll DEF IInv, TypeOK, ChecksPassed, Ordered
  <2>3. T # {} /\ T \subseteq Nat
    BY <2>1, <2>2 DEF Sorted
  <2>4. PICK i \in T : \A m \in T : i <= m
    <3> HIDE DEF T
    <3> QED BY <2>3, FirstExists
  <2>5. PICK j \in S : flow.names[j] \in Dependencies(sorted[i])
    BY <2>1, <2>4
  <2>6. PICK m \in 1 .. Len(sorted) : m < i /\ flow.names[sorted[m]] = flow.names[j]
    BY <1>2, <2>4, <2>5 DEF IInv, DependenciesFirst
  <2>7. sorted[m] = j
    BY <1>2, <2>1, <2>2, <2>6, NameIsPlace DEF IInv, TypeOK
  <2> QED BY <2>4, <2>5, <2>6, <2>7
<1>3. IInv => RejectsOnlyCycles
  BY <1>1, <1>2 DEF RejectsOnlyCycles
<1> QED BY <1>3, Invariance, PTL
-----------------------------------------------------------------------------
(* Flows that are in order, and the end of validation *)

\* Every node of the file refers to nodes above it only.
FileInOrder ==
  \A k \in Places : \A name \in Dependencies(k) :
    \E j \in Places : j < k /\ flow.names[j] = name

FileOrderKept ==
  FileInOrder =>
    /\ \A i \in 1 .. Len(sorted) : sorted[i] = i
    /\ pc # "NodeCircularDependency"

\* The node that is picked is the next one of a file in order.
LEMMA NextIsPicked ==
  ASSUME TypeOK, FileInOrder, Len(sorted) < Size, \A i \in 1 .. Len(sorted) : sorted[i] = i
  PROVE  /\ Len(sorted) + 1 \in Available
         /\ \A k \in Available : Len(sorted) + 1 <= k
<1>1. Len(sorted) \in Nat /\ Size \in Nat /\ Sorted = 1 .. Len(sorted)
  BY FlowFacts DEF TypeOK, Sorted
<1>2. Len(sorted) + 1 \in Places \ Sorted
  BY <1>1 DEF Places
<1>3. ASSUME NEW name \in Dependencies(Len(sorted) + 1) PROVE name \in Picked
  <2>1. PICK j \in Places : j < Len(sorted) + 1 /\ flow.names[j] = name
    BY <1>2, <1>3 DEF FileInOrder
  <2>2. j \in Sorted
    BY <1>1, <2>1 DEF Places
  <2> QED BY <2>1, <2>2 DEF Picked
<1>4. Len(sorted) + 1 \in Available
  BY <1>2, <1>3 DEF Available
<1>5. \A k \in Available : k \in Places /\ k \notin 1 .. Len(sorted)
  BY <1>1 DEF Available
<1>6. \A n, m \in Nat : \A k \in 1 .. m : k \notin 1 .. n => n + 1 <= k
  OBVIOUS
<1>7. \A k \in Available : Len(sorted) + 1 <= k
  BY <1>1, <1>5, <1>6 DEF Places
<1> QED BY <1>4, <1>7

\* _ensure_nodes_order leaves a flow whose nodes are in order as the file has it: such
\* a flow is not reordered, and never refused as circular.
THEOREM OrderIsKept == Spec => []FileOrderKept
<1>1. Init => FileOrderKept
  BY DEF Init, FileOrderKept
<1>2. IInv /\ FileOrderKept /\ [Next]_vars => FileOrderKept'
  <2> SUFFICES ASSUME IInv, FileOrderKept, [Next]_vars, FileInOrder'
               PROVE  /\ \A i \in 1 .. Len(sorted') : sorted'[i] = i
                      /\ pc' # "NodeCircularDependency"
    BY DEF FileOrderKept
  <2>1. flow' = flow
    BY DEF Next, vars, CheckNames, CheckInputs, CheckReferences, PickNode, NoNodeToPick,
           AllPicked, CheckOutputs
  <2>2. FileInOrder /\ \A i \in 1 .. Len(sorted) : sorted[i] = i
    BY <2>1 DEF FileOrderKept, FileInOrder, Places, Size, Dependencies
  <2>3. pc # "NodeCircularDependency" /\ TypeOK
    BY <2>2 DEF FileOrderKept, IInv
  <2>4. CASE CheckNames \/ CheckInputs \/ CheckReferences \/ AllPicked \/ CheckOutputs
             \/ UNCHANGED vars
    BY <2>2, <2>3, <2>4 DEF CheckNames, CheckInputs, CheckReferences, AllPicked, CheckOutputs,
                            vars
  <2>5. CASE NoNodeToPick
    BY <2>2, <2>3, <2>5, NextIsPicked DEF NoNodeToPick
  <2>6. ASSUME NEW k \in Places, PickNode(k)
        PROVE  /\ \A i \in 1 .. Len(sorted') : sorted'[i] = i
               /\ pc' # "NodeCircularDependency"
    <3>1. Len(sorted) + 1 \in Available /\ Len(sorted) + 1 <= k
      BY <2>2, <2>3, <2>6, NextIsPicked DEF PickNode
    <3>2. Len(sorted) \in Nat /\ Size \in Nat /\ k <= Len(sorted) + 1 /\ k \in Nat
      BY <2>3, <2>6, <3>1, FlowFacts DEF PickNode, Places, TypeOK
    <3>3. k = Len(sorted) + 1
      BY <3>1, <3>2
    <3>4. sorted' = Append(sorted, k) /\ pc' = pc /\ sorted \in Seq(Places)
      BY <2>3, <2>6 DEF PickNode, TypeOK
    <3> QED BY <2>2, <2>3, <3>2, <3>3, <3>4
  <2> QED BY <2>4, <2>5, <2>6 DEF Next
<1> QED BY <1>1, <1>2, Invariance, PTL DEF Spec

\* How many checks are left.
ChecksLeft(check) ==
  CASE check = "names" -> 5
    [] check = "inputs" -> 4
    [] check = "references" -> 3
    [] check = "order" -> 2
    [] check = "outputs" -> 1
    [] OTHER -> 0

\* A step ends a check, or picks one of the nodes that are left.
StepEnds ==
  \/ ChecksLeft(pc') < ChecksLeft(pc)
  \/ pc' = pc /\ Len(sorted') = Len(sorted) + 1 /\ Len(sorted') <= Size
EveryStepEnds == [][StepEnds]_vars

\* The validator has a check to make, or has said what it found.
HasVerdict ==
  \/ pc \in {"names", "inputs", "references", "outputs"}
  \/ /\ pc = "order"
     /\ \/ Len(sorted) = Size
        \/ /\ Len(sorted) < Size
           /\ Available = {} \/ \E k \in Available : \A j \in Available : k <= j
  \/ pc \in {"valid"} \cup Errors

\* Validation ends, however the flow refers to itself: no step is for nothing, the loop
\* of _ensure_nodes_order that looks for nodes included.
THEOREM ValidationAdvances == Spec => EveryStepEnds
<1>1. ASSUME IInv, Next PROVE StepEnds
  <2>1. CASE CheckNames \/ CheckInputs \/ CheckReferences \/ NoNodeToPick \/ AllPicked
             \/ CheckOutputs
    BY <2>1 DEF StepEnds, ChecksLeft, CheckNames, CheckInputs, CheckReferences, NoNodeToPick,
                AllPicked, CheckOutputs
  <2>2. ASSUME NEW k \in Places, PickNode(k) PROVE StepEnds
    <3>1. pc' = pc /\ Len(sorted') = Len(sorted) + 1 /\ Len(sorted) < Size
      BY <1>1, <2>2 DEF PickNode, IInv, TypeOK
    <3>2. Len(sorted) \in Nat /\ Size \in Nat
      BY <1>1, FlowFacts DEF IInv, TypeOK
    <3> QED BY <3>1, <3>2 DEF StepEnds
  <2> QED BY <1>1, <2>1, <2>2 DEF Next
<1>2. IInv /\ [Next]_vars => [StepEnds]_vars
  BY <1>1
<1> QED BY <1>2, Invariance, PTL DEF Spec, EveryStepEnds

\* No more nodes are picked than there are.
PickedSome == Len(sorted) <= Size

\* Until the validator has its verdict some step can be taken: the loop that looks for
\* nodes never finds itself without a first one, unless there is none to pick.
THEOREM VerdictIsFound == Spec => []HasVerdict
<1>1. IInv /\ PickedSome => HasVerdict
  <2> SUFFICES ASSUME IInv, PickedSome, pc = "order" PROVE HasVerdict
    BY DEF HasVerdict, IInv, TypeOK
  <2>1. Len(sorted) \in Nat /\ Size \in Nat /\ Available \subseteq Nat
    BY FlowFacts DEF IInv, TypeOK, Available, Places
  <2>2. Available = {} \/ \E k \in Available : \A j \in Available : k <= j
    <3> HIDE DEF IInv
    <3> QED BY <2>1, FirstExists
  <2>3. Len(sorted) = Size \/ Len(sorted) < Size
    BY <2>1 DEF PickedSome
  <2> QED BY <2>2, <2>3 DEF HasVerdict
<1>2. Init => PickedSome
  BY FlowFacts DEF Init, PickedSome
<1>3. IInv /\ PickedSome /\ [Next]_vars => PickedSome'
  <2> SUFFICES ASSUME IInv, PickedSome, [Next]_vars PROVE PickedSome'
    OBVIOUS
  <2>1. CASE UNCHANGED <<flow, sorted>>
    BY <2>1 DEF PickedSome, Size
  <2>2. ASSUME NEW k \in Places, PickNode(k) PROVE PickedSome'
    <3>1. Size' = Size /\ Len(sorted') = Len(sorted) + 1
      BY <2>2 DEF PickNode, IInv, TypeOK, Size
    <3>2. Len(sorted) \in Nat /\ Size \in Nat /\ Len(sorted) < Size
      BY <2>2, FlowFacts DEF PickNode, IInv, TypeOK
    <3> QED BY <3>1, <3>2 DEF PickedSome
  <2> QED BY <2>1, <2>2 DEF Next, vars, CheckNames, CheckInputs, CheckReferences,
                            NoNodeToPick, AllPicked, CheckOutputs
<1> QED BY <1>1, <1>2, <1>3, Invariance, PTL DEF Spec
=============================================================================
