------------------------- MODULE MCNodeInvocation -------------------------
(***************************************************************************)
(* Two calls of exec_line: the first has one thread for two nodes, the     *)
(* second one thread for one node.                                         *)
(***************************************************************************)
EXTENDS NodeInvocation

CONSTANTS c1, c2, t1, t2, n1, n2, m1

\* The tools of the second thread and of the second node make no calls.
MCMaxInner == (n1 :> 2) @@ (n2 :> 0) @@ (m1 :> 0)
MCMaxPrints == (n1 :> 1) @@ (n2 :> 1) @@ (m1 :> 1)

\* At most two lines and inner calls of all nodes together.
MCMaxSteps == 2
InnerCalls(traces) == IF traces = <<>> THEN 0 ELSE Len(traces) - 1
FewSteps ==
  printed[n1] + printed[n2] + printed[m1]
    + InnerCalls(record[n1].traces) + InnerCalls(tracer[t1].traces) <= MCMaxSteps

MCCallOf == [x \in {t1, n1, n2} |-> c1] @@ [x \in {t2, m1} |-> c2]
=============================================================================
