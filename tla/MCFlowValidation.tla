------------------------- MODULE MCFlowValidation -------------------------
(***************************************************************************)
(* Flows of three nodes in the order of the file: every way their inputs   *)
(* refer to one another, themselves and a node that does not exist.        *)
(***************************************************************************)
EXTENDS FlowValidation

MCNames == {"a", "b", "c", "x"}
File == {"a", "b", "c"}

Raw(names, inputs, skips) ==
  [names : {names}, inputRefs : inputs, skipRefs : skips, aggregation : {{}, {2}},
   inputsKnown : {TRUE}, outputs : {{}, {"b", "c"}}, otherOutputs : {{"input", "literal"}}]

NoSkips == [1 .. 3 -> {{}}]

\* Every graph over the three nodes, with one skip configuration of one reference.
SkipOfFirst == {[k \in 1 .. 3 |-> IF k = 1 THEN refs ELSE {}] : refs \in {{}, {"b"}, {"c"}}}

MCRawFlows ==
  Raw(<<"a", "b", "c">>, [1 .. 3 -> SUBSET File], SkipOfFirst)
  \cup Raw(<<"a", "b", "c">>, [1 .. 3 -> {{}, {"x"}, {"c"}}], NoSkips)
  \cup Raw(<<"a", "b", "a">>, [1 .. 3 -> {{}, {"a"}}], NoSkips)
  \cup [names : {<<"a", "b">>}, inputRefs : [1 .. 2 -> {{}, {"b"}}], skipRefs : [1 .. 2 -> {{}}],
        aggregation : {{}}, inputsKnown : BOOLEAN, outputs : {{}, {"x"}},
        otherOutputs : SUBSET {"unknown input", "empty literal"}]
=============================================================================
