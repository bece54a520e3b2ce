----------------------------- MODULE MCServing -----------------------------
(***************************************************************************)
(* Instances of Serving for TLC: flows with one output and with two.       *)
(***************************************************************************)
EXTENDS Serving, TLC

CONSTANTS r1, r2, r3

\* Nodes a and b.  First: a streaming output and a plain one, and a copied flow.
\* Then, loaded in place: outputs that share a stream or have one each, and streams
\* that another node reads.  Last, b may be skipped and return a's stream, which it
\* hands on to another node or shares with an output.
Flow(outputs, kinds, used, includes) ==
  [outputs |-> outputs, kind |-> [a |-> kinds[1], b |-> kinds[2]], used |-> used,
   returns |-> <<>>, includes |-> includes]
Skipping(f, returns) == [f EXCEPT !.returns = returns]

MCFlows ==
  {Flow(<<"a", "b">>, <<"llm", "plain">>, {}, TRUE)}
  \cup {Flow(<<"a", "a">>, <<"llm", "plain">>, {}, FALSE)}
  \cup {Flow(<<"a", "b">>, <<kind, "llm">>, {"a"}, FALSE) : kind \in {"llm", "generator"}}
  \cup {Skipping(Flow(<<"a">>, <<"llm", "plain">>, {"b"}, FALSE), [b |-> "a"]),
        Skipping(Flow(<<"a", "b">>, <<"generator", "plain">>, {}, FALSE), [b |-> "a"])}

MCAccepts == {{}, {"event-stream"}, {"event-stream", "json"}}
Symmetry == Permutations(Requests)
=============================================================================
