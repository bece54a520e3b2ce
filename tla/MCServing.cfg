SPECIFICATION Spec
CONSTANTS
  r1 = r1
  r2 = r2
  r3 = r3
  Requests = {r1, r2, r3}
  Flows <- MCFlows
  Accepts <- MCAccepts
INVARIANTS
  ReadyWhenQuiet
  WorkingDirKept
  TextAsProduced
  AnswerAsAsked
SYMMETRY Symmetry
\* Every request is answered and no other comes.
CHECK_DEADLOCK FALSE
