SPECIFICATION Spec
CONSTANTS
  DataFiles <- MCDataFiles
  None = None
INVARIANTS AggregationAligned DetailsAligned EvaluationAligned EvaluationIsJoin
CHECK_DEADLOCK FALSE
