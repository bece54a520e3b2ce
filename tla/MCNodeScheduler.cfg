SPECIFICATION FairSpec
CONSTANTS
  Flows <- MCFlows
  NodeConcurrency = 3
  DEFAULT_CONCURRENCY_FLOW = 2
INVARIANTS
  InputsAvailable
  SpinsOnlyIfUnsatisfiable
PROPERTIES
  NothingStartsAfterError
  EveryStepAdvances
  ImplementsDagExecution
  Terminates
\* execute returns or raises: the call ends.
CHECK_DEADLOCK FALSE
