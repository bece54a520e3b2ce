SPECIFICATION Spec
CONSTANTS
  NLines = 2
  Workers = {w1, w2}
  StorageMayFail = TRUE
SYMMETRY WorkerSymmetry
INVARIANTS
  RecordMatchesResult
  NodeRecordsStored
  NoChildLeft
PROPERTIES
  ImplementsBulkExecution
\* run returns or raises: the call ends.
CHECK_DEADLOCK FALSE
