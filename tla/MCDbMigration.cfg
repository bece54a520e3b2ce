SPECIFICATION Spec
CONSTANTS
  Processes <- MCProcesses
  Sdk <- MCSdk
  RunNames = {r1, r2}
  None = None
INVARIANTS RowsKept SessionsFit
PROPERTIES ColumnsKept BlockedWithCause
