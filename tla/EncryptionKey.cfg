SPECIFICATION FairKeySpec
CONSTANTS
  Processes = {p1, p2, p3}
  MaxCalls = 2
  None = None
INVARIANTS
  SecretsReadable
PROPERTIES
  CallGetsThrough
\* The calls are used up.
CHECK_DEADLOCK FALSE
