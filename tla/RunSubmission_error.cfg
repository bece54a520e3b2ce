SPECIFICATION Spec
CONSTANTS
  Names = {n1}
  Submitters = {s1}
  Viewers = {}
  MaxChildren = 2
  MayBreak = FALSE
  None = None
INVARIANTS
  UserErrorInRun
CHECK_DEADLOCK FALSE
