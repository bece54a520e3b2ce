SPECIFICATION FairSpec
CONSTANTS
  NLines = 3
  Workers = {w1}
  StorageMayFail = FALSE
PROPERTIES
  RunTerminates
CHECK_DEADLOCK FALSE
