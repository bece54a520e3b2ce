SPECIFICATION FairSpec
CONSTANTS
  Names = {n1, n2}
  Submitters = {s1, s2}
  Viewers = {v1}
  MaxChildren = 1
  MayBreak = TRUE
  None = None
INVARIANTS
  CompletedIsWhole
  FilesOfOwner
  LineLogsKept
PROPERTIES
  FinalStatusIsFinal
  UpdateKeepsEdits
  StreamEnds
\* Every submitter has submitted its run.
CHECK_DEADLOCK FALSE
