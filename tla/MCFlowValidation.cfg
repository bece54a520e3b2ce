SPECIFICATION Spec
CONSTANTS
  Names <- MCNames
  RawFlows <- MCRawFlows
INVARIANTS
  OrderIsTopological
  RejectsOnlyCycles
\* Validation ends.
CHECK_DEADLOCK FALSE
