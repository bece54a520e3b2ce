SPECIFICATION Spec
CONSTANTS
  c1 = c1
  c2 = c2
  t1 = t1
  t2 = t2
  n1 = n1
  n2 = n2
  m1 = m1
  Calls = {c1, c2}
  Threads = {t1, t2}
  Nodes = {n1, n2, m1}
  CallOf <- MCCallOf
  MaxInner <- MCMaxInner
  MaxPrints <- MCMaxPrints
CONSTRAINT FewSteps
INVARIANTS
  TypeOK
  RecordsEnd
  LogsOfOwnNode
  TraceTreeIsCallTree
  ThreadsLeftClean
  StdoutRestoredIfAlone
\* Every call ends.
CHECK_DEADLOCK FALSE
