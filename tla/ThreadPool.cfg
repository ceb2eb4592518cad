SPECIFICATION FairSpec
CONSTANTS
  Workers = {w1, w2}
  Callers = {c1, c2, c3}
  Jobs = {j1, j2, j3, j4}
  Destroyer = d
  TotalSize = 2
  NULL = NULL
INVARIANTS
  PoolAccount
PROPERTIES
  AskedJobsRun
  DestroyReturns
CHECK_DEADLOCK FALSE
