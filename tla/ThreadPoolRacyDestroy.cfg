SPECIFICATION RacySpec
CONSTANTS
  Workers = {w1, w2}
  Callers = {c1, c2}
  Jobs = {j1, j2, j3}
  Destroyer = d
  TotalSize = 2
  NULL = NULL
INVARIANTS
  DestroyAfterAllJobs
CHECK_DEADLOCK FALSE
