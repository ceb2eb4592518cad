SPECIFICATION PoolSpec
CONSTANTS
  NULL = NULL
  Threads = {t1, t2, t3}
  MaxConnections = 3
  InitConnections = 1
  AllocTaskOnce = 1
  MaxTries = 2
  MinBuff = 2
  MaxBuff = 5
INVARIANTS
  EachTaskHasOneOwner
PROPERTIES
  StepsOfOwnersOnly
