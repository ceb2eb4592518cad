SPECIFICATION FairSpec
CONSTANTS
  NULL = NULL
  Threads = {p1, p2, main}
  Producers = {p1, p2}
  Main = main
  MaxConnections = 3
  InitConnections = 1
  AllocTaskOnce = 1
  MaxTries = 1
  MinBuff = 2
  MaxBuff = 2
INVARIANTS
  OnePlacePerTask
PROPERTIES
  TasksComeBack
  QuitWakesSleeper
CHECK_DEADLOCK FALSE
