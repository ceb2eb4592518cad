SPECIFICATION Spec
CONSTANTS
  NULL = NULL
  Threads = {t1, t2, t3}
  Servers = {s1}
  Managers = {m1, m2}
  Nodes = {n1, n2, n3}
  MaxCountPerEntry = 2
  MaxIdleTime = 1
  MaxLag = 1
INVARIANTS
  CountsExact
  ConnectionsAccounted
PROPERTIES
  DestroyClosesTable
CHECK_DEADLOCK FALSE
