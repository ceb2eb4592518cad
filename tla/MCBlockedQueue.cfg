SPECIFICATION FairSpec
CONSTANTS
  NULL = NULL
  Producers = {p1, p2}
  Consumers = {c1, c2}
  Nodes = {n1, n2, n3}
  Data = {d1, d2}
INVARIANTS
  QueueWellFormed
  NeverAllAsleep
PROPERTIES
  ImplementsFifo
  EveryPushIsPopped
