SPECIFICATION Spec
CONSTANTS
  Entries = {e1, e2}
  ListHead = ListHead
  NULL = NULL
  SlotCount = 2
  MaxTime = 5
INVARIANTS
  LazyMoveIsInTime
CHECK_DEADLOCK FALSE
