SPECIFICATION Spec
CONSTANTS
  Entries = {e1, e2, e3}
  ListHead = ListHead
  NULL = NULL
  SlotCount = 2
  MaxTime = 4
INVARIANTS
  WheelWhole
  LateByLessThanOneTurn
CHECK_DEADLOCK FALSE
