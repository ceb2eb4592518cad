SPECIFICATION Spec
CONSTANTS
  ListKeys = {1, 2, 3}
  ListNodes = {1, 2, 3}
  ListTop = 1
  ListBorn = 4
  TreeKeys = {1, 2, 3, 4, 5, 6, 7, 8}
  TreeVersions = {1}
  HeapElements = {1, 2, 3, 4, 5, 6}
  HeapPriorities = {1, 2, 3}
  HeapStep = 2
  HashKeys = {0, 3, 103}
  HashLimits = {0, 30}
  HashMaxValue = 3
  ChainCells = {1, 2, 3, 4}
  ChainData = {1, 2, 3}
  Chars = {1, 2}
  Space = 2
  MinSize = 2
  ReadStep = 1
  ReadMost = 2
  MaxLen = 6
  SplitLen = 2
  MaxBuff = 3
  MaxRest = 5
  TableElems = {1, 2, 3, 4, 5, 6}
  Buckets0 = 2
  Thresh = 2
  ListElems = {1, 2, 3, 4, 5}
  Strings = {"a"}
  Blocks = {1, 2, 3, 4}
  Slots0 = 2
  RingSize = 2
  ArrayMost = 4
  ProcessNames = {"p", "q"}
  Processes = {1, 2, 3}
  Messages = {"x", "y"}
INVARIANTS
  SkiplistSound
  AvlTreeSound
  PQueueSound
  HashTableSound
  ListsSound
  UtHashSound
  BStringSound
