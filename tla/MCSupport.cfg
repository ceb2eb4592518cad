SPECIFICATION Spec
CONSTANTS
  BlockTrunks = {t1, t2, t3}
  BlockDelays = {0, 1}
  BlockTime = 1
  Trunks = {t1, t2, t3}
  PerTrunk = 2
  Sizes = {1, 3, 7, 12}
  BigBlocks = {b1}
  BytesLimit = 30
  SizeOnce = 5
  Discard = 1
  BlockSizes = {2, 3, 7}
  MaxTrunks = 3
  Capacity = 2
  Texts <- ShortTexts
  FormatRoom = 3
  IntRoom = 3
  MaxLength = 9
  Loggers = {"worker"}
  Syncer = "syncer"
  BuffSize = 2
  RotateSize = 2
  KeepDays = 1
  MaxLines = 3
  MaxDay = 2
  MaxFaults = 1
INVARIANTS
  AllocatorExact
  MpoolSound
  LoggerSound
PROPERTY
  MblockNeverEarly
CHECK_DEADLOCK FALSE
