SPECIFICATION ServicesSpec
CONSTANTS
  Ids = {1, 2, 3}
  StartSets = {{}, {1, 3}}
  Batches <- MCBatches
  Interval <- MCInterval
  Base <- MCBase
  NoBase = 99
  Deletable = {2}
  Day = 2
  Minute = 2
  Tasks = {t1}
  Delays = {1}
  MaxStep = 1
  SentFile <- MCFile
  Chunk = 2
  WireSize = 2
  FsyncAfter = 2
  TransferFaults = 1
  Inodes = {1, 2, 3, 4}
  FileFaults = 2
  FileVersions <- MCVersions
  Callers = {p1, p2}
  MidBits = 2
  ExtraBits = 1
  SnBits = 1
  MachineId = 2
  MaxSerial = 3
  MaxTime = 2
  Pids = {p1, p2, p3}
  LoopTasks = {a, b}
  LoopTime = 3
  OthersOnTimeout = FALSE
  Peers = {1, 2}
  RequestSize = 2
  HeaderSize = 1
  PeerBodies <- MCBodies
  MaxRequests = 2
  PeerFaults = 1
INVARIANTS
  SchedulerSound
  TransferSound
  EventLoopSound
  FilesSound
PROPERTIES
  EveryTaskRuns
  EveryWaitEnds
CHECK_DEADLOCK FALSE
