SPECIFICATION Spec
CONSTANTS
  Capacity = 68
  AddrLens = {3, 4}
  StrLens = {4}
  BlobSizes = {5}
  MaxArgs = 3
  MaxMsgs = 2
  Capacities = {576}
  MaxAlive = 40
  MaxCursors = 3
  MaxFrames = 3
  Speeds = {0, 1, 2}
  Positions = 2
  MaxSessions = 2
  MaxCommits = 2
  PerPacket = 1
  LateWindow = 1
  MaxNet = 3
  MaxFaults = 1
  Sockets = {s1}
  Timers = {t1, t2}
  Periods = {2, 3}
  MaxTime = 3
  MaxPackets = 1
  MaxBreaks = 2
INVARIANTS
  PacketsReadBack
  ListsAgree
  NotOverslept
PROPERTIES
  ClientRecovers
CHECK_DEADLOCK FALSE
