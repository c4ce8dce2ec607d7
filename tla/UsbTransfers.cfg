SPECIFICATION Spec
CONSTANTS
  Kinds = {"bulk", "bulkcont", "interrupt", "iso", "control"}
  MaxUrbs = 3
  UrbLen = 1
  Faults = {"stall", "overflow", "error"}
  FaultyKinds = {"bulkcont", "interrupt", "iso", "control"}
  MaxSubmits = 2
  Xfers = {x1, x2, x3}
  Handlers = {h1}
  Timeouts = {0, 1, 2}
  MaxWait = 2
  MaxTime = 3
  MaxBulk = 2
  MaxIso = 3
  MaxCtrl = 2
  SetupSize = 1
  MaxLength = 5
  MaxPackets = 4
  PacketLengths = {0, 1, 2, 3, 4}
  MaxCalls = 3
INVARIANTS
  FreedOnlyWhenReaped
  DataInPlace
  NothingOutlivesCall
PROPERTIES
  NoTimeoutMissed
  ImplementsTransfer
  TransfersEnd
CHECK_DEADLOCK FALSE
