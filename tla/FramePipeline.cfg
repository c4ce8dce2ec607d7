SPECIFICATION FairSpec
CONSTANTS
  Bufs = {b1, b2, b3, b4}
  LibBuf = LibBuf
  NoBuf = NoBuf
  Torn = Torn
  MaxFrame = 2
INVARIANTS
  DriverWritesPrivately
  FrontIsStable
  NoLostWakeup
  FrameAccounting
PROPERTIES
  TakesNewest
  FramesGetProcessed
