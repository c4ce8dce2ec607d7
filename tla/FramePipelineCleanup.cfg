SPECIFICATION FairSpec
CONSTANTS
  Bufs = {b1, b2, b3, b4}
  LibBuf = LibBuf
  NoBuf = NoBuf
  Torn = Torn
  MaxFrame = 1
PROPERTIES
  CleanupCompletes
