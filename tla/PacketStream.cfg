SPECIFICATION Spec
CONSTANTS
  PktsPerFrame = 4
  LostLimit = 2
  SeqMod = 5
  PktSize = 3
  LastPktSize = 2
  DataLens = {2, 3, 4}
  MaxFrame = 4
INVARIANTS
  PacketsInPlace
  WritesInBounds
  ReturnedFrameIsAssembled
PROPERTIES
  FramesInOrder
