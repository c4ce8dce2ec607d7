SPECIFICATION FairSpec
CONSTANT Xfers = {x1, x2}
INVARIANTS
  NoCallbackAfterFree
  DeadXfersExact
PROPERTIES
  StopEnds
  UnplugEndsSession
