SPECIFICATION Spec
CONSTANTS
  Indices = {0, 1}
  K4W = {1}
  MaxDevs = 2
  Retries = 2
  MaxStrays = 2
  Flags = {"exposure", "white"}
  VideoModes = {"rgb", "irHigh"}
  DepthModes = {"11bit", "mm"}
  Registered = {"mm"}
  IsK4W = TRUE
  TagModulus = 4
  MaxCalls = 4
  MaxFaults = 2
  Bytes = {0, 1, 2, 4, 8, 16, 32, 64, 128, 255}
  Width = 3
  Height = 2
  MaxMetric = 3
  Scale = 2
  Distortions <- MCDistortions
  PackedFrames <- MCPackedFrames
  BayerFrames <- MCBayerFrames
  DepthFrames <- MCDepthFrames
  Shifts = {0, 2}
  MaxFrame = 3
  MaxDrivers = 3
INVARIANTS
  HandlesBalanced
  CommandsFit
  FramesConverted
  WorkerMatchesSurface
  OneDriverStreams
PROPERTIES
  PreviewFollows
CHECK_DEADLOCK FALSE
