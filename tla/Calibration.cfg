SPECIFICATION FairSpec
CONSTANTS
  UnstableFrames = 1
  StableFrames = 1
  TrainFrames = 2
  Threshold = 1
  Positions = {4, 5, 9}
  NoRect = NoRect
  MaxRuns = 3
  MaxFrames = 4
PROPERTIES
  TouchFreezesCalibration
  RoiIsSteady
  BackgroundMatchesRoi
  CalibrationFinishes
