----------------------------- MODULE Calibration -----------------------------
(***************************************************************************)
(* Calibration and the touch switch of STouchDetector: processFrame on the *)
(* processing thread against startCalibration and startTouch on the UI     *)
(* thread.  A frame's biggest rectangle is a position, so that getDistance *)
(* is a difference; pixel data is abstracted to how many depth frames a    *)
(* matrix sums up, of which calibration, and whether the memory it started *)
(* from was zero.  calibrationMutex is held by the UI thread at uiPc =     *)
(* "clearTouch"; every other critical section is a single step.            *)
(* Any of the four calls may come at any time: the native prototypes of    *)
(* startCalibration and startTouch leave out the jobject argument          *)
(* (stouchJNI.cpp:31, 35), so start is the low byte of an object handle,   *)
(* whatever the user's toggle shows.                                       *)
(***************************************************************************)
EXTENDS Integers

CONSTANTS UnstableFrames,  \* CalibrationUnstableFramesCount
          StableFrames,    \* CalibrationStableFramesCount
          TrainFrames,     \* BackgroundTrainFrameMax
          Threshold,       \* ThreasholdOfStabilityDistance
          Positions,       \* where the biggest rectangle can be
          NoRect,          \* no rectangle was found
          MaxRuns,         \* bound: calibrations started
          MaxFrames        \* bound: depth frames summed up in one calibration

ASSUME CalibrationAssumption ==
  /\ UnstableFrames \in Nat /\ StableFrames \in Nat /\ Threshold \in Nat
  /\ TrainFrames \in Nat \ {0}
  /\ Positions \subseteq Int /\ NoRect \notin Positions
  /\ MaxRuns \in Nat /\ MaxFrames \in Nat

VARIABLES
  calibrationState, calibrationFrmCount, roiCalibration,
  roi,                \* [run, pos]: the region of interest and who set it
  background,         \* [run, frames, clean]: the running sum
  trainedBackground,  \* [run, frames, clean, divisor]
  isTouchInProgress,
  procPc,             \* processFrame
  rect,               \* the biggest rectangle of the current frame
  uiPc,               \* startCalibration, startTouch
  run,                \* history: calibrations started so far
  steady              \* history: rectangles in a row that moved <= Threshold

calVars == <<calibrationState, calibrationFrmCount, roiCalibration, roi,
             background, trainedBackground, steady>>
vars == <<calVars, isTouchInProgress, procPc, rect, uiPc, run>>

States == {"UNSTABLE", "ROI_STABLE_TRANSITION_DELAY", "ROI_STABLE",
           "BACKGROUND_TRAINING", "COMPLETED"}
Origin == 0   \* vector<Point>(4): all four corners at (0, 0)

\* The constructor.  trainedBackground is not initialised and nothing has been
\* summed up; calibrationFrmCount is not assigned before startCalibration and
\* only read for display, so 0 stands for it.
Init ==
  /\ calibrationState = "COMPLETED" /\ calibrationFrmCount = 0
  /\ roiCalibration = Origin
  /\ roi = [run |-> 0, pos |-> Origin]
  /\ background \in [run : {0}, frames : {0}, clean : BOOLEAN]
  /\ trainedBackground \in [run : {0}, frames : {0}, clean : BOOLEAN,
                            divisor : {0}]
  /\ isTouchInProgress = FALSE
  /\ procPc = "frame" /\ rect = NoRect
  /\ uiPc = "idle" /\ run = 0 /\ steady = 0

-----------------------------------------------------------------------------
(* The UI thread.                                                          *)

\* Mutant: the sum of an earlier calibration is kept.
KeepBackground(n, c) == background
\* background = Mat1i(...): new memory that nobody clears
NewBackground(n, c) == [run |-> n, frames |-> 0, clean |-> c]

\* startCalibration(true) up to setTouchInProgress, which is the next step.
\* During a calibration it does nothing.
StartCalibration ==
  /\ uiPc = "idle"
  /\ calibrationState = "COMPLETED" /\ run < MaxRuns
  /\ run' = run + 1
  /\ calibrationState' = "UNSTABLE" /\ calibrationFrmCount' = 0
  /\ roiCalibration' = Origin /\ steady' = 0
  /\ \E c \in BOOLEAN : background' = NewBackground(run', c)
  /\ uiPc' = "clearTouch"
  /\ UNCHANGED <<roi, trainedBackground, isTouchInProgress, procPc, rect>>

ClearTouch ==
  /\ uiPc = "clearTouch"
  /\ isTouchInProgress' = FALSE /\ uiPc' = "idle"
  /\ UNCHANGED <<calVars, procPc, rect, run>>

\* startCalibration(false); calculateBackgroundTrain only reports.
StopCalibration ==
  /\ uiPc = "idle" /\ calibrationState # "COMPLETED"
  /\ calibrationState' = "COMPLETED"
  /\ UNCHANGED <<calibrationFrmCount, roiCalibration, roi, background,
                 trainedBackground, steady, isTouchInProgress, procPc, rect,
                 uiPc, run>>

\* Mutant: touch is started without stopping the calibration.
CalibrationGoesOn == calibrationState
\* startTouch(true) calls startCalibration(false) first
StoppedCalibration == "COMPLETED"

StartTouch ==
  /\ uiPc = "idle"
  /\ calibrationState' = StoppedCalibration
  /\ uiPc' = "setTouch"
  /\ UNCHANGED <<calibrationFrmCount, roiCalibration, roi, background,
                 trainedBackground, steady, isTouchInProgress, procPc, rect,
                 run>>

SetTouch ==
  /\ uiPc = "setTouch"
  /\ isTouchInProgress' = TRUE /\ uiPc' = "idle"
  /\ UNCHANGED <<calVars, procPc, rect, run>>

StopTouch ==
  /\ uiPc = "idle"
  /\ isTouchInProgress' = FALSE
  /\ UNCHANGED <<calVars, procPc, rect, uiPc, run>>

-----------------------------------------------------------------------------
(* The processing thread: one round of processFrame.                       *)

\* getTouchInProgress decides; findSquares then looks at the frame.
BeginFrame(r) ==
  /\ procPc = "frame"
  /\ IF isTouchInProgress
     THEN procPc' = "touch" /\ UNCHANGED rect
     ELSE procPc' = "squares" /\ rect' = r
  /\ r = NoRect => background.frames < MaxFrames
  /\ UNCHANGED <<calVars, isTouchInProgress, uiPc, run>>

\* processTouch only reads what calibration wrote.
ProcessTouch ==
  /\ procPc = "touch"
  /\ procPc' = "frame"
  /\ UNCHANGED <<calVars, isTouchInProgress, rect, uiPc, run>>

\* Mutant: + for -, so that no rectangle is ever near the last one.
DistanceSum(a, b) == a + b
\* getDistance
Distance(a, b) == IF a >= b THEN a - b ELSE b - a

\* Mutant: the frame count survives a jump of the rectangle.
CountKept(jumped) == calibrationFrmCount + 1
\* calibrationFrmCount after the stability check
Counted(jumped) == IF jumped THEN 0 ELSE calibrationFrmCount + 1

\* The chain of transitions on a frame with a rectangle
Transition(st, n) ==
  IF st = "UNSTABLE" /\ n > UnstableFrames
  THEN [state |-> "ROI_STABLE_TRANSITION_DELAY", count |-> 0]
  ELSE IF st = "ROI_STABLE_TRANSITION_DELAY" /\ n > StableFrames
  THEN [state |-> "ROI_STABLE", count |-> 0]
  ELSE IF st = "ROI_STABLE" THEN [state |-> "BACKGROUND_TRAINING", count |-> 0]
  ELSE [state |-> st, count |-> n]

Jumped ==
  /\ calibrationState # "BACKGROUND_TRAINING"
  /\ Distance(roiCalibration, rect) > Threshold

\* State and count after the rectangle was looked at, before training
AfterRect ==
  IF rect = NoRect
  THEN [state |-> calibrationState, count |-> calibrationFrmCount]
  ELSE Transition(IF Jumped THEN "UNSTABLE" ELSE calibrationState,
                  Counted(Jumped))

AdoptsRoi == AfterRect.state = "ROI_STABLE" /\ calibrationState # "ROI_STABLE"

\* Background training with state and count s
Train(s) ==
  IF s.state # "BACKGROUND_TRAINING"
  THEN /\ calibrationState' = s.state /\ calibrationFrmCount' = s.count
       /\ UNCHANGED <<background, trainedBackground>>
  ELSE IF s.count < TrainFrames
  THEN /\ calibrationState' = s.state /\ calibrationFrmCount' = s.count
       /\ background' = [background EXCEPT !.frames = @ + 1]
       /\ UNCHANGED trainedBackground
  ELSE /\ calibrationState' = "COMPLETED" /\ calibrationFrmCount' = 0
       /\ trainedBackground' = [run |-> background.run,
                                frames |-> background.frames,
                                clean |-> background.clean,
                                divisor |-> s.count]
       /\ UNCHANGED background

\* Something to calibrate, checked under calibrationMutex
InCalibration == calibrationState # "COMPLETED"

\* The critical section of processFrame.  An adopted roi is also handed to
\* Java (virtualROIUpdated), which this module leaves out.
CalibrateFrame ==
  /\ procPc = "squares" /\ uiPc # "clearTouch"
  /\ procPc' = "frame"
  /\ IF InCalibration
     THEN /\ Train(AfterRect)
          /\ roi' = IF AdoptsRoi THEN [run |-> run, pos |-> rect] ELSE roi
          /\ IF rect = NoRect
             THEN UNCHANGED <<roiCalibration, steady>>
             ELSE /\ roiCalibration' = rect
                  /\ steady' = IF Distance(roiCalibration, rect) > Threshold
                               THEN 0 ELSE steady + 1
     ELSE UNCHANGED calVars
  /\ UNCHANGED <<isTouchInProgress, rect, uiPc, run>>

-----------------------------------------------------------------------------
UiSecondHalf == ClearTouch \/ SetTouch
ProcStep ==
  (\E r \in Positions \cup {NoRect} : BeginFrame(r)) \/ ProcessTouch \/ CalibrateFrame

Next ==
  \/ StartCalibration \/ StopCalibration \/ StartTouch \/ StopTouch
  \/ UiSecondHalf \/ ProcStep

Spec == Init /\ [][Next]_vars

\* Frames keep arriving and both threads run; nothing is assumed of the user.
FairSpec == Spec /\ WF_vars(ProcStep) /\ WF_vars(UiSecondHalf)

-----------------------------------------------------------------------------
\* Type correctness; in each state of a calibration the frame count stays below
\* the limit that ends the state.
TypeOK ==
  /\ calibrationState \in States
  /\ calibrationFrmCount \in Nat
  /\ calibrationState = "UNSTABLE" => calibrationFrmCount <= UnstableFrames
  /\ calibrationState = "ROI_STABLE_TRANSITION_DELAY" =>
       calibrationFrmCount <= StableFrames
  /\ calibrationState = "ROI_STABLE" => calibrationFrmCount = 0
  /\ calibrationState = "BACKGROUND_TRAINING" =>
       calibrationFrmCount < TrainFrames
  /\ roiCalibration \in Int
  /\ roi \in [run : Nat, pos : Int]
  /\ background \in [run : Nat, frames : Nat, clean : BOOLEAN]
  /\ trainedBackground \in [run : Nat, frames : Nat, clean : BOOLEAN,
                            divisor : Nat]
  /\ isTouchInProgress \in BOOLEAN
  /\ procPc \in {"frame", "touch", "squares"}
  /\ rect \in Positions \cup {NoRect}
  /\ uiPc \in {"idle", "clearTouch", "setTouch"}
  /\ run \in Nat
  /\ steady \in Nat

\* While touch is on no calibration is in progress.  startTouch does not ask whether
\* one was ever finished: after an aborted one the roi may be newer than the background,
\* and before the first the background is the constructor's; but a background that was
\* trained is that of a whole training and belongs to no later calibration than the roi.
TouchReadsWholeTraining ==
  isTouchInProgress /\ uiPc = "idle" =>
    /\ calibrationState = "COMPLETED"
    /\ trainedBackground.run <= roi.run
    /\ trainedBackground.run > 0 =>
         /\ trainedBackground.divisor = TrainFrames
         /\ trainedBackground.frames >= TrainFrames

\* What processTouch reads without calibrationMutex, roi and
\* trainedBackground, does not change while touch is on, although a frame that
\* chose the calibration branch before startTouch is still to be finished.
TouchFreezesCalibration ==
  [][isTouchInProgress /\ uiPc # "clearTouch"
       => UNCHANGED <<roi, trainedBackground>>]_vars

\* The region of interest is only taken from a rectangle that stayed within
\* Threshold for the full UNSTABLE and TRANSITION_DELAY periods of this
\* calibration.
RoiIsSteady ==
  [][roi' # roi => /\ roi'.run = run
                   /\ steady' >= UnstableFrames + StableFrames + 2]_vars

\* When a background is trained, it sums up frames of this calibration only,
\* at least as many as it is divided by, and goes with the roi of the same
\* calibration.
BackgroundMatchesRoi ==
  [][trainedBackground' # trainedBackground =>
       /\ trainedBackground'.run = run /\ roi.run = run
       /\ trainedBackground'.divisor > 0
       /\ trainedBackground'.frames >= trainedBackground'.divisor]_vars

\* A rectangle that stops moving gets every calibration completed.
CalibrationFinishes ==
  \A p \in Positions :
    <>[](rect = p) => []<>(calibrationState = "COMPLETED")

-----------------------------------------------------------------------------
(* The inductive invariant.                                                *)

\* The frame count accounts for the rectangles in a row, then for the frames
\* summed up.
CountInv ==
  /\ calibrationState = "UNSTABLE" => steady >= calibrationFrmCount
  /\ calibrationState = "ROI_STABLE_TRANSITION_DELAY" =>
       steady >= UnstableFrames + 1 + calibrationFrmCount
  /\ calibrationState = "BACKGROUND_TRAINING" =>
       background.frames > calibrationFrmCount

RunInv ==
  /\ calibrationState # "COMPLETED" => background.run = run
  /\ calibrationState \in {"ROI_STABLE", "BACKGROUND_TRAINING"} => roi.run = run

SwitchInv ==
  /\ isTouchInProgress /\ uiPc # "clearTouch" => calibrationState = "COMPLETED"
  /\ uiPc = "setTouch" => calibrationState = "COMPLETED"

IndInv == TypeOK /\ CountInv /\ RunInv /\ SwitchInv

\* Roi and background are only replaced by those of a calibration that got that far.
TrainedInv ==
  /\ roi.run <= run /\ trainedBackground.run <= roi.run
  /\ trainedBackground.run > 0 =>
       /\ trainedBackground.divisor = TrainFrames
       /\ trainedBackground.frames >= TrainFrames

=============================================================================
