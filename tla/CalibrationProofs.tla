-------------------------- MODULE CalibrationProofs --------------------------
(* Calibration and touch never disturb each other, for every choice of the *)
(* frame counts, the threshold and the positions.                          *)
EXTENDS Calibration, TLAPS

\* The constructor's state satisfies the invariant.
LEMMA InitIndInv == Init => IndInv
<1> SUFFICES ASSUME Init PROVE IndInv
  OBVIOUS
<1>1. TypeOK
  <2>1. background \in [run : Nat, frames : Nat, clean : BOOLEAN]
    <3>. PICK c \in BOOLEAN :
              background = [run |-> 0, frames |-> 0, clean |-> c]
      BY DEF Init
    <3>. QED
      OBVIOUS
  <2>2. trainedBackground \in [run : Nat, frames : Nat, clean : BOOLEAN,
                               divisor : Nat]
    <3>. PICK c \in BOOLEAN :
              trainedBackground = [run |-> 0, frames |-> 0, clean |-> c,
                                   divisor |-> 0]
      BY DEF Init
    <3>. QED
      OBVIOUS
  <2>3. roi \in [run : Nat, pos : Int] /\ roiCalibration \in Int
    BY DEF Init, Origin
  <2>. QED
    BY <2>1, <2>2, <2>3 DEF Init, TypeOK, States
<1>2. CountInv /\ RunInv /\ SwitchInv
  BY DEF Init, CountInv, RunInv, SwitchInv
<1>. QED
  BY <1>1, <1>2 DEF IndInv

\* The UI thread's steps preserve the invariant.
LEMMA UiStep ==
  ASSUME IndInv,
         StartCalibration \/ StopCalibration \/ StartTouch \/ StopTouch
           \/ UiSecondHalf
  PROVE  IndInv'
<1>1. CASE StartCalibration
  <2>1. background' \in [run : Nat, frames : Nat, clean : BOOLEAN]
        /\ background'.run = run'
    BY <1>1 DEF IndInv, TypeOK, StartCalibration, NewBackground
  <2>2. TypeOK'
    BY <1>1, <2>1, CalibrationAssumption
    DEF IndInv, TypeOK, StartCalibration, States, Origin
  <2>3. CountInv' /\ RunInv' /\ SwitchInv'
    BY <1>1, <2>1 DEF IndInv, StartCalibration, CountInv, RunInv, SwitchInv
  <2>. QED
    BY <2>2, <2>3 DEF IndInv
<1>2. CASE StopCalibration
  BY <1>2
  DEF IndInv, TypeOK, StopCalibration, States, CountInv, RunInv, SwitchInv
<1>3. CASE StartTouch
  BY <1>3
  DEF IndInv, TypeOK, StartTouch, StoppedCalibration, States, CountInv, RunInv,
      SwitchInv
<1>4. CASE StopTouch
  <2>1. isTouchInProgress' \in BOOLEAN /\ uiPc' \in {"idle", "clearTouch", "setTouch"}
    BY <1>4 DEF IndInv, TypeOK, StopTouch
  <2>2. UNCHANGED <<calVars, procPc, rect, run>>
    BY <1>4 DEF StopTouch
  <2>3. TypeOK' /\ CountInv' /\ RunInv'
    BY <2>1, <2>2 DEF IndInv, TypeOK, calVars, CountInv, RunInv
  <2>4. SwitchInv'
    BY <1>4, <2>2 DEF IndInv, StopTouch, calVars, SwitchInv
  <2>. QED
    BY <2>3, <2>4 DEF IndInv
<1>5. CASE ClearTouch
  <2>1. isTouchInProgress' \in BOOLEAN /\ uiPc' \in {"idle", "clearTouch", "setTouch"}
    BY <1>5 DEF IndInv, TypeOK, ClearTouch
  <2>2. UNCHANGED <<calVars, procPc, rect, run>>
    BY <1>5 DEF ClearTouch
  <2>3. TypeOK' /\ CountInv' /\ RunInv'
    BY <2>1, <2>2 DEF IndInv, TypeOK, calVars, CountInv, RunInv
  <2>4. SwitchInv'
    BY <1>5, <2>2 DEF IndInv, ClearTouch, calVars, SwitchInv
  <2>. QED
    BY <2>3, <2>4 DEF IndInv
<1>6. CASE SetTouch
  <2>1. isTouchInProgress' \in BOOLEAN /\ uiPc' \in {"idle", "clearTouch", "setTouch"}
    BY <1>6 DEF IndInv, TypeOK, SetTouch
  <2>2. UNCHANGED <<calVars, procPc, rect, run>>
    BY <1>6 DEF SetTouch
  <2>3. TypeOK' /\ CountInv' /\ RunInv'
    BY <2>1, <2>2 DEF IndInv, TypeOK, calVars, CountInv, RunInv
  <2>4. SwitchInv'
    BY <1>6, <2>2 DEF IndInv, SetTouch, calVars, SwitchInv
  <2>. QED
    BY <2>3, <2>4 DEF IndInv
<1>. QED
  BY <1>1, <1>2, <1>3, <1>4, <1>5, <1>6 DEF UiSecondHalf

\* Rectangles in a row after a frame with a rectangle.
NextSteady == IF rect = NoRect THEN steady
              ELSE IF Distance(roiCalibration, rect) > Threshold
              THEN 0 ELSE steady + 1

\* What looking at the rectangle leaves: a state, its count and the number of
\* rectangles in a row fit together again.
LEMMA AfterRectFacts ==
  ASSUME IndInv, InCalibration
  PROVE  /\ AfterRect.state \in States \ {"COMPLETED"}
         /\ AfterRect.count \in Nat
         /\ AfterRect.state = "UNSTABLE" =>
              AfterRect.count <= UnstableFrames /\ NextSteady >= AfterRect.count
         /\ AfterRect.state = "ROI_STABLE_TRANSITION_DELAY" =>
              /\ AfterRect.count <= StableFrames
              /\ NextSteady >= UnstableFrames + 1 + AfterRect.count
         /\ AfterRect.state = "ROI_STABLE" => AfterRect.count = 0
         /\ AfterRect.state = "BACKGROUND_TRAINING" =>
              /\ AfterRect.count <= TrainFrames
              /\ background.frames >= AfterRect.count
              /\ roi.run = run
         /\ AdoptsRoi => NextSteady >= UnstableFrames + StableFrames + 2
         /\ AfterRect.state = "ROI_STABLE" /\ ~AdoptsRoi => roi.run = run
<1>1. CASE rect = NoRect
  <2>1. AfterRect = [state |-> calibrationState, count |-> calibrationFrmCount]
    BY <1>1 DEF AfterRect
  <2>. QED
    BY <1>1, <2>1, CalibrationAssumption
    DEF IndInv, TypeOK, CountInv, RunInv, InCalibration, NextSteady, AdoptsRoi
<1>2. CASE rect # NoRect
  <2>1. CASE Jumped
    <3>1. AfterRect = [state |-> "UNSTABLE", count |-> 0]
      BY <1>2, <2>1, CalibrationAssumption DEF AfterRect, Transition, Counted
    <3>. QED
      BY <1>2, <2>1, <3>1, CalibrationAssumption
      DEF IndInv, TypeOK, Jumped, NextSteady, AdoptsRoi, States
  <2>2. CASE ~Jumped
    <3> DEFINE n == calibrationFrmCount + 1
    <3>1. AfterRect = Transition(calibrationState, n)
      BY <1>2, <2>2 DEF AfterRect, Counted
    <3>2. n \in Nat
      BY DEF IndInv, TypeOK
    <3>3. calibrationState # "BACKGROUND_TRAINING" => NextSteady = steady + 1
      BY <1>2, <2>2 DEF Jumped, NextSteady
    <3>4. CASE calibrationState = "UNSTABLE"
      BY <3>1, <3>3, <3>4, CalibrationAssumption
      DEF IndInv, TypeOK, CountInv, Transition, AdoptsRoi, States
    <3>5. CASE calibrationState = "ROI_STABLE_TRANSITION_DELAY"
      BY <3>1, <3>3, <3>5, CalibrationAssumption
      DEF IndInv, TypeOK, CountInv, Transition, AdoptsRoi, States
    <3>6. CASE calibrationState = "ROI_STABLE"
      BY <3>1, <3>6, CalibrationAssumption
      DEF IndInv, TypeOK, RunInv, Transition, AdoptsRoi, States
    <3>7. CASE calibrationState = "BACKGROUND_TRAINING"
      BY <3>1, <3>7, CalibrationAssumption
      DEF IndInv, TypeOK, CountInv, RunInv, Transition, AdoptsRoi, States
    <3>. QED
      BY <3>4, <3>5, <3>6, <3>7 DEF IndInv, TypeOK, States, InCalibration
  <2>. QED
    BY <2>1, <2>2
<1>. QED
  BY <1>1, <1>2

\* The critical section of processFrame preserves the invariant.
LEMMA CalibrateStep == IndInv /\ CalibrateFrame => IndInv'
<1> SUFFICES ASSUME IndInv, CalibrateFrame PROVE IndInv'
  OBVIOUS
<1>1. CASE ~InCalibration
  BY <1>1
  DEF IndInv, TypeOK, CalibrateFrame, calVars, CountInv, RunInv, SwitchInv
<1>2. CASE InCalibration
  <2> DEFINE s == AfterRect
  <2>1. steady' = NextSteady /\ steady' \in Nat /\ roiCalibration' \in Int
    BY <1>2, CalibrationAssumption
    DEF IndInv, TypeOK, CalibrateFrame, NextSteady
  <2>2. /\ roi' = IF AdoptsRoi THEN [run |-> run, pos |-> rect] ELSE roi
        /\ Train(s)
    BY <1>2 DEF CalibrateFrame
  <2>3. roi' \in [run : Nat, pos : Int]
    <3>1. AdoptsRoi => rect \in Int
      BY CalibrationAssumption DEF IndInv, TypeOK, AdoptsRoi, AfterRect
    <3>. QED
      BY <2>2, <3>1 DEF IndInv, TypeOK
  <2>4. /\ procPc' = "frame" /\ isTouchInProgress' = isTouchInProgress
        /\ rect' = rect /\ uiPc' = uiPc /\ run' = run
    BY DEF CalibrateFrame
  <2>5. SwitchInv'
    BY <1>2, <2>4 DEF IndInv, SwitchInv, InCalibration, CalibrateFrame
  <2>6. CASE s.state # "BACKGROUND_TRAINING"
    <3>1. /\ calibrationState' = s.state /\ calibrationFrmCount' = s.count
          /\ background' = background
          /\ trainedBackground' = trainedBackground
      BY <2>2, <2>6 DEF Train
    <3>2. TypeOK'
      BY <1>2, <2>1, <2>3, <2>4, <2>6, <3>1, AfterRectFacts
      DEF IndInv, TypeOK
    <3>3. CountInv'
      BY <1>2, <2>1, <2>6, <3>1, AfterRectFacts DEF CountInv
    <3>4. RunInv'
      BY <1>2, <2>2, <2>4, <2>6, <3>1, AfterRectFacts
      DEF IndInv, RunInv, InCalibration
    <3>. QED
      BY <2>5, <3>2, <3>3, <3>4 DEF IndInv
  <2>7. CASE s.state = "BACKGROUND_TRAINING" /\ s.count < TrainFrames
    <3>1. /\ calibrationState' = s.state /\ calibrationFrmCount' = s.count
          /\ background' = [background EXCEPT !.frames = @ + 1]
          /\ trainedBackground' = trainedBackground
      BY <2>2, <2>7 DEF Train
    <3>2. TypeOK'
      BY <1>2, <2>1, <2>3, <2>4, <2>7, <3>1, AfterRectFacts
      DEF IndInv, TypeOK
    <3>3. CountInv' /\ RunInv'
      BY <1>2, <2>2, <2>4, <2>7, <3>1, AfterRectFacts
      DEF IndInv, TypeOK, CountInv, RunInv, InCalibration, AdoptsRoi
    <3>. QED
      BY <2>5, <3>2, <3>3 DEF IndInv
  <2>8. CASE s.state = "BACKGROUND_TRAINING" /\ ~(s.count < TrainFrames)
    <3>1. /\ calibrationState' = "COMPLETED" /\ calibrationFrmCount' = 0
          /\ background' = background
          /\ trainedBackground' = [run |-> background.run,
                                   frames |-> background.frames,
                                   clean |-> background.clean,
                                   divisor |-> s.count]
      BY <2>2, <2>8 DEF Train
    <3>2. TypeOK'
      BY <1>2, <2>1, <2>3, <2>4, <3>1, AfterRectFacts
      DEF IndInv, TypeOK, States
    <3>3. CountInv' /\ RunInv'
      BY <3>1 DEF CountInv, RunInv
    <3>. QED
      BY <2>5, <3>2, <3>3 DEF IndInv
  <2>. QED
    BY <2>6, <2>7, <2>8
<1>. QED
  BY <1>1, <1>2

\* Every step preserves the invariant.
LEMMA NextIndInv == IndInv /\ [Next]_vars => IndInv'
<1> SUFFICES ASSUME IndInv, [Next]_vars PROVE IndInv'
  OBVIOUS
<1>1. CASE \E r \in Positions \cup {NoRect} : BeginFrame(r)
  BY <1>1
  DEF IndInv, TypeOK, BeginFrame, calVars, CountInv, RunInv, SwitchInv
<1>2. CASE ProcessTouch
  BY <1>2
  DEF IndInv, TypeOK, ProcessTouch, calVars, CountInv, RunInv, SwitchInv
<1>3. CASE CalibrateFrame
  BY <1>3, CalibrateStep
<1>4. CASE UNCHANGED vars
  BY <1>4
  DEF IndInv, TypeOK, vars, calVars, CountInv, RunInv, SwitchInv
<1>. QED
  BY <1>1, <1>2, <1>3, <1>4, UiStep DEF Next, ProcStep

-----------------------------------------------------------------------------
\* The inductive invariant holds in every reachable state.
THEOREM SpecIndInv == Spec => []IndInv
  BY InitIndInv, NextIndInv, PTL DEF Spec

\* Types, and the frame count stays below the limit of its state.
THEOREM TypeCorrect == Spec => []TypeOK
<1>1. IndInv => TypeOK
  BY DEF IndInv
<1>. QED
  BY <1>1, SpecIndInv, PTL

\* A training that ends has summed up a whole calibration's frames.
LEMMA TrainedStep == IndInv /\ TrainedInv /\ [Next]_vars => TrainedInv'
<1> SUFFICES ASSUME IndInv, TrainedInv, [Next]_vars PROVE TrainedInv'
  OBVIOUS
<1>1. CASE CalibrateFrame /\ InCalibration
  <2>1. /\ roi' = IF AdoptsRoi THEN [run |-> run, pos |-> rect] ELSE roi
        /\ Train(AfterRect) /\ run' = run
    BY <1>1 DEF CalibrateFrame
  <2>2. /\ roi.run \in Nat /\ run \in Nat /\ trainedBackground.run \in Nat
        /\ background.run = run /\ TrainFrames \in Nat
    BY <1>1, CalibrationAssumption DEF IndInv, TypeOK, RunInv, InCalibration
  <2>3. roi'.run <= run' /\ trainedBackground.run <= roi'.run
    BY <2>1, <2>2 DEF TrainedInv
  <2>4. CASE AfterRect.state = "BACKGROUND_TRAINING" /\ ~(AfterRect.count < TrainFrames)
    <3>1. /\ AfterRect.count = TrainFrames /\ background.frames >= TrainFrames
          /\ roi.run = run
      BY <1>1, <2>2, <2>4, AfterRectFacts
    <3>2. trainedBackground' = [run |-> background.run, frames |-> background.frames,
                                clean |-> background.clean, divisor |-> AfterRect.count]
      BY <2>1, <2>4 DEF Train
    <3>3. roi'.run = run
      BY <2>1, <3>1
    <3>. QED
      BY <2>1, <2>2, <3>1, <3>2, <3>3 DEF TrainedInv
  <2>5. CASE ~(AfterRect.state = "BACKGROUND_TRAINING" /\ ~(AfterRect.count < TrainFrames))
    <3>1. trainedBackground' = trainedBackground
      BY <2>1, <2>5 DEF Train
    <3>. QED
      BY <2>3, <3>1 DEF TrainedInv
  <2>. QED
    BY <2>4, <2>5
<1>2. CASE StartCalibration
  BY <1>2 DEF IndInv, TypeOK, StartCalibration, TrainedInv
<1>3. CASE ~StartCalibration /\ ~(CalibrateFrame /\ InCalibration)
  <2>1. UNCHANGED <<roi, trainedBackground, run>>
    BY <1>3
    DEF Next, StopCalibration, StartTouch, StopTouch, UiSecondHalf, ClearTouch, SetTouch,
        ProcStep, BeginFrame, ProcessTouch, CalibrateFrame, vars, calVars
  <2>. QED
    BY <2>1 DEF TrainedInv
<1>. QED
  BY <1>1, <1>2, <1>3

\* Touch is only on while no calibration runs, and what it subtracts is never part of a
\* training, but a whole one, of no later calibration than the roi.
THEOREM TouchBackground == Spec => []TouchReadsWholeTraining
<1>1. Init => TrainedInv
  <2> SUFFICES ASSUME Init PROVE TrainedInv
    OBVIOUS
  <2>1. trainedBackground.run = 0 /\ roi.run = 0 /\ run = 0
    BY DEF Init
  <2>. QED
    BY <2>1 DEF TrainedInv
<1>2. IndInv /\ TrainedInv => TouchReadsWholeTraining
  BY DEF IndInv, SwitchInv, TrainedInv, TouchReadsWholeTraining
<1>. QED
  BY <1>1, <1>2, TrainedStep, SpecIndInv, PTL DEF Spec

\* The matrices processTouch reads do not change while touch is on.
THEOREM TouchIsUndisturbed == Spec => TouchFreezesCalibration
<1>1. ASSUME IndInv, [Next]_vars, isTouchInProgress, uiPc # "clearTouch"
      PROVE  UNCHANGED <<roi, trainedBackground>>
  <2>1. CASE CalibrateFrame
    BY <1>1, <2>1
    DEF IndInv, SwitchInv, CalibrateFrame, InCalibration, calVars
  <2>2. CASE ~CalibrateFrame
    BY <1>1, <2>2
    DEF Next, StartCalibration, StopCalibration, StartTouch, StopTouch,
        UiSecondHalf, ClearTouch, SetTouch, ProcStep, BeginFrame, ProcessTouch,
        vars, calVars
  <2>. QED
    BY <2>1, <2>2
<1>2. IndInv /\ [Next]_vars =>
        [isTouchInProgress /\ uiPc # "clearTouch"
           => UNCHANGED <<roi, trainedBackground>>]_vars
  BY <1>1
<1>. QED
  BY <1>2, SpecIndInv, PTL DEF Spec, TouchFreezesCalibration

\* The region of interest is only taken from a steady rectangle.
THEOREM RoiSteadiness == Spec => RoiIsSteady
<1>1. ASSUME IndInv, [Next]_vars, roi' # roi
      PROVE  roi'.run = run /\ steady' >= UnstableFrames + StableFrames + 2
  <2>1. CalibrateFrame
    BY <1>1
    DEF Next, StartCalibration, StopCalibration, StartTouch, StopTouch,
        UiSecondHalf, ClearTouch, SetTouch, ProcStep, BeginFrame, ProcessTouch,
        vars, calVars
  <2>2. InCalibration /\ AdoptsRoi /\ rect # NoRect
    BY <1>1, <2>1 DEF CalibrateFrame, calVars, AdoptsRoi, AfterRect
  <2>3. steady' = NextSteady /\ roi' = [run |-> run, pos |-> rect]
    BY <2>1, <2>2 DEF CalibrateFrame, NextSteady
  <2>. QED
    BY <1>1, <2>2, <2>3, AfterRectFacts
<1>2. IndInv /\ [Next]_vars =>
        [roi' # roi => /\ roi'.run = run
                       /\ steady' >= UnstableFrames + StableFrames + 2]_vars
  BY <1>1
<1>. QED
  BY <1>2, SpecIndInv, PTL DEF Spec, RoiIsSteady

\* A trained background is of the calibration that set the roi, and sums up at
\* least as many frames as it is divided by.
THEOREM BackgroundAndRoi == Spec => BackgroundMatchesRoi
<1>1. ASSUME IndInv, [Next]_vars, trainedBackground' # trainedBackground
      PROVE  /\ trainedBackground'.run = run /\ roi.run = run
             /\ trainedBackground'.divisor > 0
             /\ trainedBackground'.frames >= trainedBackground'.divisor
  <2>1. CalibrateFrame
    BY <1>1
    DEF Next, StartCalibration, StopCalibration, StartTouch, StopTouch,
        UiSecondHalf, ClearTouch, SetTouch, ProcStep, BeginFrame, ProcessTouch,
        vars, calVars
  <2>2. InCalibration /\ Train(AfterRect)
    BY <1>1, <2>1 DEF CalibrateFrame, calVars
  <2>3. /\ AfterRect.state = "BACKGROUND_TRAINING"
        /\ ~(AfterRect.count < TrainFrames)
        /\ trainedBackground' = [run |-> background.run,
                                 frames |-> background.frames,
                                 clean |-> background.clean,
                                 divisor |-> AfterRect.count]
    BY <1>1, <2>2 DEF Train
  <2>4. background.run = run
    BY <1>1, <2>2 DEF IndInv, RunInv, InCalibration
  <2>. QED
    BY <1>1, <2>2, <2>3, <2>4, AfterRectFacts, CalibrationAssumption
<1>2. IndInv /\ [Next]_vars =>
        [trainedBackground' # trainedBackground =>
           /\ trainedBackground'.run = run /\ roi.run = run
           /\ trainedBackground'.divisor > 0
           /\ trainedBackground'.frames >= trainedBackground'.divisor]_vars
  BY <1>1
<1>. QED
  BY <1>2, SpecIndInv, PTL DEF Spec, BackgroundMatchesRoi
=============================================================================
