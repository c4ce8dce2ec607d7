------------------------------ MODULE MCKinect ------------------------------
(***************************************************************************)
(* libfreenect besides the streams, and the application around it,         *)
(* explored side by side: opening and closing the Kinect, commands to the  *)
(* camera, the conversion of frames, the preview and the life cycle of the *)
(* application.  A behaviour is one of one part, chosen at the beginning.  *)
(***************************************************************************)
EXTENDS Integers, Sequences, FiniteSets

CONSTANTS
  Indices, K4W, MaxDevs, Retries, MaxStrays,
  Flags, VideoModes, DepthModes, Registered, IsK4W, TagModulus, MaxCalls, MaxFaults,
  Bytes, PackedFrames, BayerFrames, DepthFrames, Width, Height, MaxMetric, Scale,
  Distortions, Shifts,
  MaxFrame,
  MaxDrivers

\* What the bounds and sizes are, for the proofs
ASSUME BoundsAssumption ==
  /\ MaxFrame \in Nat /\ MaxDrivers \in Nat /\ MaxDevs \in Nat /\ Retries \in Nat
  /\ MaxStrays \in Nat
ASSUME CommandsAssumption ==
  /\ TagModulus \in Nat \ {0, 1} /\ MaxCalls \in Nat /\ MaxFaults \in Nat
  /\ "11bit" \in DepthModes /\ "rgb" \in VideoModes
  /\ "none" \notin DepthModes \cup VideoModes
ASSUME IndicesAssumption ==
  IsFiniteSet(Indices) /\ Indices = 0..(Cardinality(Indices) - 1)

\* A pixel that leaves the picture is not shifted back into it.
ASSUME PicturesAssumption ==
  /\ Width \in Nat /\ Width >= 2 /\ Height \in Nat /\ Height >= 2
  /\ MaxMetric \in Nat \ {0} /\ Scale \in Nat \ {0}
  /\ Shifts \subseteq Int /\ \A s \in Shifts : s <= Width * Scale
ASSUME FramesAssumption ==
  LET pixels == (0..(Width - 1)) \X (0..(Height - 1)) IN
  /\ Bytes \subseteq 0..255 /\ PackedFrames \subseteq [1..11 -> Bytes]
  /\ BayerFrames \subseteq [pixels -> Bytes] /\ DepthFrames \subseteq [pixels -> Nat]
  /\ Distortions \subseteq [pixels -> Int \X Int]

VARIABLES
  part,
  context, enabled, devices, handles, open, strays, bare, m_devices, phase, cur, index,
  missing, tries, made,
  tag, answers, cmos, near, streaming, api, todo, waiting, ready, mode, started, running,
  tables, before, unread, calls, faults,
  kind, in, out,
  surfaceExist, state, stopThread, frameReady, frameBuffer, ui, targets, worker, hasFrame,
  bitmap, shown, handler, sent,
  binding, mBound, status, driver, drivers, plugged, created, injector, touched

Devices == INSTANCE FreenectDevices
Commands == INSTANCE CameraCommands
Conversion == INSTANCE FrameConversion
Preview == INSTANCE KinectPreview
App == INSTANCE AppLifecycle

devsVars == <<context, enabled, devices, handles, open, strays, bare, m_devices, phase, cur,
              index, missing, tries, made>>
cmdVars == <<tag, answers, cmos, near, streaming, api, todo, waiting, ready, mode, started,
             running, tables, before, unread, calls, faults>>
convVars == <<kind, in, out>>
viewVars == <<surfaceExist, state, stopThread, frameReady, frameBuffer, ui, targets, worker,
              hasFrame, bitmap, shown, handler, sent>>
appVars == <<binding, mBound, status, driver, drivers, plugged, created, injector, touched>>
all == <<part, devsVars, cmdVars, convVars, viewVars, appVars>>

Init ==
  /\ part \in {"devices", "commands", "conversion", "preview", "app"}
  /\ Devices!Init /\ Commands!Init /\ Conversion!Init /\ Preview!Init /\ App!Init

ByDevices(A) ==
  part = "devices" /\ A /\ UNCHANGED <<part, cmdVars, convVars, viewVars, appVars>>
ByCommands(A) ==
  part = "commands" /\ A /\ UNCHANGED <<part, devsVars, convVars, viewVars, appVars>>
ByConversion(A) ==
  part = "conversion" /\ A /\ UNCHANGED <<part, devsVars, cmdVars, viewVars, appVars>>
ByPreview(A) ==
  part = "preview" /\ A /\ UNCHANGED <<part, devsVars, cmdVars, convVars, appVars>>
ByApp(A) ==
  part = "app" /\ A /\ UNCHANGED <<part, devsVars, cmdVars, convVars, viewVars>>

Next ==
  \/ ByDevices(Devices!Next) \/ ByCommands(Commands!Next) \/ ByConversion(Conversion!Next)
  \/ ByPreview(Preview!Next) \/ ByApp(App!Next)

\* The scheduler runs every thread of the preview that can run.
Fairness ==
  /\ WF_all(ByPreview(Preview!WorkerStep)) /\ WF_all(ByPreview(Preview!UiStep))
  /\ WF_all(ByPreview(Preview!EndFrame))

Steps == Init /\ [][Next]_all
Spec == Steps /\ Fairness

-----------------------------------------------------------------------------
(* The properties of the parts, which their modules explain, each with the *)
(* type invariant of its part.                                             *)

\* Whatever fails while a Kinect is opened, a libusb handle is known to its device, or is
\* one of those that the search for an audio device leaks.
HandlesBalanced == part = "devices" => Devices!TypeOK /\ Devices!HandlesBalanced

\* A running stream has the buffers and tables of its mode, and setting one flag of the
\* camera leaves the others alone, also after answers were left unread.
CommandsFit ==
  part = "commands" =>
    Commands!TypeOK /\ Commands!StreamsFitMode /\ Commands!FlagsIndependent

\* Frames are unpacked, coloured and registered as their layouts say.
FramesConverted ==
  part = "conversion" =>
    Conversion!UnpackedExactly /\ Conversion!ColoursInterpolated /\ Conversion!NearestIsVisible

\* The preview worker runs exactly while there is a surface, and misses no wakeup.
WorkerMatchesSurface ==
  part = "preview" =>
    Preview!TypeOK /\ Preview!WorkerMatchesSurface /\ Preview!NoLostWakeup

\* However often the activity is bound, one driver streams.
OneDriverStreams == part = "app" => App!TypeOK /\ App!OneDriverStreams

\* The UI thread gets its worker back, and the last frame is shown.
PreviewFollows == Preview!StopEnds /\ Preview!LastFrameIsShown

-----------------------------------------------------------------------------
(* The frames that TLC converts.                                           *)

Places == (0..(Width - 1)) \X (0..(Height - 1))

\* One byte, or one pixel, differs from the others.
MCPackedFrames == {[k \in 1..11 |-> IF k = j THEN b ELSE c] : j \in 1..11, b, c \in Bytes}
MCBayerFrames ==
  {[q \in Places |-> IF q = s THEN b ELSE c] :
     s \in Places, b, c \in Bytes}
\* There are two depths.
MCDepthFrames ==
  {[q \in Places |-> IF q \in S THEN a ELSE b] :
     S \in SUBSET Places, a, b \in {0, 1, 2, MaxMetric + 1}}
\* One pixel is moved.
MCDistortions ==
  {[q \in Places |-> IF q = s THEN <<x, y>> ELSE <<0, 0>>] :
     s \in Places, x, y \in {0, 1}}
=============================================================================
