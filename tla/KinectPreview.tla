--------------------------- MODULE KinectPreview ----------------------------
(***************************************************************************)
(* The preview of the video stream (KinectPreview.java).  Three threads    *)
(* meet in it: the UI thread runs the surface callbacks, which start and   *)
(* stop a worker; the detector's processing thread hands frames over in    *)
(* videoDataHandler; the worker draws them.  frameReady and frameBuffer    *)
(* are guarded by the monitor of the view, which only videoDataHandler     *)
(* holds for more than one step here; stopThread is written without it.    *)
(* syncObject is only ever taken by the UI thread.  A frame is its number, *)
(* and the buffer two halves, so that a half-written frame can be seen.    *)
(***************************************************************************)
EXTENDS Naturals, Sequences

CONSTANT MaxFrame   \* bound on the frames the detector delivers

VARIABLES
  surfaceExist, state, stopThread, frameReady,  \* fields of KinectPreview
  frameBuffer,   \* <<first half, second half>>, frame numbers
  ui, targets,   \* where the UI thread is; surfaceExist values yet to be set
  worker,        \* where the worker is; "none" if thread = null
  hasFrame,      \* KinectFrameWorker.run: hasFrame
  bitmap,        \* what drawFrame has read of the buffer
  shown,         \* what was last posted to the surface
  handler, sent  \* videoDataHandler in progress; number of the last frame

vars == <<surfaceExist, state, stopThread, frameReady, frameBuffer, ui, targets,
          worker, hasFrame, bitmap, shown, handler, sent>>
uiVars == <<surfaceExist, state, ui, targets>>
workerVars == <<hasFrame, bitmap, shown>>
frameVars == <<frameBuffer, handler, sent>>

Frames == 0..MaxFrame
Halves == Frames \X Frames

Init ==
  /\ surfaceExist = FALSE /\ state = "STOPPED" /\ stopThread = FALSE
  /\ frameReady = FALSE /\ frameBuffer = <<0, 0>>
  /\ ui = "idle" /\ targets = <<>>
  /\ worker = "none" /\ hasFrame = FALSE
  /\ bitmap = <<0, 0>> /\ shown = <<0, 0>>
  /\ handler = FALSE /\ sent = 0

\* Nobody is inside synchronized (this).
MonitorFree == ~handler

-----------------------------------------------------------------------------
(* The UI thread.                                                          *)

\* A new surface, or a changed one, for which the old one is first said to be
\* destroyed
SurfaceChanged ==
  /\ ui = "idle"
  /\ targets' = IF surfaceExist THEN <<FALSE, TRUE>> ELSE <<TRUE>>
  /\ ui' = "check"
  /\ UNCHANGED <<surfaceExist, state, stopThread, frameReady, worker,
                 workerVars, frameVars>>

SurfaceDestroyed ==
  /\ ui = "idle"
  /\ targets' = <<FALSE>> /\ ui' = "check"
  /\ UNCHANGED <<surfaceExist, state, stopThread, frameReady, worker,
                 workerVars, frameVars>>

\* What checkCurrentState was called for is done.
Next1 == /\ targets' = Tail(targets)
         /\ ui' = IF Len(targets) = 1 THEN "idle" ELSE "check"

TargetState(exists) == IF exists THEN "STARTED" ELSE "STOPPED"

\* Mutant: the flag of the last worker is still set.
StillStopping == stopThread
\* startWorker: stopThread = false
ClearStop == FALSE

\* checkCurrentState: nothing to do, or startWorker, or the first half of
\* stopWorker.  The view is always VISIBLE.
CheckCurrentState ==
  /\ ui = "check"
  /\ surfaceExist' = Head(targets)
  /\ LET target == TargetState(Head(targets)) IN
     \/ /\ target = state
        /\ Next1
        /\ UNCHANGED <<state, stopThread, worker>>
     \/ /\ target = "STARTED" /\ state = "STOPPED"
        /\ state' = "STARTED" /\ stopThread' = ClearStop /\ worker' = "top"
        /\ Next1
     \/ /\ target = "STOPPED" /\ state = "STARTED"
        /\ stopThread' = TRUE /\ ui' = "notify"
        /\ UNCHANGED <<state, targets, worker>>
  /\ UNCHANGED <<frameReady, workerVars, frameVars>>

\* Object.notify: a waiting worker has to get the monitor back.
Notify == worker' = IF worker = "waiting" THEN "top" ELSE worker

\* Mutant: the flag alone is thought to be enough.
NoNotify == UNCHANGED worker
\* stopWorker: synchronized (this) { this.notify(); }
WakeForStop == Notify

StopNotify ==
  /\ ui = "notify" /\ MonitorFree
  /\ WakeForStop /\ ui' = "join"
  /\ UNCHANGED <<surfaceExist, state, targets, stopThread, frameReady,
                 workerVars, frameVars>>

\* thread.join() returns.
Join ==
  /\ ui = "join" /\ worker = "done"
  /\ ui' = "joined" /\ worker' = "none"
  /\ UNCHANGED <<surfaceExist, state, targets, stopThread, frameReady,
                 workerVars, frameVars>>

\* The end of stopWorker, without the monitor, and the rest of
\* checkCurrentState
Stopped ==
  /\ ui = "joined"
  /\ frameReady' = FALSE /\ state' = "STOPPED"
  /\ Next1
  /\ UNCHANGED <<surfaceExist, stopThread, worker, workerVars, frameVars>>

-----------------------------------------------------------------------------
(* The detector's thread: videoDataHandler.                                *)

BeginFrame ==
  /\ MonitorFree /\ sent < MaxFrame
  /\ handler' = TRUE /\ sent' = sent + 1
  /\ frameBuffer' = [frameBuffer EXCEPT ![1] = sent + 1]
  /\ UNCHANGED <<uiVars, stopThread, frameReady, worker, workerVars>>

\* this.notify()
NotifyFrame == Notify

EndFrame ==
  /\ handler
  /\ handler' = FALSE
  /\ frameBuffer' = [frameBuffer EXCEPT ![2] = sent]
  /\ frameReady' = TRUE
  /\ NotifyFrame
  /\ UNCHANGED <<uiVars, stopThread, workerVars, sent>>

-----------------------------------------------------------------------------
(* The worker: KinectFrameWorker.run and drawFrame.                        *)

\* synchronized (KinectPreview.this) { ... }
WorkerEnter ==
  /\ worker = "top" /\ MonitorFree
  /\ IF ~frameReady /\ ~stopThread
       THEN worker' = "waiting" /\ UNCHANGED <<hasFrame, frameReady>>
       ELSE /\ worker' = "test" /\ hasFrame' = frameReady
            /\ frameReady' = FALSE
  /\ UNCHANGED <<uiVars, stopThread, bitmap, shown, frameVars>>

\* Object.wait may return without a notify.
SpuriousWakeup ==
  /\ worker = "waiting"
  /\ worker' = "top"
  /\ UNCHANGED <<uiVars, stopThread, frameReady, workerVars, frameVars>>

\* if (!stopThread && hasFrame); lockCanvas gives null once the surface goes.
WorkerTest ==
  /\ worker = "test"
  /\ \/ worker' = IF ~stopThread /\ hasFrame THEN "read1" ELSE "loop"
     \/ ~stopThread /\ hasFrame /\ ui # "idle" /\ worker' = "loop"
  /\ UNCHANGED <<uiVars, stopThread, frameReady, workerVars, frameVars>>

\* intBuf.get(frameBufferIntArray), outside the monitor
DrawFrameRead(k) ==
  /\ worker = <<"read1", "read2">>[k]
  /\ worker' = <<"read2", "post">>[k]
  /\ bitmap' = [bitmap EXCEPT ![k] = frameBuffer[k]]
  /\ UNCHANGED <<uiVars, stopThread, frameReady, hasFrame, shown, frameVars>>

\* unlockCanvasAndPost
DrawFramePost ==
  /\ worker = "post"
  /\ shown' = bitmap /\ worker' = "loop"
  /\ UNCHANGED <<uiVars, stopThread, frameReady, hasFrame, bitmap, frameVars>>

\* while (!stopThread)
WorkerLoop ==
  /\ worker = "loop"
  /\ worker' = IF stopThread THEN "done" ELSE "top"
  /\ UNCHANGED <<uiVars, stopThread, frameReady, workerVars, frameVars>>

WorkerStep ==
  \/ WorkerEnter \/ WorkerTest \/ DrawFramePost \/ WorkerLoop
  \/ \E k \in {1, 2} : DrawFrameRead(k)

UiStep == CheckCurrentState \/ StopNotify \/ Join \/ Stopped

Next ==
  \/ SurfaceChanged \/ SurfaceDestroyed \/ UiStep
  \/ BeginFrame \/ EndFrame
  \/ WorkerStep \/ SpuriousWakeup

Spec == Init /\ [][Next]_vars

\* The scheduler runs every thread that can run.
FairSpec == Spec /\ WF_vars(WorkerStep) /\ WF_vars(UiStep) /\ WF_vars(EndFrame)

-----------------------------------------------------------------------------
(* Properties.                                                             *)

TargetsOK ==
  /\ targets \in {<<>>, <<TRUE>>, <<FALSE>>, <<FALSE, TRUE>>}
  /\ targets = <<>> <=> ui = "idle"

TypeOK ==
  /\ surfaceExist \in BOOLEAN /\ stopThread \in BOOLEAN
  /\ frameReady \in BOOLEAN /\ hasFrame \in BOOLEAN /\ handler \in BOOLEAN
  /\ state \in {"STOPPED", "STARTED"}
  /\ frameBuffer \in Halves /\ bitmap \in Halves /\ shown \in Halves
  /\ ui \in {"idle", "check", "notify", "join", "joined"}
  /\ TargetsOK
  /\ worker \in {"none", "top", "waiting", "test", "read1", "read2", "post",
                 "loop", "done"}
  /\ sent \in Frames

\* Between callbacks a worker runs, and has not been told to stop, exactly when
\* there is a surface; a worker never ends by itself and never outlives the
\* stopWorker that stops it (checkCurrentState, KinectPreview.java:99).
WorkerMatchesSurface ==
  /\ ui = "idle" => ((worker # "none" /\ ~stopThread) <=> surfaceExist)
  /\ worker = "done" => ui \in {"notify", "join"}
  /\ ui \in {"idle", "check"} => ((worker # "none") <=> (state = "STARTED"))

\* The worker never sleeps while a frame is ready or while it has been told to
\* stop, except before the notify that is still to come (KinectPreview.java:151).
NoLostWakeup ==
  worker = "waiting" => ~frameReady /\ (stopThread => ui = "notify")

\* stopWorker returns: thread.join in the UI thread does not wait for ever,
\* whatever the worker and the detector are doing.
StopEnds == ui = "notify" ~> ui = "joined"

\* A frame that is ready for a worker is shown whole in the end, even if it was
\* copied while the worker was drawing, unless another one or a surface callback
\* comes after it (KinectPreview.java:196, "ready to be displayed").
LastFrameIsShown ==
  (frameReady /\ worker # "none")
    ~> (shown = <<sent, sent>> \/ handler \/ ui # "idle")

-----------------------------------------------------------------------------
(* The inductive invariant behind the safety properties.                   *)

\* Which worker there is in each step of the UI thread: a worker that was told to stop
\* is one that stopWorker is waiting for.
UiInv ==
  /\ ui = "idle" => (state = "STARTED" <=> surfaceExist)
  /\ ui \in {"idle", "check"} => (worker # "none" => ~stopThread)
  /\ ui \in {"notify", "join"} => worker # "none" /\ stopThread
  /\ ui = "joined" => worker = "none"
  /\ ui \in {"notify", "join", "joined"} =>
       state = "STARTED" /\ ~surfaceExist /\ ~Head(targets)
  /\ worker = "done" => stopThread

IndInv == TypeOK /\ WorkerMatchesSurface /\ NoLostWakeup /\ UiInv
=============================================================================
