---------------------------- MODULE FramePipeline ----------------------------
(***************************************************************************)
(* The frame path of one detector session, from initDetector after the     *)
(* device was opened to the end of cleanupEnv (stouchJNI.cpp), with its    *)
(* three threads:                                                          *)
(*   main  - the Android UI thread, running initDetector and cleanupEnv;   *)
(*   event - whoever handles libusb events: the freenect thread            *)
(*           (libfreenect.hpp operator()) or, while a stream is being      *)
(*           started or stopped, the UI thread itself, because every       *)
(*           control transfer and fnusb_stop_iso handle events;            *)
(*   proc  - STouchDetector::processData.                                  *)
(* Each stream has the three vectors Back, Mid and Front of the detector.  *)
(* A vector's storage is a member of Bufs; swapping vectors swaps storage, *)
(* assigning one frees the old storage.  A frame is the number the driver  *)
(* gave it, and content says which frame a storage holds.                  *)
(***************************************************************************)
EXTENDS Naturals, FiniteSets

CONSTANTS Bufs,      \* storage blocks the allocator can hand to a vector
          LibBuf,    \* packet_stream.lib_buf, the driver's own buffer
          NoBuf,     \* packet_stream.proc_buf = NULL
          Torn,      \* content of a buffer the driver is converting into
          MaxFrame   \* bound: frames the camera delivers per stream

Streams == {"depth", "video"}

\* One block beyond the three vectors: vector(begin, end) allocates the copy
\* before the assignment frees the old block.
ASSUME BufsAssumption ==
  /\ IsFiniteSet(Bufs)
  /\ Cardinality(Bufs) >= 4
  /\ LibBuf \notin Bufs /\ NoBuf \notin Bufs /\ NoBuf # LibBuf
ASSUME FrameAssumption == MaxFrame \in Nat /\ Torn \notin Nat

VARIABLES
  back, mid, front,  \* [Streams -> Bufs]: xxxBack, xxxMid, xxxFront
  procBuf,           \* [Streams -> ...]: packet_stream.proc_buf
  running,           \* [Streams -> BOOLEAN]: packet_stream.running
  content,           \* [Streams -> [storage -> frame]]
  produced,          \* [Streams -> Nat]: last frame the driver converted
  got,               \* [Streams -> Nat]: gotDepth, gotVideo
  mutex,             \* owner of backBufMutex
  evPc, evStream,    \* event handling, and the stream it is handling
  ref,               \* refDepth / refVideo, the callback's private copy
  procPc,            \* processData
  taken,             \* [Streams -> Nat]: frames copyBuffers took
  localGot,          \* [Streams -> Nat]: processData's locals
  isTouchInProgress,
  shown,             \* video frame last handed to the Java preview
  rgb,               \* video frame the rgb matrix shows
  framesCounter, fps, \* measureTime
  reported,          \* history: frames already published through fps
  mainPc,            \* initDetector / cleanupEnv
  evThread,          \* the freenect thread
  stop,              \* Freenect::m_stop
  die,               \* processDataThreadDie
  deviceAlive        \* the STouchFreenectDevice object exists

bufVars  == <<back, mid, front, procBuf, content>>
evVars   == <<evPc, evStream, ref, produced>>
procVars == <<procPc, taken, localGot, shown, rgb, framesCounter, fps, reported>>
mainVars == <<mainPc, evThread, stop, die, deviceAlive, running>>
vars == <<bufVars, evVars, procVars, mainVars, got, mutex, isTouchInProgress>>

EvInCs   == {"swap", "setbuf", "copy", "signal"}
EvPcs    == {"top", "poll", "write", "lock", "exit"} \cup EvInCs
ProcBusy == {"process", "map", "convert", "measure"}
ProcInCs == {"check", "copy"}
ProcPcs  == {"none", "top", "lock", "waiting", "woken", "exit"}
              \cup ProcInCs \cup ProcBusy
MainPcs  == {"new", "depthStarted", "videoStarted", "driverStarted", "running",
             "joinEvent", "teardown", "deviceClosed", "joinProc", "done",
             "aborted"}

-----------------------------------------------------------------------------
\* STouchDetector() reserves three vectors per stream; the driver starts with
\* usr_buf NULL, so stream_init will make proc_buf the driver's lib_buf.
\* (content is per stream, so the two streams may use the same block names.)
Init ==
  /\ \E b, m, f \in Bufs :
       /\ b # m /\ b # f /\ m # f
       /\ back = [s \in Streams |-> b]
       /\ mid = [s \in Streams |-> m]
       /\ front = [s \in Streams |-> f]
  /\ procBuf = [s \in Streams |-> NoBuf]
  /\ running = [s \in Streams |-> FALSE]
  /\ content = [s \in Streams |-> [b \in Bufs \cup {LibBuf} |-> 0]]
  /\ produced = [s \in Streams |-> 0]
  /\ got = [s \in Streams |-> 0]
  /\ mutex = "free"
  /\ evPc = "poll" /\ evStream = "depth" /\ ref = 0
  /\ procPc = "none"
  /\ taken = [s \in Streams |-> 0]
  /\ localGot = [s \in Streams |-> 0]
  /\ isTouchInProgress = FALSE
  /\ shown = 0 /\ rgb = 0 /\ framesCounter = 0 /\ fps = 0 /\ reported = 0
  /\ mainPc = "new" /\ evThread = "none"
  /\ stop = FALSE /\ die = FALSE /\ deviceAlive = TRUE

-----------------------------------------------------------------------------
(* The UI thread: initDetector, the touch switch, cleanupEnv.              *)

StartStream(s, from, to) ==
  /\ mainPc = from /\ evPc = "poll"
  /\ mainPc' = to
  /\ running' = [running EXCEPT ![s] = TRUE]
  /\ procBuf' = [procBuf EXCEPT ![s] = LibBuf]
  /\ UNCHANGED <<back, mid, front, content, evVars, procVars, evThread, stop,
                 die, deviceAlive, got, mutex, isTouchInProgress>>

StartDepth == StartStream("depth", "new", "depthStarted")
StartVideo == StartStream("video", "depthStarted", "videoStarted")

\* Freenect::start
StartDriverThread ==
  /\ mainPc = "videoStarted"
  /\ mainPc' = "driverStarted"
  /\ evThread' = "loop" /\ evPc' = "top"
  /\ UNCHANGED <<bufVars, evStream, ref, produced, procVars, stop, die,
                 deviceAlive, running, got, mutex, isTouchInProgress>>

\* STouchDetector::start
StartDetector ==
  /\ mainPc = "driverStarted"
  /\ mainPc' = "running" /\ procPc' = "top"
  /\ UNCHANGED <<bufVars, evVars, taken, localGot, shown, rgb, framesCounter,
                 fps, reported, evThread, stop, die, deviceAlive, running, got,
                 mutex, isTouchInProgress>>

SetTouchInProgress(b) ==
  /\ mainPc = "running"
  /\ isTouchInProgress' = b
  /\ UNCHANGED <<bufVars, evVars, procVars, mainVars, got, mutex>>

\* cleanupEnv: delete freenectDriver begins in ~Freenect
StopDriver ==
  /\ mainPc = "running"
  /\ mainPc' = "joinEvent" /\ stop' = TRUE
  /\ UNCHANGED <<bufVars, evVars, procVars, evThread, die, deviceAlive,
                 running, got, mutex, isTouchInProgress>>

\* pthread_join returned; freenect_camera_teardown stops the depth stream and
\* returns, leaving the video stream running while it handles events.
JoinEventThread ==
  /\ mainPc = "joinEvent" /\ evThread = "exited"
  /\ mainPc' = "teardown" /\ evPc' = "poll"
  /\ running' = [running EXCEPT !["depth"] = FALSE]
  /\ procBuf' = [procBuf EXCEPT !["depth"] = NoBuf]
  /\ UNCHANGED <<back, mid, front, content, evStream, ref, produced, procVars,
                 evThread, stop, die, deviceAlive, got, mutex,
                 isTouchInProgress>>

CloseDevice ==
  /\ mainPc = "teardown" /\ evPc = "poll"
  /\ mainPc' = "deviceClosed" /\ deviceAlive' = FALSE
  /\ UNCHANGED <<bufVars, evVars, procVars, evThread, stop, die, running, got,
                 mutex, isTouchInProgress>>

\* ~STouchDetector sets the flag; it does not signal frameCond.
DestroyDetector ==
  /\ mainPc = "deviceClosed"
  /\ mainPc' = "joinProc" /\ die' = TRUE
  /\ UNCHANGED <<bufVars, evVars, procVars, evThread, stop, deviceAlive,
                 running, got, mutex, isTouchInProgress>>

JoinProc ==
  /\ mainPc = "joinProc" /\ procPc = "exit"
  /\ mainPc' = "done"
  /\ UNCHANGED <<bufVars, evVars, procVars, evThread, stop, die, deviceAlive,
                 running, got, mutex, isTouchInProgress>>

-----------------------------------------------------------------------------
(* Event handling: depth_process / video_process, the C++ callbacks and    *)
(* STouchDetector::processDepth / processVideo.                            *)

\* Someone handles libusb's events: the event thread, or the UI thread while it starts
\* the video stream or closes the device.
Pumping == mainPc \in {"depthStarted", "teardown"} \/ evThread = "loop"

\* Freenect::operator()
EvLoopTop ==
  /\ evThread = "loop" /\ evPc = "top"
  /\ IF stop THEN evPc' = "exit" /\ evThread' = "exited"
             ELSE evPc' = "poll" /\ UNCHANGED evThread
  /\ UNCHANGED <<bufVars, evStream, ref, produced, procVars, mainPc, stop, die,
                 deviceAlive, running, got, mutex, isTouchInProgress>>

\* freenect_process_events returned, with a device that is there: what it does about one
\* that was unplugged is in IsoTransfers.
EvReturn ==
  /\ evThread = "loop" /\ evPc = "poll"
  /\ evPc' = "top"
  /\ UNCHANGED <<bufVars, evStream, ref, produced, procVars, mainVars, got,
                 mutex, isTouchInProgress>>

\* stream_process completed a frame: the conversion into proc_buf begins.
EvFrame(s) ==
  /\ Pumping /\ evPc = "poll" /\ running[s]
  /\ produced[s] < MaxFrame
  /\ evPc' = "write" /\ evStream' = s
  /\ content' = [content EXCEPT ![s][procBuf[s]] = Torn]
  /\ UNCHANGED <<back, mid, front, procBuf, ref, produced, procVars, mainVars,
                 got, mutex, isTouchInProgress>>

\* The conversion ends; the C++ callback copies proc_buf to a new vector.
EvConverted ==
  /\ evPc = "write" /\ mainPc # "teardown"
  /\ LET s == evStream
         n == produced[s] + 1
     IN /\ content' = [content EXCEPT ![s][procBuf[s]] = n]
        /\ produced' = [produced EXCEPT ![s] = n]
        /\ ref' = n
  /\ evPc' = "lock"
  /\ UNCHANGED <<back, mid, front, procBuf, evStream, procVars, mainVars, got,
                 mutex, isTouchInProgress>>

\* In ~FreenectDevice the object is no STouchFreenectDevice any more: the callback of a
\* frame is the pure virtual one, and the process is aborted on the UI thread.
PureVirtualCallback ==
  /\ evPc = "write" /\ mainPc = "teardown"
  /\ mainPc' = "aborted" /\ evPc' = "exit"
  /\ UNCHANGED <<bufVars, evStream, ref, produced, procVars, evThread, stop, die,
                 deviceAlive, running, got, mutex, isTouchInProgress>>

EvLock ==
  /\ evPc = "lock" /\ mutex = "free"
  /\ mutex' = "event" /\ evPc' = "swap"
  /\ UNCHANGED <<bufVars, evStream, ref, produced, procVars, mainVars, got,
                 isTouchInProgress>>

EvSwap ==
  /\ evPc = "swap"
  /\ LET s == evStream
     IN /\ back' = [back EXCEPT ![s] = mid[s]]
        /\ mid'  = [mid EXCEPT ![s] = back[s]]
  /\ evPc' = "setbuf"
  /\ UNCHANGED <<front, procBuf, content, evStream, ref, produced, procVars,
                 mainVars, got, mutex, isTouchInProgress>>

\* Mutant: the wrong vector of the swap is handed to the driver.
SetBufMid(s) == mid[s]
\* stream_setbuf with the vector's storage: a running stream redirects
\* proc_buf at once, a stopped one only notes the buffer for its next start.
StreamSetBuf(s) == IF running[s] THEN back[s] ELSE procBuf[s]

EvSetBuf ==
  /\ evPc = "setbuf"
  /\ procBuf' = [procBuf EXCEPT ![evStream] = StreamSetBuf(evStream)]
  /\ evPc' = "copy"
  /\ UNCHANGED <<back, mid, front, content, evStream, ref, produced, procVars,
                 mainVars, got, mutex, isTouchInProgress>>

\* Mutant: the frame is copied into the vector that is being read.
CopyIntoFront ==
  /\ evPc = "copy" /\ evPc' = "signal"
  /\ content' = [content EXCEPT ![evStream][front[evStream]] = ref]
  /\ UNCHANGED <<back, mid, front, procBuf, evStream, ref, produced, procVars,
                 mainVars, got, mutex, isTouchInProgress>>
\* xxxMid = vector(begin, end): new storage, the old one is freed.
EvCopy ==
  /\ evPc = "copy"
  /\ LET s == evStream
     IN \E b \in Bufs \ {back[s], mid[s], front[s]} :
          /\ mid' = [mid EXCEPT ![s] = b]
          /\ content' = [content EXCEPT ![s][b] = ref]
  /\ evPc' = "signal"
  /\ UNCHANGED <<back, front, procBuf, evStream, ref, produced, procVars,
                 mainVars, got, mutex, isTouchInProgress>>

\* Mutants: the signal is sent for depth frames only; a frame that arrives
\* before the last one was taken is not counted.
SignalDepthOnly(pc) == IF pc = "waiting" /\ evStream = "depth" THEN "woken" ELSE pc
CountOnce(n) == 1
\* pthread_cond_signal(&frameCond)
SignalFrameCond(pc) == IF pc = "waiting" THEN "woken" ELSE pc
\* gotDepth++, gotVideo++
CountFrame(n) == n + 1

\* The rest of the critical section, and the unlock.
EvSignal ==
  /\ evPc = "signal"
  /\ got' = [got EXCEPT ![evStream] = CountFrame(@)]
  /\ procPc' = SignalFrameCond(procPc)
  /\ mutex' = "free" /\ evPc' = "poll"
  /\ UNCHANGED <<bufVars, evStream, ref, produced, taken, localGot, shown, rgb,
                 framesCounter, fps, reported, mainVars, isTouchInProgress>>

-----------------------------------------------------------------------------
(* The processing thread: STouchDetector::processData.                     *)

ProcLoopTop ==
  /\ procPc = "top"
  /\ procPc' = IF die THEN "exit" ELSE "lock"
  /\ UNCHANGED <<bufVars, evVars, taken, localGot, shown, rgb, framesCounter,
                 fps, reported, mainVars, got, mutex, isTouchInProgress>>

ProcLock ==
  /\ procPc \in {"lock", "woken"} /\ mutex = "free"
  /\ mutex' = "proc" /\ procPc' = "check"
  /\ UNCHANGED <<bufVars, evVars, taken, localGot, shown, rgb, framesCounter,
                 fps, reported, mainVars, got, isTouchInProgress>>

\* Mutant: && for ||, so one stream is enough.
NoFrames == \A s \in Streams : got[s] = 0
\* !gotDepth || !gotVideo
FramesMissing == \E s \in Streams : got[s] = 0

\* while (!gotDepth || !gotVideo) pthread_cond_wait
ProcCheck ==
  /\ procPc = "check"
  /\ IF FramesMissing
     THEN procPc' = "waiting" /\ mutex' = "free"
     ELSE procPc' = "copy" /\ UNCHANGED mutex
  /\ UNCHANGED <<bufVars, evVars, taken, localGot, shown, rgb, framesCounter,
                 fps, reported, mainVars, got, isTouchInProgress>>

\* pthread_cond_wait may return without a signal.
ProcSpuriousWakeup ==
  /\ procPc = "waiting"
  /\ procPc' = "woken"
  /\ UNCHANGED <<bufVars, evVars, taken, localGot, shown, rgb, framesCounter,
                 fps, reported, mainVars, got, mutex, isTouchInProgress>>

\* this->gotDepth = 0; this->gotVideo = 0
ClearGot == [s \in Streams |-> IF got[s] > 0 THEN 0 ELSE got[s]]
\* What xxxMid holds after xxxFront.swap(xxxMid)
SwappedMid(s) == IF got[s] > 0 THEN front[s] ELSE mid[s]

\* copyBuffers and the unlock; taken records what the swap put in Front.
CopyBuffers ==
  /\ procPc = "copy"
  /\ localGot' = got
  /\ front' = [s \in Streams |-> IF got[s] > 0 THEN mid[s] ELSE front[s]]
  /\ mid'   = [s \in Streams |-> SwappedMid(s)]
  /\ got'   = ClearGot
  /\ taken' = [s \in Streams |-> content[s][front'[s]]]
  /\ mutex' = "free" /\ procPc' = "process"
  /\ UNCHANGED <<back, procBuf, content, evVars, shown, rgb, framesCounter,
                 fps, reported, mainVars, isTouchInProgress>>

\* processFrame: only the calibration branch calls deviceDelegate.
ProcessFrame ==
  /\ procPc = "process"
  /\ procPc' = IF isTouchInProgress THEN "convert" ELSE "map"
  /\ UNCHANGED <<bufVars, evVars, taken, localGot, shown, rgb, framesCounter,
                 fps, reported, mainVars, got, mutex, isTouchInProgress>>

\* deviceDelegate->mapRGBToDepth(depthFront, rgbFront, refRGB)
MapRGBToDepth ==
  /\ procPc = "map"
  /\ rgb' = content["video"][front["video"]]
  /\ procPc' = "convert"
  /\ UNCHANGED <<bufVars, evVars, taken, localGot, shown, framesCounter, fps,
                 reported, mainVars, got, mutex, isTouchInProgress>>

\* convertToARGB and videoDataFrameReady
ConvertAndPublish ==
  /\ procPc = "convert"
  /\ shown' = rgb
  /\ procPc' = "measure"
  /\ UNCHANGED <<bufVars, evVars, taken, localGot, rgb, framesCounter, fps,
                 reported, mainVars, got, mutex, isTouchInProgress>>

\* measureTime; elapsed says whether a second has passed since the last one.
MeasureTime(elapsed) ==
  /\ procPc = "measure"
  /\ LET total == framesCounter + localGot["depth"] + localGot["video"]
     IN IF elapsed
        THEN fps' = total /\ framesCounter' = 0 /\ reported' = reported + total
        ELSE framesCounter' = total /\ UNCHANGED <<fps, reported>>
  /\ procPc' = "top"
  /\ UNCHANGED <<bufVars, evVars, taken, localGot, shown, rgb, mainVars, got,
                 mutex, isTouchInProgress>>

-----------------------------------------------------------------------------
MainNext ==
  \/ StartDepth \/ StartVideo \/ StartDriverThread \/ StartDetector
  \/ \E b \in BOOLEAN : SetTouchInProgress(b)
  \/ StopDriver \/ JoinEventThread \/ CloseDevice \/ DestroyDetector
  \/ JoinProc

EvInside ==
  \/ EvConverted \/ PureVirtualCallback
  \/ EvLock \/ EvSwap \/ EvSetBuf \/ EvCopy \/ EvSignal

EvNext ==
  \/ EvLoopTop \/ EvReturn \/ EvInside
  \/ \E s \in Streams : EvFrame(s)

ProcStep ==
  \/ ProcLoopTop \/ ProcLock \/ ProcCheck \/ CopyBuffers
  \/ ProcessFrame \/ MapRGBToDepth \/ ConvertAndPublish
  \/ \E e \in BOOLEAN : MeasureTime(e)

Terminated == mainPc \in {"done", "aborted"} /\ UNCHANGED vars

Next == MainNext \/ EvNext \/ ProcStep \/ ProcSpuriousWakeup \/ Terminated

Spec == Init /\ [][Next]_vars

\* Every thread that can run eventually does.  Nothing is assumed of the
\* camera (EvFrame), of the user (StopDriver, SetTouchInProgress) or of
\* spurious wakeups.  A thread blocked on backBufMutex gets it if the mutex is
\* released again and again.
Fairness ==
  /\ WF_vars(StartDepth) /\ WF_vars(StartVideo) /\ WF_vars(StartDriverThread)
  /\ WF_vars(StartDetector) /\ WF_vars(JoinEventThread) /\ WF_vars(CloseDevice)
  /\ WF_vars(DestroyDetector) /\ WF_vars(JoinProc)
  /\ WF_vars(EvLoopTop) /\ WF_vars(EvReturn) /\ WF_vars(EvInside)
  /\ WF_vars(ProcStep)
  /\ SF_vars(EvLock) /\ SF_vars(ProcLock)

FairSpec == Spec /\ Fairness

-----------------------------------------------------------------------------
(* Properties.                                                             *)

Storage == Bufs \cup {LibBuf}

\* Type correctness; a running stream always has a buffer to convert into.
TypeOK ==
  /\ back \in [Streams -> Bufs]
  /\ mid \in [Streams -> Bufs]
  /\ front \in [Streams -> Bufs]
  /\ procBuf \in [Streams -> Storage \cup {NoBuf}]
  /\ running \in [Streams -> BOOLEAN]
  /\ \A s \in Streams : running[s] => procBuf[s] \in Storage
  /\ content \in [Streams -> [Storage -> Nat \cup {Torn}]]
  /\ produced \in [Streams -> Nat]
  /\ got \in [Streams -> Nat]
  /\ mutex \in {"free", "event", "proc"}
  /\ evPc \in EvPcs
  /\ evStream \in Streams
  /\ ref \in Nat
  /\ procPc \in ProcPcs
  /\ taken \in [Streams -> Nat]
  /\ localGot \in [Streams -> Nat]
  /\ isTouchInProgress \in BOOLEAN
  /\ shown \in Nat
  /\ rgb \in Nat
  /\ framesCounter \in Nat
  /\ fps \in Nat
  /\ reported \in Nat
  /\ mainPc \in MainPcs
  /\ evThread \in {"none", "loop", "exited"}
  /\ stop \in BOOLEAN
  /\ die \in BOOLEAN
  /\ deviceAlive \in BOOLEAN

\* While the driver converts a frame into proc_buf, that buffer is neither
\* freed storage nor the one processFrame reads nor the one copyBuffers is
\* about to hand over: swap, setXxxBuffer and the assignment of xxxMid
\* together keep the driver on the Back vector.
DriverWritesPrivately ==
  evPc = "write" =>
    /\ procBuf[evStream] \in {LibBuf, back[evStream]}
    /\ procBuf[evStream] \notin {mid[evStream], front[evStream]}

\* From copyBuffers to the end of the round processFrame sees, in both Front
\* vectors, whole frames that never change under it.
FrontIsStable ==
  procPc \in ProcBusy =>
    \A s \in Streams : content[s][front[s]] = taken[s] /\ taken[s] > 0

\* The processing thread never sleeps on frameCond while a frame of each
\* stream is ready (checked outside the critical sections).
NoLostWakeup ==
  procPc = "waiting" /\ mutex = "free" => \E s \in Streams : got[s] = 0

\* Every frame given to processDepth or processVideo is counted exactly once
\* on its way to the fps figure: in got, in processData's locals, in
\* framesCounter or in what fps has already published.
FrameAccounting ==
  LET inFlight(s) == evStream = s /\ evPc \in {"lock"} \cup EvInCs
      delivered(s) == produced[s] - (IF inFlight(s) THEN 1 ELSE 0)
      local == IF procPc \in ProcBusy
               THEN localGot["depth"] + localGot["video"] ELSE 0
  IN delivered("depth") + delivered("video")
       = got["depth"] + got["video"] + local + framesCounter + reported

\* Each round takes, of each stream, a frame newer than the one before, and
\* the newest one delivered (one more may be waiting for backBufMutex).
TakesNewest ==
  [][procPc = "copy" /\ procPc' = "process" =>
       \A s \in Streams :
         /\ taken'[s] > taken[s]
         /\ taken'[s] = IF evStream = s /\ evPc = "lock"
                        THEN produced[s] - 1 ELSE produced[s]]_vars

\* The preview never goes back to an older video frame.
PreviewNeverGoesBack == [][shown' >= shown]_vars

\* Once a frame of each stream is ready, the processing thread takes them,
\* wherever it is in its loop, or has ended.
FramesGetProcessed ==
  (procPc # "none" /\ \A s \in Streams : got[s] > 0)
     ~> (procPc = "exit" \/ \A s \in Streams : got[s] = 0)

-----------------------------------------------------------------------------
(* The inductive invariant behind the properties above.                    *)

\* 1 while a frame of s is converted but not yet counted in got.
InFlight(s) == IF evStream = s /\ evPc \in {"lock"} \cup EvInCs THEN 1 ELSE 0

MutexInv ==
  /\ mutex = "event" <=> evPc \in EvInCs
  /\ mutex = "proc" <=> procPc \in ProcInCs

ThreadInv ==
  /\ evThread = "none" <=> mainPc \in {"new", "depthStarted", "videoStarted"}
  /\ procPc = "none" <=> mainPc \in {"new", "depthStarted", "videoStarted",
                                     "driverStarted"}
  /\ mainPc = "videoStarted" => evPc = "poll"
  /\ stop => mainPc \notin {"new", "depthStarted", "videoStarted",
                            "driverStarted", "running"}
  /\ evThread = "exited" => stop
  /\ mainPc = "joinEvent" /\ evThread = "exited" => evPc = "exit"
  /\ evPc \in {"write", "lock"} \cup EvInCs => running[evStream]

BuffersInv ==
  \A s \in Streams :
    /\ back[s] # mid[s] /\ back[s] # front[s] /\ mid[s] # front[s]
    /\ running[s] =>
         procBuf[s] \in {LibBuf, IF evStream = s /\ evPc = "setbuf"
                                 THEN mid[s] ELSE back[s]}

ContentInv ==
  /\ evPc \in {"lock"} \cup EvInCs => ref = produced[evStream]
  /\ evPc = "signal" => content[evStream][mid[evStream]] = ref
  /\ \A s \in Streams :
       /\ content[s][front[s]] = taken[s]
       /\ produced[s] = taken[s] + got[s] + InFlight(s)
       /\ got[s] > 0 /\ ~(evStream = s /\ evPc \in {"setbuf", "copy", "signal"})
            => content[s][mid[s]] = taken[s] + got[s]

ProcInv ==
  /\ procPc = "waiting" => \E s \in Streams : got[s] = 0
  /\ procPc = "copy" => \A s \in Streams : got[s] > 0
  /\ procPc \in ProcBusy => \A s \in Streams : taken[s] > 0
  /\ shown <= rgb /\ rgb <= taken["video"]
  /\ taken["depth"] + taken["video"]
       = framesCounter + reported
         + (IF procPc \in ProcBusy
            THEN localGot["depth"] + localGot["video"] ELSE 0)

IndInv ==
  TypeOK /\ MutexInv /\ ThreadInv /\ BuffersInv /\ ContentInv /\ ProcInv

-----------------------------------------------------------------------------
(* What the comments in the code promise of cleanupEnv.                    *)

\* stouchDetector.cpp:69: "Signal and wait until the process thread stops":
\* cleanupEnv, once begun, ends, if the process lives.
CleanupCompletes == (mainPc = "joinEvent") ~> (mainPc \in {"done", "aborted"})
=============================================================================
