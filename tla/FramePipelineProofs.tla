------------------------- MODULE FramePipelineProofs -------------------------
(* Proofs about FramePipeline, for every set of storage blocks and every   *)
(* number of frames.                                                       *)
EXTENDS FramePipeline, TLAPS

USE DEF Streams, Storage, EvInCs, EvPcs, ProcBusy, ProcInCs, ProcPcs, MainPcs,
        bufVars, evVars, procVars, mainVars

\* The state in which initDetector starts the streams satisfies the invariant.
LEMMA InitIndInv == Init => IndInv
<1> SUFFICES ASSUME Init PROVE IndInv
  OBVIOUS
<1> USE BufsAssumption, FrameAssumption
<1>1. TypeOK
  <2>1. content \in [Streams -> [Storage -> Nat \cup {Torn}]]
    BY DEF Init
  <2>2. PICK b, m, f \in Bufs : /\ back = [s \in Streams |-> b]
                               /\ mid = [s \in Streams |-> m]
                               /\ front = [s \in Streams |-> f]
    BY DEF Init
  <2>. QED
    BY <2>1, <2>2 DEF Init, TypeOK
<1>2. MutexInv /\ ThreadInv
  BY DEF Init, MutexInv, ThreadInv
<1>3. BuffersInv
  BY DEF Init, BuffersInv
<1>4. ContentInv
  BY <1>1 DEF Init, ContentInv, InFlight, TypeOK
<1>5. ProcInv
  BY DEF Init, ProcInv
<1>. QED
  BY <1>1, <1>2, <1>3, <1>4, <1>5 DEF IndInv

\* Steps that leave the vectors and the driver's pointer alone keep them apart.
LEMMA BuffersKept ==
  IndInv /\ UNCHANGED <<back, mid, front, procBuf, running, evPc, evStream>>
    => BuffersInv'
  BY DEF IndInv, BuffersInv

\* Steps that move no frame keep the account of what the vectors hold.
LEMMA ContentKept ==
  IndInv /\ UNCHANGED <<mid, front, content, produced, taken, got, evPc,
                        evStream, ref>>
    => ContentInv'
  BY DEF IndInv, ContentInv, InFlight

\* Steps of the other threads keep the processing thread's account.
LEMMA ProcKept ==
  IndInv /\ UNCHANGED <<procPc, got, taken, shown, rgb, framesCounter, reported,
                        localGot>>
    => ProcInv'
  BY DEF IndInv, ProcInv

\* The UI thread's steps preserve the invariant.
LEMMA MainStepInv == IndInv /\ MainNext => IndInv'
<1> SUFFICES ASSUME IndInv, MainNext PROVE IndInv'
  OBVIOUS
<1> USE BufsAssumption, FrameAssumption
<1>1. CASE StartDepth
  <2>1. TypeOK'
    BY <1>1
     DEF StartDepth, StartStream, IndInv, TypeOK
  <2>2. MutexInv' /\ ThreadInv'
    BY <1>1
     DEF StartDepth, StartStream, IndInv, TypeOK, MutexInv, ThreadInv
  <2>3. BuffersInv'
    BY <1>1
     DEF StartDepth, StartStream, IndInv, TypeOK, ThreadInv, BuffersInv
  <2>4. ContentInv'
    BY <1>1, ContentKept
     DEF StartDepth, StartStream
  <2>5. ProcInv'
    BY <1>1, ProcKept
     DEF StartDepth, StartStream
  <2>. QED
    BY <2>1, <2>2, <2>3, <2>4, <2>5 DEF IndInv
<1>2. CASE StartVideo
  <2>1. TypeOK'
    BY <1>2
     DEF StartVideo, StartStream, IndInv, TypeOK
  <2>2. MutexInv' /\ ThreadInv'
    BY <1>2
     DEF StartVideo, StartStream, IndInv, TypeOK, MutexInv, ThreadInv
  <2>3. BuffersInv'
    BY <1>2
     DEF StartVideo, StartStream, IndInv, TypeOK, ThreadInv, BuffersInv
  <2>4. ContentInv'
    BY <1>2, ContentKept
     DEF StartVideo, StartStream
  <2>5. ProcInv'
    BY <1>2, ProcKept
     DEF StartVideo, StartStream
  <2>. QED
    BY <2>1, <2>2, <2>3, <2>4, <2>5 DEF IndInv
<1>3. CASE StartDriverThread
  <2>1. TypeOK'
    BY <1>3
     DEF StartDriverThread, IndInv, TypeOK
  <2>2. MutexInv' /\ ThreadInv'
    BY <1>3
     DEF StartDriverThread, IndInv, TypeOK, MutexInv, ThreadInv
  <2>3. BuffersInv'
    BY <1>3
     DEF StartDriverThread, IndInv, TypeOK, ThreadInv, BuffersInv
  <2>4. ContentInv'
    BY <1>3
     DEF StartDriverThread, IndInv, TypeOK, MutexInv, ThreadInv, BuffersInv,
         ContentInv, ProcInv, InFlight
  <2>5. ProcInv'
    BY <1>3
     DEF StartDriverThread, IndInv, TypeOK, ContentInv, ThreadInv, ProcInv
  <2>. QED
    BY <2>1, <2>2, <2>3, <2>4, <2>5 DEF IndInv
<1>4. CASE StartDetector
  <2>1. TypeOK'
    BY <1>4
     DEF StartDetector, IndInv, TypeOK
  <2>2. MutexInv' /\ ThreadInv'
    BY <1>4
     DEF StartDetector, IndInv, TypeOK, MutexInv, ThreadInv
  <2>3. BuffersInv'
    BY <1>4, BuffersKept
     DEF StartDetector
  <2>4. ContentInv'
    BY <1>4, ContentKept
     DEF StartDetector
  <2>5. ProcInv'
    BY <1>4
     DEF StartDetector, IndInv, TypeOK, ContentInv, ThreadInv, ProcInv
  <2>. QED
    BY <2>1, <2>2, <2>3, <2>4, <2>5 DEF IndInv
<1>5. CASE StopDriver
  <2>1. TypeOK'
    BY <1>5
     DEF StopDriver, IndInv, TypeOK
  <2>2. MutexInv' /\ ThreadInv'
    BY <1>5
     DEF StopDriver, IndInv, TypeOK, MutexInv, ThreadInv
  <2>3. BuffersInv'
    BY <1>5, BuffersKept
     DEF StopDriver
  <2>4. ContentInv'
    BY <1>5, ContentKept
     DEF StopDriver
  <2>5. ProcInv'
    BY <1>5, ProcKept
     DEF StopDriver
  <2>. QED
    BY <2>1, <2>2, <2>3, <2>4, <2>5 DEF IndInv
<1>6. CASE JoinEventThread
  <2>1. TypeOK'
    BY <1>6
     DEF JoinEventThread, IndInv, TypeOK
  <2>2. MutexInv' /\ ThreadInv'
    BY <1>6
     DEF JoinEventThread, IndInv, TypeOK, MutexInv, ThreadInv
  <2>3. BuffersInv'
    BY <1>6
     DEF JoinEventThread, IndInv, TypeOK, ThreadInv, BuffersInv
  <2>4. ContentInv'
    BY <1>6
     DEF JoinEventThread, IndInv, TypeOK, MutexInv, ThreadInv, BuffersInv,
         ContentInv, ProcInv, InFlight
  <2>5. ProcInv'
    BY <1>6, ProcKept
     DEF JoinEventThread
  <2>. QED
    BY <2>1, <2>2, <2>3, <2>4, <2>5 DEF IndInv
<1>7. CASE CloseDevice
  <2>1. TypeOK'
    <3>1. deviceAlive' \in BOOLEAN /\ mainPc' \in MainPcs
      BY <1>7 DEF CloseDevice
    <3>2. UNCHANGED <<bufVars, evVars, procVars, evThread, stop, die, running,
                      got, mutex, isTouchInProgress>>
      BY <1>7 DEF CloseDevice
    <3>. QED
      BY <3>1, <3>2 DEF IndInv, TypeOK
  <2>2. MutexInv' /\ ThreadInv'
    BY <1>7
     DEF CloseDevice, IndInv, TypeOK, MutexInv, ThreadInv
  <2>3. BuffersInv'
    BY <1>7, BuffersKept
     DEF CloseDevice
  <2>4. ContentInv'
    BY <1>7, ContentKept
     DEF CloseDevice
  <2>5. ProcInv'
    BY <1>7, ProcKept
     DEF CloseDevice
  <2>. QED
    BY <2>1, <2>2, <2>3, <2>4, <2>5 DEF IndInv
<1>8. CASE DestroyDetector
  <2>1. TypeOK'
    BY <1>8
     DEF DestroyDetector, IndInv, TypeOK
  <2>2. MutexInv' /\ ThreadInv'
    BY <1>8
     DEF DestroyDetector, IndInv, TypeOK, MutexInv, ThreadInv
  <2>3. BuffersInv'
    BY <1>8, BuffersKept
     DEF DestroyDetector
  <2>4. ContentInv'
    BY <1>8, ContentKept
     DEF DestroyDetector
  <2>5. ProcInv'
    BY <1>8, ProcKept
     DEF DestroyDetector
  <2>. QED
    BY <2>1, <2>2, <2>3, <2>4, <2>5 DEF IndInv
<1>9. CASE JoinProc
  <2>1. TypeOK'
    BY <1>9
     DEF JoinProc, IndInv, TypeOK
  <2>2. MutexInv' /\ ThreadInv'
    BY <1>9
     DEF JoinProc, IndInv, TypeOK, MutexInv, ThreadInv
  <2>3. BuffersInv'
    BY <1>9, BuffersKept
     DEF JoinProc
  <2>4. ContentInv'
    BY <1>9, ContentKept
     DEF JoinProc
  <2>5. ProcInv'
    BY <1>9, ProcKept
     DEF JoinProc
  <2>. QED
    BY <2>1, <2>2, <2>3, <2>4, <2>5 DEF IndInv
<1>10. ASSUME NEW b \in BOOLEAN, SetTouchInProgress(b) PROVE IndInv'
  <2>1. TypeOK'
    BY <1>10
     DEF SetTouchInProgress, IndInv, TypeOK
  <2>2. MutexInv' /\ ThreadInv'
    BY <1>10
     DEF SetTouchInProgress, IndInv, TypeOK, MutexInv, ThreadInv
  <2>3. BuffersInv'
    BY <1>10, BuffersKept
     DEF SetTouchInProgress
  <2>4. ContentInv'
    BY <1>10, ContentKept
     DEF SetTouchInProgress
  <2>5. ProcInv'
    BY <1>10, ProcKept
     DEF SetTouchInProgress
  <2>. QED
    BY <2>1, <2>2, <2>3, <2>4, <2>5 DEF IndInv
<1>. QED
  BY <1>1, <1>2, <1>3, <1>4, <1>5, <1>6, <1>7, <1>8, <1>9, <1>10
   DEF MainNext

\* The steps of event handling preserve the invariant.
LEMMA EventStepInv == IndInv /\ EvNext => IndInv'
<1> SUFFICES ASSUME IndInv, EvNext PROVE IndInv'
  OBVIOUS
<1> USE BufsAssumption, FrameAssumption
<1>1. CASE EvLoopTop
  <2>1. TypeOK'
    BY <1>1
     DEF EvLoopTop, IndInv, TypeOK
  <2>2. MutexInv' /\ ThreadInv'
    BY <1>1
     DEF EvLoopTop, IndInv, TypeOK, MutexInv, ThreadInv
  <2>3. BuffersInv'
    BY <1>1
     DEF EvLoopTop, IndInv, TypeOK, ThreadInv, BuffersInv
  <2>4. ContentInv'
    BY <1>1
     DEF EvLoopTop, IndInv, TypeOK, MutexInv, ThreadInv, BuffersInv,
         ContentInv, ProcInv, InFlight
  <2>5. ProcInv'
    BY <1>1, ProcKept
     DEF EvLoopTop
  <2>. QED
    BY <2>1, <2>2, <2>3, <2>4, <2>5 DEF IndInv
<1>2. CASE EvReturn
  <2>1. TypeOK'
    BY <1>2
     DEF EvReturn, IndInv, TypeOK
  <2>2. MutexInv' /\ ThreadInv'
    BY <1>2
     DEF EvReturn, IndInv, TypeOK, MutexInv, ThreadInv
  <2>3. BuffersInv'
    BY <1>2
     DEF EvReturn, IndInv, TypeOK, ThreadInv, BuffersInv
  <2>4. ContentInv'
    BY <1>2
     DEF EvReturn, IndInv, TypeOK, MutexInv, ThreadInv, BuffersInv,
         ContentInv, ProcInv, InFlight
  <2>5. ProcInv'
    BY <1>2, ProcKept
     DEF EvReturn
  <2>. QED
    BY <2>1, <2>2, <2>3, <2>4, <2>5 DEF IndInv
<1>3. CASE EvConverted
  <2>1. TypeOK'
    BY <1>3
     DEF EvConverted, IndInv, TypeOK, ThreadInv
  <2>2. MutexInv' /\ ThreadInv'
    BY <1>3
     DEF EvConverted, IndInv, TypeOK, MutexInv, ThreadInv
  <2>3. BuffersInv'
    BY <1>3
     DEF EvConverted, IndInv, TypeOK, ThreadInv, BuffersInv
  <2>4. ContentInv'
    BY <1>3
     DEF EvConverted, IndInv, TypeOK, MutexInv, ThreadInv, BuffersInv,
         ContentInv, ProcInv, InFlight
  <2>5. ProcInv'
    BY <1>3, ProcKept
     DEF EvConverted
  <2>. QED
    BY <2>1, <2>2, <2>3, <2>4, <2>5 DEF IndInv
<1>4. CASE PureVirtualCallback
  <2>1. TypeOK'
    BY <1>4
     DEF PureVirtualCallback, IndInv, TypeOK, ThreadInv
  <2>2. MutexInv' /\ ThreadInv'
    BY <1>4
     DEF PureVirtualCallback, IndInv, TypeOK, MutexInv, ThreadInv
  <2>3. BuffersInv'
    BY <1>4
     DEF PureVirtualCallback, IndInv, TypeOK, ThreadInv, BuffersInv
  <2>4. ContentInv'
    BY <1>4
     DEF PureVirtualCallback, IndInv, TypeOK, MutexInv, ThreadInv, BuffersInv,
         ContentInv, ProcInv, InFlight
  <2>5. ProcInv'
    BY <1>4, ProcKept
     DEF PureVirtualCallback
  <2>. QED
    BY <2>1, <2>2, <2>3, <2>4, <2>5 DEF IndInv
<1>5. CASE EvLock
  <2>1. TypeOK'
    BY <1>5
     DEF EvLock, IndInv, TypeOK
  <2>2. MutexInv' /\ ThreadInv'
    BY <1>5
     DEF EvLock, IndInv, TypeOK, MutexInv, ThreadInv
  <2>3. BuffersInv'
    BY <1>5
     DEF EvLock, IndInv, TypeOK, ThreadInv, BuffersInv
  <2>4. ContentInv'
    BY <1>5
     DEF EvLock, IndInv, TypeOK, MutexInv, ThreadInv, BuffersInv, ContentInv,
         ProcInv, InFlight
  <2>5. ProcInv'
    BY <1>5, ProcKept
     DEF EvLock
  <2>. QED
    BY <2>1, <2>2, <2>3, <2>4, <2>5 DEF IndInv
<1>6. CASE EvSwap
  <2>1. TypeOK'
    BY <1>6
     DEF EvSwap, IndInv, TypeOK
  <2>2. MutexInv' /\ ThreadInv'
    BY <1>6
     DEF EvSwap, IndInv, TypeOK, MutexInv, ThreadInv
  <2>3. BuffersInv'
    BY <1>6
     DEF EvSwap, IndInv, TypeOK, ThreadInv, BuffersInv
  <2>4. ContentInv'
    BY <1>6
     DEF EvSwap, IndInv, TypeOK, MutexInv, ThreadInv, BuffersInv, ContentInv,
         ProcInv, InFlight
  <2>5. ProcInv'
    BY <1>6, ProcKept
     DEF EvSwap
  <2>. QED
    BY <2>1, <2>2, <2>3, <2>4, <2>5 DEF IndInv
<1>7. CASE EvSetBuf
  <2>1. TypeOK'
    BY <1>7
     DEF EvSetBuf, StreamSetBuf, IndInv, TypeOK
  <2>2. MutexInv' /\ ThreadInv'
    BY <1>7
     DEF EvSetBuf, StreamSetBuf, IndInv, TypeOK, MutexInv, ThreadInv
  <2>3. BuffersInv'
    BY <1>7
     DEF EvSetBuf, StreamSetBuf, IndInv, TypeOK, ThreadInv, BuffersInv
  <2>4. ContentInv'
    BY <1>7
     DEF EvSetBuf, StreamSetBuf, IndInv, TypeOK, MutexInv, ThreadInv,
         BuffersInv, ContentInv, ProcInv, InFlight
  <2>5. ProcInv'
    BY <1>7, ProcKept
     DEF EvSetBuf, StreamSetBuf
  <2>. QED
    BY <2>1, <2>2, <2>3, <2>4, <2>5 DEF IndInv
<1>8. CASE EvCopy
  <2>1. TypeOK'
    BY <1>8
     DEF EvCopy, IndInv, TypeOK
  <2>2. MutexInv' /\ ThreadInv'
    BY <1>8
     DEF EvCopy, IndInv, TypeOK, MutexInv, ThreadInv
  <2>3. BuffersInv'
    BY <1>8
     DEF EvCopy, IndInv, TypeOK, ThreadInv, BuffersInv
  <2>4. ContentInv'
    BY <1>8
     DEF EvCopy, IndInv, TypeOK, MutexInv, ThreadInv, BuffersInv, ContentInv,
         ProcInv, InFlight
  <2>5. ProcInv'
    BY <1>8, ProcKept
     DEF EvCopy
  <2>. QED
    BY <2>1, <2>2, <2>3, <2>4, <2>5 DEF IndInv
<1>9. CASE EvSignal
  <2>1. TypeOK'
    BY <1>9
     DEF EvSignal, CountFrame, SignalFrameCond, IndInv, TypeOK
  <2>2. MutexInv' /\ ThreadInv'
    BY <1>9
     DEF EvSignal, CountFrame, SignalFrameCond, IndInv, TypeOK, MutexInv,
         ThreadInv
  <2>3. BuffersInv'
    BY <1>9
     DEF EvSignal, CountFrame, SignalFrameCond, IndInv, TypeOK, ThreadInv,
         BuffersInv
  <2>4. ContentInv'
    BY <1>9
     DEF EvSignal, CountFrame, SignalFrameCond, IndInv, TypeOK, MutexInv,
         ThreadInv, BuffersInv, ContentInv, ProcInv, InFlight
  <2>5. ProcInv'
    BY <1>9
     DEF EvSignal, CountFrame, SignalFrameCond, IndInv, TypeOK, ContentInv,
         ThreadInv, ProcInv
  <2>. QED
    BY <2>1, <2>2, <2>3, <2>4, <2>5 DEF IndInv
<1>10. ASSUME NEW s \in Streams, EvFrame(s) PROVE IndInv'
  <2>1. procBuf[s] \in Storage /\ procBuf[s] # mid[s] /\ procBuf[s] # front[s]
    BY <1>10 DEF EvFrame, IndInv, TypeOK, BuffersInv
  <2>2. /\ content' \in [Streams -> [Storage -> Nat \cup {Torn}]]
        /\ \A r \in Streams : /\ content'[r][mid[r]] = content[r][mid[r]]
                               /\ content'[r][front[r]] = content[r][front[r]]
    BY <1>10, <2>1 DEF EvFrame, IndInv, TypeOK
  <2>3. TypeOK'
    BY <1>10, <2>2 DEF EvFrame, IndInv, TypeOK
  <2>4. MutexInv' /\ ThreadInv' /\ BuffersInv' /\ ProcInv'
    BY <1>10 DEF EvFrame, Pumping, IndInv, TypeOK, MutexInv, ThreadInv,
                 BuffersInv, ProcInv
  <2>5. ContentInv'
    BY <1>10, <2>2 DEF EvFrame, IndInv, TypeOK, ContentInv, InFlight
  <2>. QED
    BY <2>3, <2>4, <2>5 DEF IndInv
<1>. QED
  BY <1>1, <1>2, <1>3, <1>4, <1>5, <1>6, <1>7, <1>8, <1>9, <1>10
   DEF EvNext, EvInside

\* The processing thread's steps preserve the invariant.
LEMMA ProcStepInv == IndInv /\ (ProcStep \/ ProcSpuriousWakeup) => IndInv'
<1> SUFFICES ASSUME IndInv, (ProcStep \/ ProcSpuriousWakeup) PROVE IndInv'
  OBVIOUS
<1> USE BufsAssumption, FrameAssumption
<1>1. CASE ProcLoopTop
  <2>1. TypeOK'
    BY <1>1
     DEF ProcLoopTop, IndInv, TypeOK
  <2>2. MutexInv' /\ ThreadInv'
    BY <1>1
     DEF ProcLoopTop, IndInv, TypeOK, MutexInv, ThreadInv
  <2>3. BuffersInv'
    BY <1>1, BuffersKept
     DEF ProcLoopTop
  <2>4. ContentInv'
    BY <1>1, ContentKept
     DEF ProcLoopTop
  <2>5. ProcInv'
    BY <1>1
     DEF ProcLoopTop, IndInv, TypeOK, ContentInv, ThreadInv, ProcInv
  <2>. QED
    BY <2>1, <2>2, <2>3, <2>4, <2>5 DEF IndInv
<1>2. CASE ProcLock
  <2>1. TypeOK'
    BY <1>2
     DEF ProcLock, IndInv, TypeOK
  <2>2. MutexInv' /\ ThreadInv'
    BY <1>2
     DEF ProcLock, IndInv, TypeOK, MutexInv, ThreadInv
  <2>3. BuffersInv'
    BY <1>2, BuffersKept
     DEF ProcLock
  <2>4. ContentInv'
    BY <1>2, ContentKept
     DEF ProcLock
  <2>5. ProcInv'
    BY <1>2
     DEF ProcLock, IndInv, TypeOK, ContentInv, ThreadInv, ProcInv
  <2>. QED
    BY <2>1, <2>2, <2>3, <2>4, <2>5 DEF IndInv
<1>3. CASE ProcCheck
  <2>1. TypeOK'
    BY <1>3
     DEF ProcCheck, FramesMissing, IndInv, TypeOK
  <2>2. MutexInv' /\ ThreadInv'
    BY <1>3
     DEF ProcCheck, FramesMissing, IndInv, TypeOK, MutexInv, ThreadInv
  <2>3. BuffersInv'
    BY <1>3, BuffersKept
     DEF ProcCheck, FramesMissing
  <2>4. ContentInv'
    BY <1>3, ContentKept
     DEF ProcCheck, FramesMissing
  <2>5. ProcInv'
    BY <1>3
     DEF ProcCheck, FramesMissing, IndInv, TypeOK, ContentInv, ThreadInv,
         ProcInv
  <2>. QED
    BY <2>1, <2>2, <2>3, <2>4, <2>5 DEF IndInv
<1>4. CASE ProcSpuriousWakeup
  <2>1. TypeOK'
    BY <1>4
     DEF ProcSpuriousWakeup, IndInv, TypeOK
  <2>2. MutexInv' /\ ThreadInv'
    BY <1>4
     DEF ProcSpuriousWakeup, IndInv, TypeOK, MutexInv, ThreadInv
  <2>3. BuffersInv'
    BY <1>4, BuffersKept
     DEF ProcSpuriousWakeup
  <2>4. ContentInv'
    BY <1>4, ContentKept
     DEF ProcSpuriousWakeup
  <2>5. ProcInv'
    BY <1>4
     DEF ProcSpuriousWakeup, IndInv, TypeOK, ContentInv, ThreadInv, ProcInv
  <2>. QED
    BY <2>1, <2>2, <2>3, <2>4, <2>5 DEF IndInv
<1>5. CASE CopyBuffers
  <2>1. evPc \notin EvInCs /\ \A s \in Streams : got[s] > 0
    BY <1>5 DEF CopyBuffers, IndInv, TypeOK, MutexInv, ProcInv
  <2>2. /\ front' = mid /\ mid' = front
        /\ got' = [s \in Streams |-> 0]
        /\ taken' = [s \in Streams |-> content[s][mid[s]]]
    BY <1>5, <2>1 DEF CopyBuffers, ClearGot, SwappedMid, IndInv, TypeOK
  <2>3. \A s \in Streams : /\ content[s][mid[s]] = taken[s] + got[s]
                           /\ taken[s] + got[s] \in Nat
                           /\ taken'[s] = taken[s] + got[s]
    BY <2>1, <2>2 DEF IndInv, TypeOK, ContentInv
  <2>4. TypeOK'
    <3>1. taken' \in [Streams -> Nat] /\ got' \in [Streams -> Nat]
      BY <2>2, <2>3
    <3>. QED
      BY <1>5, <2>2, <3>1 DEF CopyBuffers, IndInv, TypeOK
  <2>5. MutexInv' /\ ThreadInv'
    BY <1>5 DEF CopyBuffers, IndInv, TypeOK, MutexInv, ThreadInv
  <2>6. BuffersInv'
    BY <1>5, <2>1, <2>2 DEF CopyBuffers, IndInv, TypeOK, BuffersInv
  <2>7. ContentInv'
    <3>1. \A s \in Streams : /\ content'[s][front'[s]] = taken'[s]
                             /\ got'[s] = 0 /\ ~(got'[s] > 0)
                             /\ produced'[s] = taken'[s] + InFlight(s)'
      <4> SUFFICES ASSUME NEW s \in Streams
                   PROVE /\ content'[s][front'[s]] = taken'[s]
                         /\ got'[s] = 0 /\ ~(got'[s] > 0)
                         /\ produced'[s] = taken'[s] + InFlight(s)'
        OBVIOUS
      <4>1. content' = content /\ produced' = produced
        BY <1>5 DEF CopyBuffers, evVars
      <4>2. InFlight(s)' = InFlight(s)
        BY <1>5 DEF CopyBuffers, evVars, InFlight
      <4>3. produced[s] = taken[s] + got[s] + InFlight(s)
        BY DEF IndInv, ContentInv
      <4>. QED
        BY <2>2, <2>3, <4>1, <4>2, <4>3
    <3>2. InFlight("depth")' \in Nat /\ InFlight("video")' \in Nat
      BY DEF InFlight
    <3>. QED
      BY <1>5, <2>1, <2>2, <2>4, <3>1, <3>2
      DEF CopyBuffers, IndInv, TypeOK, ContentInv, InFlight
  <2>8. ProcInv'
    BY <1>5, <2>1, <2>2, <2>3 DEF CopyBuffers, IndInv, TypeOK, ProcInv
  <2>. QED
    BY <2>4, <2>5, <2>6, <2>7, <2>8 DEF IndInv
<1>6. CASE ProcessFrame
  <2>1. TypeOK'
    BY <1>6
     DEF ProcessFrame, IndInv, TypeOK
  <2>2. MutexInv' /\ ThreadInv'
    BY <1>6
     DEF ProcessFrame, IndInv, TypeOK, MutexInv, ThreadInv
  <2>3. BuffersInv'
    BY <1>6, BuffersKept
     DEF ProcessFrame
  <2>4. ContentInv'
    BY <1>6, ContentKept
     DEF ProcessFrame
  <2>5. ProcInv'
    BY <1>6
     DEF ProcessFrame, IndInv, TypeOK, ContentInv, ThreadInv, ProcInv
  <2>. QED
    BY <2>1, <2>2, <2>3, <2>4, <2>5 DEF IndInv
<1>7. CASE MapRGBToDepth
  <2>1. TypeOK'
    BY <1>7
     DEF MapRGBToDepth, IndInv, TypeOK, ContentInv
  <2>2. MutexInv' /\ ThreadInv'
    BY <1>7
     DEF MapRGBToDepth, IndInv, TypeOK, MutexInv, ThreadInv
  <2>3. BuffersInv'
    BY <1>7, BuffersKept
     DEF MapRGBToDepth
  <2>4. ContentInv'
    BY <1>7, ContentKept
     DEF MapRGBToDepth
  <2>5. ProcInv'
    BY <1>7
     DEF MapRGBToDepth, IndInv, TypeOK, ContentInv, ThreadInv, ProcInv
  <2>. QED
    BY <2>1, <2>2, <2>3, <2>4, <2>5 DEF IndInv
<1>8. CASE ConvertAndPublish
  <2>1. TypeOK'
    BY <1>8
     DEF ConvertAndPublish, IndInv, TypeOK
  <2>2. MutexInv' /\ ThreadInv'
    BY <1>8
     DEF ConvertAndPublish, IndInv, TypeOK, MutexInv, ThreadInv
  <2>3. BuffersInv'
    BY <1>8, BuffersKept
     DEF ConvertAndPublish
  <2>4. ContentInv'
    BY <1>8, ContentKept
     DEF ConvertAndPublish
  <2>5. ProcInv'
    BY <1>8
     DEF ConvertAndPublish, IndInv, TypeOK, ContentInv, ThreadInv, ProcInv
  <2>. QED
    BY <2>1, <2>2, <2>3, <2>4, <2>5 DEF IndInv
<1>9. ASSUME NEW e \in BOOLEAN, MeasureTime(e) PROVE IndInv'
  <2>1. TypeOK'
    BY <1>9
     DEF MeasureTime, IndInv, TypeOK
  <2>2. MutexInv' /\ ThreadInv'
    BY <1>9
     DEF MeasureTime, IndInv, TypeOK, MutexInv, ThreadInv
  <2>3. BuffersInv'
    BY <1>9, BuffersKept
     DEF MeasureTime
  <2>4. ContentInv'
    BY <1>9, ContentKept
     DEF MeasureTime
  <2>5. ProcInv'
    BY <1>9
     DEF MeasureTime, IndInv, TypeOK, ContentInv, ThreadInv, ProcInv
  <2>. QED
    BY <2>1, <2>2, <2>3, <2>4, <2>5 DEF IndInv
<1>. QED
  BY <1>1, <1>2, <1>3, <1>4, <1>5, <1>6, <1>7, <1>8, <1>9
   DEF ProcStep

\* Every step of the three threads preserves the invariant.
LEMMA NextIndInv == IndInv /\ [Next]_vars => IndInv'
<1>1. IndInv /\ UNCHANGED vars => IndInv'
  <2>1. IndInv /\ UNCHANGED vars => TypeOK' /\ MutexInv' /\ ThreadInv'
    BY DEF vars, IndInv, TypeOK, MutexInv, ThreadInv
  <2>. QED
    BY <2>1, BuffersKept, ContentKept, ProcKept DEF vars, IndInv
<1>. QED
  BY <1>1, MainStepInv, EventStepInv, ProcStepInv DEF Next, Terminated

-----------------------------------------------------------------------------
\* The inductive invariant holds in every reachable state.
THEOREM SpecIndInv == Spec => []IndInv
  BY InitIndInv, NextIndInv, PTL DEF Spec

\* Type correctness; in particular a running stream always has a buffer.
THEOREM TypeCorrect == Spec => []TypeOK
<1>1. IndInv => TypeOK
  BY DEF IndInv
<1>. QED
  BY <1>1, SpecIndInv, PTL

\* The driver never converts a frame into a vector the processing thread can
\* see, nor into freed storage, whatever the interleaving.
THEOREM DriverPrivacy == Spec => []DriverWritesPrivately
<1>1. IndInv => DriverWritesPrivately
  BY BufsAssumption
  DEF IndInv, TypeOK, ThreadInv, BuffersInv, DriverWritesPrivately
<1>. QED
  BY <1>1, SpecIndInv, PTL

\* processFrame reads whole frames that do not change under it.
THEOREM FrontStability == Spec => []FrontIsStable
<1>1. IndInv => FrontIsStable
  BY DEF IndInv, TypeOK, ContentInv, ProcInv, FrontIsStable
<1>. QED
  BY <1>1, SpecIndInv, PTL

\* No wakeup of the processing thread is lost.
THEOREM WakeupSafety == Spec => []NoLostWakeup
<1>1. IndInv => NoLostWakeup
  BY DEF IndInv, ProcInv, NoLostWakeup
<1>. QED
  BY <1>1, SpecIndInv, PTL

\* Every delivered frame is counted once on its way to the fps figure.
THEOREM Accounting == Spec => []FrameAccounting
<1>1. IndInv => FrameAccounting
  BY DEF IndInv, TypeOK, ContentInv, ProcInv, InFlight, FrameAccounting
<1>. QED
  BY <1>1, SpecIndInv, PTL

\* Every round takes a strictly newer, and the newest, frame of each stream.
THEOREM TakenNewest == Spec => TakesNewest
<1> DEFINE A == procPc = "copy" /\ procPc' = "process" =>
                  \A s \in Streams :
                    /\ taken'[s] > taken[s]
                    /\ taken'[s] = IF evStream = s /\ evPc = "lock"
                                   THEN produced[s] - 1 ELSE produced[s]
<1>1. IndInv /\ [Next]_vars => [A]_vars
  <2> SUFFICES ASSUME IndInv, Next, procPc = "copy", procPc' = "process",
                      NEW s \in Streams
               PROVE /\ taken'[s] > taken[s]
                     /\ taken'[s] = IF evStream = s /\ evPc = "lock"
                                    THEN produced[s] - 1 ELSE produced[s]
    OBVIOUS
  <2>1. CopyBuffers
    BY DEF Next, MainNext, EvNext, EvInside, ProcStep, Terminated, vars,
           StartDepth, StartVideo, StartStream, StartDriverThread,
           StartDetector, SetTouchInProgress, StopDriver, JoinEventThread,
           CloseDevice, DestroyDetector, JoinProc, EvLoopTop, EvReturn, EvFrame,
           EvConverted, PureVirtualCallback, EvLock, EvSwap, EvSetBuf, EvCopy, EvSignal,
           SignalFrameCond, ProcLoopTop, ProcLock, ProcCheck, ProcessFrame,
           MapRGBToDepth, ConvertAndPublish, MeasureTime, ProcSpuriousWakeup
  <2>2. taken'[s] = taken[s] + got[s] /\ got[s] > 0
    BY <2>1 DEF CopyBuffers, IndInv, TypeOK, MutexInv, ContentInv, ProcInv
  <2>3. evPc \notin EvInCs
    BY DEF IndInv, MutexInv
  <2>. QED
    BY <2>2, <2>3 DEF IndInv, TypeOK, ContentInv, InFlight
<1>. QED
  BY <1>1, SpecIndInv, PTL DEF Spec, TakesNewest

\* The preview only moves on: what is shown is the video frame the rgb matrix
\* was last mapped from, and that is never newer than the one taken.
THEOREM PreviewForward == Spec => PreviewNeverGoesBack
<1>1. IndInv /\ [Next]_vars => [shown' >= shown]_vars
  <2> SUFFICES ASSUME IndInv, Next PROVE shown' >= shown
    OBVIOUS
  <2>1. shown' = shown \/ shown' = rgb
    BY DEF Next, MainNext, EvNext, EvInside, ProcStep, Terminated, vars,
           StartDepth, StartVideo, StartStream, StartDriverThread,
           StartDetector, SetTouchInProgress, StopDriver, JoinEventThread,
           CloseDevice, DestroyDetector, JoinProc, EvLoopTop, EvReturn, EvFrame,
           EvConverted, PureVirtualCallback, EvLock, EvSwap, EvSetBuf, EvCopy, EvSignal,
           ProcLoopTop, ProcLock, ProcCheck, CopyBuffers, ProcessFrame,
           MapRGBToDepth, ConvertAndPublish, MeasureTime, ProcSpuriousWakeup
  <2>2. shown \in Nat /\ rgb \in Nat /\ shown <= rgb
    BY DEF IndInv, TypeOK, ProcInv
  <2>. QED
    BY <2>1, <2>2
<1>. QED
  BY <1>1, SpecIndInv, PTL DEF Spec, PreviewNeverGoesBack
=============================================================================
