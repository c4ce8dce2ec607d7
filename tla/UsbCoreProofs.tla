--------------------------- MODULE UsbCoreProofs ----------------------------
(***************************************************************************)
(* Theorems about the parts of MCUsbCore, for every value of the           *)
(* constants.  Each part has an inductive invariant in its own module; a   *)
(* lemma shows action by action that it is kept.                           *)
(***************************************************************************)
EXTENDS MCUsbCore, FiniteSetTheorems, SequenceTheorems, TLAPS

\* A step of MCUsbCore is one of the part that was chosen, or changes nothing.
LEMMA PartSteps ==
  [Next]_all =>
    /\ part' = part
    /\ part = "events" => Events!Next \/ UNCHANGED eventVars
    /\ part = "context" => Context!Next \/ UNCHANGED ctxVars
    /\ part = "interfaces" => Interfaces!Next \/ UNCHANGED ifVars
    /\ part = "descriptors" => Descriptors!Next \/ UNCHANGED parseVars
  BY DEF Next, all, ByEvents, ByContext, ByDevices, ByInterfaces, ByDescriptors

-----------------------------------------------------------------------------
(* Interfaces.                                                             *)

LEMMA InterfacesInit == Interfaces!Init => Interfaces!IndInv
<1> SUFFICES ASSUME Interfaces!Init PROVE Interfaces!IndInv
  OBVIOUS
<1> QED
  BY DEF Interfaces!Init, Interfaces!IndInv, Interfaces!TypeOK, Interfaces!DoingInv,
         Interfaces!ResetInv

LEMMA InterfacesStep ==
  ASSUME Interfaces!IndInv, Interfaces!Next
  PROVE  Interfaces!IndInv'
<1> USE DEF Interfaces!IndInv, Interfaces!TypeOK, Interfaces!DoingInv, Interfaces!ResetInv
<1>1. CASE Interfaces!Unplug
  BY <1>1 DEF Interfaces!Unplug
<1>2. ASSUME NEW u \in Users, Interfaces!SetAlt(u) PROVE Interfaces!IndInv'
  <2>1. PICK i \in Ifaces : left[u] = {i} /\ (CHOOSE j \in left[u] : TRUE) = i
    BY <1>2 DEF Interfaces!SetAlt
  <2>2. /\ claimed' = claimed /\ lost' = lost /\ handleLock' = handleLock
        /\ doing' = [doing EXCEPT ![u] = "none"] /\ left' = [left EXCEPT ![u] = {}]
        /\ doing[u] = "alt"
    BY <1>2 DEF Interfaces!SetAlt
  <2>3. \/ alt' = alt \union {i} /\ bound' = [bound EXCEPT ![i] = "handle"]
        \/ alt' = alt /\ bound' = bound
    BY <1>2, <2>1 DEF Interfaces!SetAlt
  <2>4. Interfaces!TypeOK' /\ Interfaces!DoingInv'
    BY <2>2, <2>3
  <2>5. Interfaces!ResetInv'
    <3> SUFFICES ASSUME ~lost, NEW k \in claimed, bound[k] # "handle"
                 PROVE  \E w \in Users : doing'[w] = "releasing" \/
                          (doing'[w] = "reclaiming" /\ k \in left'[w])
      BY <2>2, <2>3
    <3>1. PICK w \in Users : doing[w] = "releasing" \/ (doing[w] = "reclaiming" /\ k \in left[w])
      OBVIOUS
    <3>2. doing'[w] = doing[w] /\ left'[w] = left[w]
      BY <2>2, <3>1
    <3> QED
      BY <3>1, <3>2
  <2> QED
    BY <2>4, <2>5
<1>3. ASSUME NEW u \in Users, Interfaces!BeginReset(u) PROVE Interfaces!IndInv'
  BY <1>3 DEF Interfaces!BeginReset, Interfaces!Begin
<1>4. ASSUME NEW u \in Users, Interfaces!ResetDone(u) PROVE Interfaces!IndInv'
  BY <1>4 DEF Interfaces!ResetDone
<1>5. ASSUME NEW u \in Users, NEW ok \in BOOLEAN, Interfaces!Reset(u, ok) PROVE Interfaces!IndInv'
  <2>1. CASE ok
    BY <1>5, <2>1 DEF Interfaces!Reset
  <2>2. CASE ~ok
    BY <1>5, <2>2 DEF Interfaces!Reset
  <2> QED
    BY <2>1, <2>2
<1>6. ASSUME NEW u \in Users, NEW e \in BOOLEAN, Interfaces!SetAutoDetach(u, e)
      PROVE  Interfaces!IndInv'
  BY <1>6 DEF Interfaces!SetAutoDetach, Interfaces!Begin
<1>7. ASSUME NEW u \in Users, NEW c \in Configs, Interfaces!SetConfiguration(u, c)
      PROVE  Interfaces!IndInv'
  BY <1>7 DEF Interfaces!SetConfiguration, Interfaces!Begin
<1>8. ASSUME NEW u \in Users, NEW i \in Ifaces, Interfaces!ClaimInterface(u, i)
      PROVE  Interfaces!IndInv'
  BY <1>8 DEF Interfaces!ClaimInterface, Interfaces!BeginLocked, Interfaces!Begin
<1>9. ASSUME NEW u \in Users, NEW i \in Ifaces, Interfaces!CheckAlt(u, i)
      PROVE  Interfaces!IndInv'
  BY <1>9 DEF Interfaces!CheckAlt, Interfaces!BeginLocked, Interfaces!Begin
<1>10. ASSUME NEW u \in Users, NEW i \in Ifaces, Interfaces!ResetReleases(u, i)
       PROVE  Interfaces!IndInv'
  BY <1>10 DEF Interfaces!ResetReleases
<1>11. ASSUME NEW u \in Users, NEW i \in Ifaces, Interfaces!DetachKernelDriver(u, i)
       PROVE  Interfaces!IndInv'
  BY <1>11 DEF Interfaces!DetachKernelDriver, Interfaces!Begin
<1>12. ASSUME NEW u \in Users, NEW i \in Ifaces, Interfaces!AttachKernelDriver(u, i)
       PROVE  Interfaces!IndInv'
  BY <1>12 DEF Interfaces!AttachKernelDriver, Interfaces!Begin
<1>13. ASSUME NEW u \in Users, NEW i \in Ifaces, NEW ok \in BOOLEAN,
              Interfaces!ReleaseInterface(u, i, ok)
       PROVE  Interfaces!IndInv'
  BY <1>13 DEF Interfaces!ReleaseInterface, Interfaces!BeginLocked, Interfaces!Begin,
               Interfaces!AfterRelease
<1>14. ASSUME NEW u \in Users, NEW i \in Ifaces, NEW ok \in BOOLEAN, Interfaces!Reclaim(u, i, ok)
       PROVE  Interfaces!IndInv'
  BY <1>14 DEF Interfaces!Reclaim, Interfaces!ClearsBit
<1> QED
  BY <1>1, <1>2, <1>3, <1>4, <1>5, <1>6, <1>7, <1>8, <1>9, <1>10, <1>11, <1>12, <1>13, <1>14
     DEF Interfaces!Next

\* Whatever threads claim, release and reset the interfaces of one handle, between
\* resets what claimed_interfaces says is what the kernel granted (core.c
\* libusb_claim_interface, linux_usbfs.c op_reset_device).
THEOREM InterfacesSafe == Spec => []ClaimedIsOwned
<1> DEFINE I == part = "interfaces" => Interfaces!IndInv
<1>1. Init => I
  BY InterfacesInit DEF Init
<1>2. I /\ [Next]_all => I'
  <2> SUFFICES ASSUME I, [Next]_all, part' = "interfaces" PROVE Interfaces!IndInv'
    OBVIOUS
  <2>1. part = "interfaces"
    BY PartSteps
  <2>2. CASE Interfaces!Next
    BY <2>1, <2>2, InterfacesStep
  <2>3. CASE UNCHANGED ifVars
    BY <2>1, <2>3 DEF ifVars, Interfaces!IndInv, Interfaces!TypeOK, Interfaces!DoingInv,
                      Interfaces!ResetInv
  <2> QED
    BY <2>1, <2>2, <2>3, PartSteps
<1>3. I => ClaimedIsOwned
  BY DEF ClaimedIsOwned, Interfaces!IndInv, Interfaces!ResetInv, Interfaces!ClaimedIsOwned
<1> QED
  BY <1>1, <1>2, <1>3, PTL DEF Spec, Steps

-----------------------------------------------------------------------------
(* Event handling.                                                         *)

\* The first of a list without repetitions is not among the rest.
LEMMA FirstLeaves ==
  ASSUME NEW S, NEW s \in Seq(S), s # <<>>, Events!IsInjective(s)
  PROVE  /\ Head(s) \in S /\ Tail(s) \in Seq(S) /\ Events!IsInjective(Tail(s))
         /\ Events!ToSet(Tail(s)) \subseteq Events!ToSet(s) \ {Head(s)}
<1> DEFINE n == Len(s)
<1>1. n \in Nat \ {0} /\ 1 \in 1..n /\ DOMAIN s = 1..n
  OBVIOUS
<1>2. /\ Tail(s) \in Seq(S) /\ Head(s) = s[1] /\ Head(s) \in S /\ Len(Tail(s)) = n - 1
      /\ \A i \in 1..(n - 1) : Tail(s)[i] = s[i + 1]
  OBVIOUS
<1>3. DOMAIN Tail(s) = 1..(n - 1)
  BY <1>2
<1>4. \A i \in 1..(n - 1) : i + 1 \in 1..n /\ i + 1 # 1
  BY <1>1
<1> HIDE DEF n
<1>5. Events!IsInjective(Tail(s))
  <2> SUFFICES ASSUME NEW i \in 1..(n - 1), NEW j \in 1..(n - 1), Tail(s)[i] = Tail(s)[j]
               PROVE  i = j
    BY <1>3 DEF Events!IsInjective
  <2>1. i + 1 = j + 1
    BY <1>1, <1>2, <1>4 DEF Events!IsInjective
  <2> QED
    BY <1>1, <2>1
<1>6. Events!ToSet(Tail(s)) \subseteq Events!ToSet(s) \ {Head(s)}
  BY <1>1, <1>2, <1>3, <1>4 DEF Events!IsInjective, Events!ToSet
<1> QED
  BY <1>2, <1>5, <1>6

\* A new member at the end of a list keeps it without repetitions.
LEMMA LastJoins ==
  ASSUME NEW S, NEW s \in Seq(S), NEW e \in S, e \notin Events!ToSet(s), Events!IsInjective(s)
  PROVE  /\ Append(s, e) \in Seq(S) /\ Events!IsInjective(Append(s, e))
         /\ Events!ToSet(Append(s, e)) = Events!ToSet(s) \cup {e}
<1> DEFINE n == Len(s)
           t == Append(s, e)
<1>1. /\ n \in Nat /\ t \in Seq(S) /\ Len(t) = n + 1 /\ t[n + 1] = e
      /\ \A i \in 1..n : t[i] = s[i]
  OBVIOUS
<1>2. DOMAIN s = 1..n /\ DOMAIN t = 1..(n + 1) /\ 1..(n + 1) = 1..n \cup {n + 1}
  BY <1>1
<1> HIDE DEF n, t
<1>3. \A i \in 1..n : s[i] # e
  BY <1>2 DEF Events!ToSet
<1>4. Events!IsInjective(t)
  BY <1>1, <1>2, <1>3 DEF Events!IsInjective
<1>5. Events!ToSet(t) = Events!ToSet(s) \cup {e}
  BY <1>1, <1>2 DEF Events!ToSet
<1> QED
  BY <1>1, <1>4, <1>5 DEF t

LEMMA EventsInit == Events!Init => Events!IndInv
<1> SUFFICES ASSUME Events!Init PROVE Events!IndInv
  OBVIOUS
<1>1. <<>> \in Seq(Threads) /\ Events!IsInjective(<<>>) /\ Events!ToSet(<<>>) = {}
  BY DEF Events!IsInjective, Events!ToSet
<1>2. Events!TypeOK
  BY <1>1 DEF Events!Init, Events!TypeOK
<1>3. Events!LockInv
  BY ThreadsAssumption DEF Events!Init, Events!LockInv, Events!Closing
<1>4. Events!FdsInv
  BY DEF Events!Init, Events!FdsInv
<1> QED
  BY <1>1, <1>2, <1>3, <1>4 DEF Events!Init, Events!IndInv

\* The places of a thread: anywhere, with events_lock, and with a list of descriptors
Places == {"idle", "loop", "modify", "trylock", "locked", "snapshot", "poll", "repoll", "handle",
           "called", "inactive", "release", "tell", "waiters", "completed", "handler", "active",
           "asleep"}
Locked == {"locked", "snapshot", "poll", "repoll", "handle", "called", "inactive", "release"}
Polling == {"poll", "repoll", "handle", "called", "inactive"}

\* Threads that neither take or release events_lock nor copy the descriptors keep the
\* invariant.
LEMMA ThreadsMove ==
  ASSUME Events!IndInv,
         UNCHANGED <<owner, closer, modify, ctrlPipe, pollfds, opened, fds, inFlight, reapable>>,
         waiters' \in Threads \union {"free"},
         thread' \in [Threads -> Places],
         \A t \in Threads : thread'[t] \in Locked <=> thread[t] \in Locked,
         \A t \in Threads : thread[t] \in Polling => thread'[t] \in Polling
  PROVE  Events!IndInv'
<1>1. Events!TypeOK'
  BY DEF Events!IndInv, Events!TypeOK, Places
<1>2. Events!LockInv'
  BY DEF Events!IndInv, Events!TypeOK, Events!LockInv, Locked
<1>3. Events!FdsInv'
  BY DEF Events!IndInv, Events!TypeOK, Events!FdsInv, Polling
<1> QED
  BY <1>1, <1>2, <1>3 DEF Events!IndInv

\* The same for one thread
LEMMA ThreadMoves ==
  ASSUME NEW t \in Threads, Events!IndInv,
         UNCHANGED <<owner, closer, modify, ctrlPipe, pollfds, opened, fds, inFlight, reapable>>,
         waiters' \in Threads \union {"free"},
         NEW l \in Places,
         l \in Locked <=> thread[t] \in Locked,
         thread[t] \in Polling => l \in Polling,
         Events!Goto(t, l)
  PROVE  Events!IndInv'
<1>1. thread \in [Threads -> Places]
  BY DEF Events!IndInv, Events!TypeOK, Places
<1>2. /\ thread' \in [Threads -> Places] /\ thread'[t] = l
      /\ \A u \in Threads : u # t => thread'[u] = thread[u]
  BY <1>1 DEF Events!Goto
<1> QED
  BY <1>2, ThreadsMove

\* A broadcast moves its caller and wakes sleepers.
LEMMA Broadcasts ==
  ASSUME NEW t, Events!IndInv,
         UNCHANGED <<owner, closer, modify, ctrlPipe, pollfds, opened, fds, inFlight, reapable,
                     waiters>>,
         NEW l, Events!Broadcast(t, l),
         t \in Threads => /\ l \in Places /\ (l \in Locked <=> thread[t] \in Locked)
                          /\ (thread[t] \in Polling => l \in Polling)
  PROVE  Events!IndInv'
<1>1. thread \in [Threads -> Places] /\ waiters \in Threads \union {"free"}
  BY DEF Events!IndInv, Events!TypeOK, Places
<1>2. \A u \in Threads : thread'[u] = IF u = t THEN l
                                      ELSE IF thread[u] = "asleep" THEN "loop" ELSE thread[u]
  BY DEF Events!Broadcast, Events!WakeAll
<1>3. "loop" \in Places /\ "asleep" \notin Locked /\ "loop" \notin Locked /\ "asleep" \notin Polling
  BY DEF Places, Locked, Polling
<1>4. thread' \in [Threads -> Places]
  BY <1>1, <1>2, <1>3 DEF Events!Broadcast, Events!WakeAll
<1>5. /\ \A u \in Threads : thread'[u] \in Locked <=> thread[u] \in Locked
      /\ \A u \in Threads : thread[u] \in Polling => thread'[u] \in Polling
  BY <1>1, <1>2, <1>3
<1> QED
  BY <1>1, <1>4, <1>5, ThreadsMove

LEMMA ThreadsKeep ==
  ASSUME NEW t \in Threads, Events!IndInv,
         \/ Events!SyncCall(t) \/ Events!KernelCompletes(t) \/ Events!ThreadStep(t)
         \/ Events!TakesMutex(t) \/ Events!PollTimesOut(t) \/ Events!SleepTimesOut(t)
  PROVE  Events!IndInv'
<1> USE DEF Events!ioVars, Events!fdVars
<1>w. waiters \in Threads \union {"free"} /\ thread \in [Threads -> Places]
  BY DEF Events!IndInv, Events!TypeOK, Places
<1>1. CASE Events!SyncCall(t)
  <2>1. Events!TypeOK'
    BY <1>1 DEF Events!SyncCall, Events!Goto, Events!IndInv, Events!TypeOK
  <2>2. Events!LockInv'
    BY <1>1 DEF Events!SyncCall, Events!Goto, Events!IndInv, Events!TypeOK, Events!LockInv
  <2>3. Events!FdsInv'
    BY <1>1 DEF Events!SyncCall, Events!Goto, Events!IndInv, Events!TypeOK, Events!FdsInv
  <2> QED
    BY <1>1, <2>1, <2>2, <2>3 DEF Events!SyncCall, Events!IndInv
<1>2. CASE Events!KernelCompletes(t)
  <2>1. /\ reapable' = Append(reapable, t) /\ t \notin Events!ToSet(reapable) /\ t \in inFlight
        /\ UNCHANGED <<thread, fds, inFlight, owner, closer, modify, ctrlPipe, pollfds, opened,
                       waiters>>
    BY <1>2 DEF Events!KernelCompletes
  <2>2. /\ reapable' \in Seq(Threads) /\ Events!IsInjective(reapable')
        /\ Events!ToSet(reapable') = Events!ToSet(reapable) \cup {t}
    BY <2>1, LastJoins DEF Events!IndInv
  <2> QED
    BY <2>1, <2>2 DEF Events!IndInv, Events!TypeOK, Events!LockInv, Events!FdsInv
<1>3. CASE Events!Loop(t)
  BY <1>3, <1>w, ThreadMoves DEF Events!Loop, Places, Locked, Polling
<1>4. CASE Events!TryLockModify(t)
  BY <1>4, <1>w, ThreadMoves DEF Events!TryLockModify, Places, Locked, Polling
<1>5. CASE Events!TryLock(t)
  <2>1. CASE owner = "free"
    <3>1. /\ owner' = t /\ Events!Goto(t, "locked") /\ thread[t] = "trylock"
          /\ UNCHANGED <<fds, inFlight, reapable, closer, modify, ctrlPipe, pollfds, opened,
                         waiters>>
      BY <1>5, <2>1 DEF Events!TryLock
    <3>2. Events!TypeOK'
      BY <3>1 DEF Events!Goto, Events!IndInv, Events!TypeOK
    <3>3. Events!LockInv'
      BY <2>1, <3>1, ThreadsAssumption
         DEF Events!Goto, Events!IndInv, Events!TypeOK, Events!LockInv
    <3>4. Events!FdsInv'
      BY <3>1 DEF Events!Goto, Events!IndInv, Events!TypeOK, Events!FdsInv
    <3> QED
      BY <3>1, <3>2, <3>3, <3>4 DEF Events!IndInv
  <2>2. CASE owner # "free"
    BY <1>5, <1>w, <2>2, ThreadMoves DEF Events!TryLock, Places, Locked, Polling
  <2> QED
    BY <2>1, <2>2
<1>6. CASE Events!SetActive(t)
  BY <1>6, <1>w, ThreadMoves DEF Events!SetActive, Places, Locked, Polling
<1>7. CASE Events!Snapshot(t)
  <2>1. Events!TypeOK'
    BY <1>7 DEF Events!Snapshot, Events!Goto, Events!IndInv, Events!TypeOK
  <2>2. Events!LockInv'
    BY <1>7 DEF Events!Snapshot, Events!Goto, Events!IndInv, Events!TypeOK, Events!LockInv
  <2>3. Events!FdsInv'
    BY <1>7 DEF Events!Snapshot, Events!Goto, Events!IndInv, Events!TypeOK, Events!FdsInv
  <2> QED
    BY <1>7, <2>1, <2>2, <2>3 DEF Events!Snapshot, Events!IndInv
<1>8. CASE Events!Poll(t)
  BY <1>8, <1>w, ThreadMoves DEF Events!Poll, Places, Locked, Polling
<1>9. CASE Events!HandleEvents(t)
  <2>1. CASE reapable = <<>>
    BY <1>9, <1>w, <2>1, ThreadMoves DEF Events!HandleEvents, Places, Locked, Polling
  <2>2. CASE reapable # <<>>
    <3>1. /\ Events!Goto(t, "called") /\ thread[t] = "handle"
          /\ inFlight' = inFlight \ {Head(reapable)} /\ reapable' = Tail(reapable)
          /\ UNCHANGED <<fds, owner, closer, modify, ctrlPipe, pollfds, opened, waiters>>
      BY <1>9, <2>2 DEF Events!HandleEvents
    <3>2. /\ reapable' \in Seq(Threads) /\ Events!IsInjective(reapable')
          /\ Events!ToSet(reapable') \subseteq inFlight'
      BY <2>2, <3>1, FirstLeaves DEF Events!IndInv, Events!TypeOK
    <3>3. Events!TypeOK'
      BY <3>1, <3>2 DEF Events!Goto, Events!IndInv, Events!TypeOK
    <3>4. Events!LockInv'
      BY <3>1 DEF Events!Goto, Events!IndInv, Events!TypeOK, Events!LockInv
    <3>5. Events!FdsInv'
      BY <3>1 DEF Events!Goto, Events!IndInv, Events!TypeOK, Events!FdsInv
    <3> QED
      BY <3>2, <3>3, <3>4, <3>5 DEF Events!IndInv
  <2> QED
    BY <2>1, <2>2
<1>10. CASE Events!Inactive(t)
  <2>1. Events!TypeOK'
    BY <1>10 DEF Events!Inactive, Events!Goto, Events!IndInv, Events!TypeOK
  <2>2. Events!LockInv'
    BY <1>10 DEF Events!Inactive, Events!Goto, Events!IndInv, Events!TypeOK, Events!LockInv
  <2>3. Events!FdsInv'
    BY <1>10 DEF Events!Inactive, Events!Goto, Events!IndInv, Events!TypeOK, Events!FdsInv
  <2> QED
    BY <1>10, <2>1, <2>2, <2>3 DEF Events!Inactive, Events!IndInv
<1>11. CASE Events!Release(t)
  <2>1. Events!TypeOK'
    BY <1>11 DEF Events!Release, Events!Goto, Events!IndInv, Events!TypeOK
  <2>2. Events!LockInv'
    BY <1>11, ThreadsAssumption
       DEF Events!Release, Events!Goto, Events!IndInv, Events!TypeOK, Events!LockInv
  <2>3. Events!FdsInv'
    BY <1>11 DEF Events!Release, Events!Goto, Events!IndInv, Events!TypeOK, Events!FdsInv
  <2> QED
    BY <1>11, <2>1, <2>2, <2>3 DEF Events!Release, Events!IndInv
<1>12. CASE Events!Completed(t)
  BY <1>12, <1>w, ThreadMoves DEF Events!Completed, Places, Locked, Polling
<1>13. CASE Events!HandlerModify(t)
  BY <1>13, <1>w, ThreadMoves DEF Events!HandlerModify, Places, Locked, Polling
<1>14. CASE Events!HandlerActive(t)
  BY <1>14, <1>w, ThreadMoves DEF Events!HandlerActive, Places, Locked, Polling
<1>15. CASE Events!LockWaiters(t)
  BY <1>15, <1>w, ThreadMoves DEF Events!LockWaiters, Places, Locked, Polling
<1>16. CASE Events!Called(t)
  BY <1>16, <1>w, Broadcasts DEF Events!Called, Places, Locked, Polling
<1>17. CASE Events!Tell(t)
  BY <1>17, <1>w, Broadcasts DEF Events!Tell, Places, Locked, Polling
<1>18. CASE Events!PollTimesOut(t)
  BY <1>18, <1>w, ThreadMoves DEF Events!PollTimesOut, Places, Locked, Polling
<1>19. CASE Events!SleepTimesOut(t)
  BY <1>19, <1>w, ThreadMoves DEF Events!SleepTimesOut, Places, Locked, Polling
<1> QED
  BY <1>1, <1>2, <1>3, <1>4, <1>5, <1>6, <1>7, <1>8, <1>9, <1>10, <1>11, <1>12, <1>13, <1>14,
     <1>15, <1>16, <1>17, <1>18, <1>19 DEF Events!ThreadStep, Events!TakesMutex

\* The thread that opens and closes, and messages
LEMMA CloserKeeps ==
  ASSUME Events!IndInv,
         \/ Events!HotplugMessage \/ Events!OpenDevice \/ Events!CloseDevice
         \/ Events!CloserStep \/ Events!CloserMutex
  PROVE  Events!IndInv'
<1> USE DEF Events!ioVars, Events!fdVars, Events!closerUnch
<1>1. CASE Events!HotplugMessage
  BY <1>1 DEF Events!HotplugMessage, Events!IndInv, Events!TypeOK, Events!LockInv, Events!FdsInv
<1>2. CASE Events!OpenDevice
  BY <1>2 DEF Events!OpenDevice, Events!IndInv, Events!TypeOK, Events!LockInv, Events!FdsInv,
              Events!Closing
<1>3. CASE Events!CloseDevice
  BY <1>3 DEF Events!CloseDevice, Events!IndInv, Events!TypeOK, Events!LockInv, Events!FdsInv,
              Events!Closing
<1>4. CASE Events!Announce
  BY <1>4 DEF Events!Announce, Events!IndInv, Events!TypeOK, Events!LockInv, Events!FdsInv,
              Events!Closing
<1>5. CASE Events!WritePipe
  BY <1>5 DEF Events!WritePipe, Events!IndInv, Events!TypeOK, Events!LockInv, Events!FdsInv,
              Events!Closing
<1>6. CASE Events!ReadPipe
  BY <1>6 DEF Events!ReadPipe, Events!IndInv, Events!TypeOK, Events!LockInv, Events!FdsInv,
              Events!Closing
<1>7. CASE Events!DoClose
  BY <1>7 DEF Events!DoClose, Events!IndInv, Events!TypeOK, Events!LockInv, Events!FdsInv,
              Events!Closing
<1>8. CASE Events!BackendClose
  <2>1. \A t \in Threads : fds[t] = {}
    BY <1>8, ThreadsAssumption
       DEF Events!BackendClose, Events!IndInv, Events!TypeOK, Events!LockInv, Events!FdsInv,
           Events!Closing
  <2> QED
    BY <1>8, <2>1 DEF Events!BackendClose, Events!IndInv, Events!TypeOK, Events!LockInv,
                      Events!FdsInv, Events!Closing
<1>9. CASE Events!Drop
  BY <1>9 DEF Events!Drop, Events!IndInv, Events!TypeOK, Events!LockInv, Events!FdsInv,
              Events!Closing
<1>10. CASE Events!UnlockEvents
  BY <1>10 DEF Events!UnlockEvents, Events!IndInv, Events!TypeOK, Events!LockInv,
               Events!FdsInv, Events!Closing
<1>11. CASE Events!ReleaseEvents
  BY <1>11, ThreadsAssumption
     DEF Events!ReleaseEvents, Events!IndInv, Events!TypeOK, Events!LockInv, Events!FdsInv,
         Events!Closing
<1>12. CASE Events!LockEvents
  BY <1>12, ThreadsAssumption
     DEF Events!LockEvents, Events!TakeLock, Events!IndInv, Events!TypeOK, Events!LockInv,
         Events!FdsInv, Events!Closing
<1>13. ASSUME NEW to, closer' = to,
              \/ closer = "tellInner" /\ to = "backend"
              \/ closer = "tell" /\ to = "idle",
              Events!Broadcast("closer", "none"),
              UNCHANGED <<owner, modify, ctrlPipe, pollfds, opened, fds, inFlight, reapable, waiters>>
       PROVE  Events!IndInv'
  <2>1. \A u \in Threads : thread'[u] = IF thread[u] = "asleep" THEN "loop" ELSE thread[u]
    BY <1>13, ThreadsAssumption DEF Events!Broadcast, Events!WakeAll
  <2>2. Events!TypeOK'
    BY <1>13, <2>1 DEF Events!Broadcast, Events!WakeAll, Events!IndInv, Events!TypeOK
  <2>3. Events!LockInv'
    BY <1>13, <2>1 DEF Events!IndInv, Events!LockInv, Events!Closing
  <2>4. Events!FdsInv'
    BY <1>13, <2>1 DEF Events!IndInv, Events!FdsInv
  <2> QED
    BY <1>13, <2>2, <2>3, <2>4 DEF Events!IndInv
<1>14. CASE Events!TellInner
  BY <1>13, <1>14 DEF Events!TellInner
<1>15. CASE Events!TellWaiters
  BY <1>13, <1>15 DEF Events!TellWaiters
<1> QED
  BY <1>1, <1>2, <1>3, <1>4, <1>5, <1>6, <1>7, <1>8, <1>9, <1>10, <1>11, <1>12, <1>14, <1>15
     DEF Events!CloserStep, Events!CloserMutex

\* Whichever thread handles events, a device's descriptor is closed only once no
\* thread polls it (io.c handle_events, core.c libusb_close).
THEOREM EventsSafe == Spec => []ClosedNotPolled
<1> DEFINE I == part = "events" => Events!IndInv
<1>1. Init => I
  BY EventsInit DEF Init
<1>2. I /\ [Next]_all => I'
  <2> SUFFICES ASSUME I, [Next]_all, part' = "events" PROVE Events!IndInv'
    OBVIOUS
  <2>1. part = "events"
    BY PartSteps
  <2>2. CASE Events!Next
    BY <2>1, <2>2, ThreadsKeep, CloserKeeps DEF Events!Next
  <2>3. CASE UNCHANGED eventVars
    BY <2>1, <2>3 DEF eventVars, Events!IndInv, Events!TypeOK, Events!LockInv, Events!FdsInv
  <2> QED
    BY <2>1, <2>2, <2>3, PartSteps
<1>3. I => ClosedNotPolled
  BY DEF ClosedNotPolled, Events!IndInv, Events!LockInv, Events!FdsInv, Events!ClosedNotPolled
<1> QED
  BY <1>1, <1>2, <1>3, PTL DEF Spec, Steps

-----------------------------------------------------------------------------
(* Descriptors.                                                            *)

\* The last member of a sequence is replaced.
LEMMA ReplaceLast ==
  ASSUME NEW S, NEW s \in Seq(S), Len(s) > 0, NEW v \in S
  PROVE  /\ [s EXCEPT ![Len(s)] = v] \in Seq(S)
         /\ Len([s EXCEPT ![Len(s)] = v]) = Len(s)
         /\ [s EXCEPT ![Len(s)] = v][Len(s)] = v
         /\ \A i \in 1..Len(s) - 1 : [s EXCEPT ![Len(s)] = v][i] = s[i]
<1>1. Len(s) \in 1..Len(s)
  OBVIOUS
<1> QED
  BY <1>1, ExceptSeq

\* A new member is put at the end.
LEMMA PutLast ==
  ASSUME NEW S, NEW s \in Seq(S), NEW v \in S
  PROVE  /\ Append(s, v) \in Seq(S) /\ Len(Append(s, v)) = Len(s) + 1
         /\ Append(s, v)[Len(s) + 1] = v
         /\ \A i \in 1..Len(s) : Append(s, v)[i] = s[i]
  BY AppendProperties

\* The altsettings of the interface at hand, and the one at hand
LEMMA AtHand ==
  ASSUME ifs \in Seq(Descriptors!AltSeqs), Len(ifs) > 0
  PROVE  /\ Descriptors!Alts \in Seq(Descriptors!AltRecords)
         /\ Len(Descriptors!Alts) \in Nat /\ Len(ifs) \in Nat
         /\ Descriptors!Alts # <<>> => Len(Descriptors!Alts) > 0
         /\ Len(Descriptors!Alts) > 0 => Descriptors!Alt \in Descriptors!AltRecords
<1>1. Descriptors!Alts \in Seq(Descriptors!AltRecords)
  <2>1. Descriptors!Alts \in Descriptors!AltSeqs
    BY DEF Descriptors!Alts
  <2> QED
    BY <2>1 DEF Descriptors!AltSeqs
<1>2. Len(Descriptors!Alts) > 0 => Descriptors!Alt \in Descriptors!AltRecords
  BY <1>1 DEF Descriptors!Alt
<1>3. Descriptors!Alts # <<>> => Len(Descriptors!Alts) > 0
  BY <1>1, EmptySeq
<1> QED
  BY <1>1, <1>2, <1>3

\* The parser never looks behind the end of the blob.
LEMMA Consumes ==
  ASSUME Descriptors!TypeOK, Descriptors!ParseTypeInv, Descriptors!Consume,
         seen = 0 \/ look # Descriptors!Desc("end")
  PROVE  /\ look' \in Descriptors!Descs /\ seen' \in 0..MaxDescs + 1
         /\ seen' > MaxDescs => look' = Descriptors!Desc("end")
<1>1. Descriptors!Desc("end") \in Descriptors!Descs
  BY DEF Descriptors!Descs
<1>2. seen \in 0..MaxDescs
  BY DescsAssumption DEF Descriptors!TypeOK, Descriptors!ParseTypeInv
<1>3. seen' = seen + 1 /\ look' \in IF seen < MaxDescs THEN Descriptors!Descs
                                    ELSE {Descriptors!Desc("end")}
  BY DEF Descriptors!Consume
<1> QED
  BY <1>1, <1>2, <1>3, DescsAssumption

\* A descriptor of another type is not the end.
LEMMA NotTheEnd ==
  ASSUME NEW ty, Descriptors!Is(ty), ty # "end"
  PROVE  look # Descriptors!Desc("end")
<1>1. Descriptors!Desc("end").type = "end"
  BY DEF Descriptors!Desc
<1> QED
  BY <1>1 DEF Descriptors!Is

\* An interface descriptor has a number and counts endpoints.
LEMMA InterfaceLook ==
  ASSUME look \in Descriptors!Descs, Descriptors!Is("interface")
  PROVE  [num |-> look.num, eps |-> look.eps, filled |-> 0] \in Descriptors!AltRecords
<1>1. \A ty : Descriptors!Desc(ty).type = ty
  BY DEF Descriptors!Desc
<1>2. look \in [type : {"interface"}, num : IfNumbers, eps : 0..MaxEps]
  BY <1>1 DEF Descriptors!Descs, Descriptors!Is
<1> QED
  BY <1>2, DescsAssumption DEF Descriptors!AltRecords

LEMMA DescriptorsInit == Descriptors!Init => Descriptors!IndInv
<1> SUFFICES ASSUME Descriptors!Init PROVE Descriptors!IndInv
  OBVIOUS
<1>1. Descriptors!Desc("end") \in Descriptors!Descs
  BY DEF Descriptors!Descs
<1>2. Descriptors!TypeOK
  BY <1>1, DescsAssumption DEF Descriptors!Init, Descriptors!TypeOK
<1>3. Descriptors!ParseTypeInv
  <2>1. ifs \in Seq(Descriptors!AltSeqs)
    BY EmptySeq DEF Descriptors!Init
  <2> QED
    BY <2>1, DescsAssumption DEF Descriptors!Init, Descriptors!ParseTypeInv, Descriptors!Parsing
<1> QED
  BY <1>2, <1>3 DEF Descriptors!Init, Descriptors!IndInv, Descriptors!ConfigInv,
        Descriptors!OtherInv, Descriptors!CountsAreFilled, Descriptors!Parsing

\* While interfaces are parsed: what a step leaves in place
LEMMA ParsersMove ==
  ASSUME Descriptors!IndInv, where \in Descriptors!Parsing, where' \in Descriptors!Parsing,
         UNCHANGED <<expected, ifs, caps, reported, torn>>,
         look' \in Descriptors!Descs, seen' \in 0..MaxDescs + 1,
         seen' > MaxDescs => look' = Descriptors!Desc("end"),
         Descriptors!Filled(Descriptors!Alts, IF where' \in {"config", "interface"}
           THEN Len(Descriptors!Alts) ELSE Len(Descriptors!Alts) - 1),
         where' = "config" => where = "config",
         where' \in {"altsetting", "endpoint", "epextra"} => Descriptors!Alts # <<>>,
         where' = "altsetting" => where = "altsetting",
         where' = "endpoint" => Descriptors!Alt.filled < Descriptors!Alt.eps,
         where' = "epextra" => where = "epextra"
  PROVE  Descriptors!IndInv'
<1>1. Descriptors!Alts' = Descriptors!Alts /\ Descriptors!Alt' = Descriptors!Alt
  BY DEF Descriptors!Alts, Descriptors!Alt
<1>2. Descriptors!TypeOK'
  BY DEF Descriptors!IndInv, Descriptors!TypeOK
<1>3. Descriptors!ParseTypeInv'
  BY DEF Descriptors!IndInv, Descriptors!ParseTypeInv
<1>4. Descriptors!ConfigInv'
  BY <1>1 DEF Descriptors!IndInv, Descriptors!ConfigInv, Descriptors!Filled
<1>5. where' \notin {"idle", "cap", "error", "done"}
  BY DEF Descriptors!Parsing
<1> QED
  BY <1>2, <1>3, <1>4, <1>5 DEF Descriptors!IndInv, Descriptors!OtherInv, Descriptors!CountsAreFilled

\* The altsettings of the interface at hand change.
LEMMA AltsChange ==
  ASSUME Descriptors!IndInv, where \in Descriptors!Parsing,
         where' \in {"interface", "altsetting", "epextra"},
         UNCHANGED <<expected, caps, reported, torn>>,
         look' \in Descriptors!Descs, seen' \in 0..MaxDescs + 1,
         seen' > MaxDescs => look' = Descriptors!Desc("end"),
         NEW v \in Seq(Descriptors!AltRecords), v # <<>>,
         ifs' = [ifs EXCEPT ![Len(ifs)] = v],
         Descriptors!Uniform(v),
         Descriptors!Filled(v, IF where' = "interface" THEN Len(v) ELSE Len(v) - 1),
         where' = "altsetting" => v[Len(v)].filled = 0,
         where' = "epextra" => v[Len(v)].filled <= v[Len(v)].eps
  PROVE  Descriptors!IndInv'
<1>0. ifs \in Seq(Descriptors!AltSeqs) /\ Len(ifs) > 0 /\ v \in Descriptors!AltSeqs
  BY DEF Descriptors!IndInv, Descriptors!ParseTypeInv, Descriptors!ConfigInv, Descriptors!AltSeqs
<1>1. /\ ifs' \in Seq(Descriptors!AltSeqs) /\ Len(ifs') = Len(ifs) /\ ifs'[Len(ifs')] = v
      /\ \A i \in 1..Len(ifs) - 1 : ifs'[i] = ifs[i]
  BY <1>0, ReplaceLast
<1>2. Descriptors!Alts' = v /\ Descriptors!Alt' = v[Len(v)]
  BY <1>1 DEF Descriptors!Alts, Descriptors!Alt
<1>3. Descriptors!TypeOK'
  BY <1>1 DEF Descriptors!IndInv, Descriptors!TypeOK
<1>4. Descriptors!ParseTypeInv'
  BY <1>1 DEF Descriptors!IndInv, Descriptors!ParseTypeInv, Descriptors!Parsing
<1>5. Descriptors!ConfigInv'
  <2>1. Len(ifs') > 0 /\ caps' = 0
    BY <1>0, <1>1 DEF Descriptors!IndInv, Descriptors!ConfigInv
  <2>2. ASSUME NEW i \in 1..Len(ifs') - 1
        PROVE  /\ Len(ifs'[i]) > 0 /\ Descriptors!Uniform(ifs'[i])
               /\ Descriptors!Filled(ifs'[i], Len(ifs'[i]))
    <3>1. Len(ifs[i]) > 0 /\ Descriptors!Uniform(ifs[i]) /\ Descriptors!Filled(ifs[i], Len(ifs[i]))
      BY <1>1 DEF Descriptors!IndInv, Descriptors!ConfigInv
    <3> QED
      BY <1>1, <3>1
  <2>3. Descriptors!Filled(Descriptors!Alts, IF where \in {"config", "interface"}
           THEN Len(Descriptors!Alts) ELSE Len(Descriptors!Alts) - 1)'
    BY <1>2 DEF Descriptors!Filled
  <2>4. Descriptors!Uniform(Descriptors!Alts)'
    BY <1>2 DEF Descriptors!Uniform
  <2>5. \A i \in 1..Len(ifs') - 1 : Len(ifs'[i]) > 0 /\ Descriptors!Uniform(ifs[i])'
                                     /\ Descriptors!Filled(ifs[i], Len(ifs[i]))'
    BY <2>2 DEF Descriptors!Uniform, Descriptors!Filled
  <2> QED
    BY <1>2, <2>1, <2>3, <2>4, <2>5 DEF Descriptors!ConfigInv
<1>6. where' \notin {"idle", "cap", "error", "done"}
  OBVIOUS
<1> QED
  BY <1>3, <1>4, <1>5, <1>6 DEF Descriptors!IndInv, Descriptors!OtherInv, Descriptors!CountsAreFilled

\* An interface that is complete: its altsettings are of one number, and have the
\* endpoints they count unless one is torn.
Complete(s, t) ==
  /\ Len(s) > 0 /\ Descriptors!Uniform(s)
  /\ t \/ \A j \in 1..Len(s) : s[j].filled = s[j].eps

LEMMA CompleteCounts ==
  ASSUME NEW R, NEW s \in Seq(R), NEW t \in BOOLEAN, Complete(s, t)
  PROVE  /\ Len(s) > 0
         /\ \A a \in Descriptors!Range(s) : a.num = Head(s).num /\ (~t => a.filled = a.eps)
<1>1. Len(s) \in Nat /\ DOMAIN s = 1..Len(s) /\ Len(s) > 0 /\ Head(s) = s[1]
  BY DEF Complete
<1>2. SUFFICES ASSUME NEW j \in 1..Len(s)
               PROVE  s[j].num = s[1].num /\ (~t => s[j].filled = s[j].eps)
  BY <1>1 DEF Descriptors!Range
<1> QED
  BY DEF Complete, Descriptors!Uniform

\* parse_interface returns.
LEMMA ParserReturns ==
  ASSUME Descriptors!IndInv, where \in Descriptors!Parsing, Descriptors!InterfaceReturns,
         Descriptors!Stay, UNCHANGED <<expected, caps>>, torn' \in BOOLEAN, torn => torn',
         torn' \/ \A j \in 1..Len(Descriptors!Alts) :
                    Descriptors!Alts[j].filled = Descriptors!Alts[j].eps
  PROVE  Descriptors!IndInv'
<1>0. /\ ifs \in Seq(Descriptors!AltSeqs) /\ Len(ifs) \in Nat /\ Len(ifs) > 0 /\ caps = 0
      /\ expected \in Nat /\ Len(ifs) <= expected /\ torn \in BOOLEAN /\ caps' = 0
  BY DescsAssumption DEF Descriptors!IndInv, Descriptors!TypeOK, Descriptors!ParseTypeInv,
                         Descriptors!ConfigInv
<1>1. ASSUME NEW i \in 1..Len(ifs) - 1 PROVE Complete(ifs[i], torn')
  <2>1. Len(ifs[i]) > 0 /\ Descriptors!Uniform(ifs[i]) /\ Descriptors!Filled(ifs[i], Len(ifs[i]))
    BY DEF Descriptors!IndInv, Descriptors!ConfigInv
  <2> QED
    BY <1>0, <2>1 DEF Complete, Descriptors!Filled
<1>2. /\ Descriptors!Alts \in Seq(Descriptors!AltRecords)
      /\ Descriptors!Alts # <<>> => Complete(ifs[Len(ifs)], torn')
  <2>1. Descriptors!Uniform(Descriptors!Alts)
    BY DEF Descriptors!IndInv, Descriptors!ConfigInv
  <2>2. /\ Descriptors!Alts \in Seq(Descriptors!AltRecords)
        /\ Descriptors!Alts # <<>> => Len(Descriptors!Alts) > 0
    BY <1>0, AtHand
  <2>3. Descriptors!Alts # <<>> => Complete(Descriptors!Alts, torn')
    BY <2>1, <2>2 DEF Complete
  <2> QED
    BY <2>2, <2>3 DEF Descriptors!Alts
<1>3. look' = look /\ seen' = seen
  BY DEF Descriptors!Stay
<1>4. CASE Descriptors!Alts = <<>> \/ Len(ifs) = expected
  <2>1. where' = "done" /\ reported' = Descriptors!FilledIfs /\ ifs' = ifs
    BY <1>4 DEF Descriptors!InterfaceReturns, Descriptors!Finished
  <2>2. /\ Descriptors!FilledIfs \in Nat /\ Descriptors!FilledIfs <= Len(ifs)
        /\ Descriptors!Alts = <<>> => Descriptors!FilledIfs < Len(ifs)
    BY <1>0 DEF Descriptors!FilledIfs
  <2>3. Descriptors!TypeOK'
    BY <1>0, <1>3, <2>1, <2>2 DEF Descriptors!IndInv, Descriptors!TypeOK
  <2>4. Descriptors!ParseTypeInv'
    BY <1>0, <1>3, <2>1, <2>2 DEF Descriptors!IndInv, Descriptors!ParseTypeInv
  <2>5. Descriptors!CountsAreFilled'
    <3>1. ASSUME NEW i \in 1..Len(ifs), i <= Descriptors!FilledIfs
          PROVE  /\ Len(ifs[i]) > 0
                 /\ \A a \in Descriptors!Range(ifs[i]) :
                      a.num = Head(ifs[i]).num /\ (~torn' => a.filled = a.eps)
      <4>1. Complete(ifs[i], torn')
        <5>1. CASE i = Len(ifs)
          BY <1>0, <1>2, <2>2, <3>1, <5>1
        <5>2. CASE i # Len(ifs)
          <6>1. i \in 1..Len(ifs) - 1
            BY <1>0, <5>2
          <6> QED
            BY <1>1, <6>1
        <5> QED
          BY <5>1, <5>2
      <4>2. ifs[i] \in Seq(Descriptors!AltRecords)
        BY <1>0 DEF Descriptors!AltSeqs
      <4> QED
        BY <4>1, <4>2, CompleteCounts
    <3>2. reported' <= Len(ifs') + caps'
      BY <1>0, <2>1, <2>2
    <3>3. ASSUME NEW i \in 1..Len(ifs'), i <= reported'
          PROVE  /\ Len(ifs'[i]) > 0
                 /\ \A a \in Descriptors!Range(ifs'[i]) :
                      a.num = Head(ifs'[i]).num /\ (~torn' => a.filled = a.eps)
      BY <2>1, <3>1, <3>3
    <3> QED
      BY <3>2, <3>3 DEF Descriptors!CountsAreFilled, Descriptors!Range
  <2> QED
    BY <2>1, <2>3, <2>4, <2>5 DEF Descriptors!IndInv, Descriptors!ConfigInv, Descriptors!OtherInv,
                                  Descriptors!Parsing
<1>5. CASE Descriptors!Alts # <<>> /\ Len(ifs) # expected
  <2>1. where' = "config" /\ ifs' = Append(ifs, <<>>) /\ reported' = reported
    BY <1>5 DEF Descriptors!InterfaceReturns
  <2>2. <<>> \in Descriptors!AltSeqs
    BY EmptySeq DEF Descriptors!AltSeqs
  <2>3. /\ ifs' \in Seq(Descriptors!AltSeqs) /\ Len(ifs') = Len(ifs) + 1
        /\ ifs'[Len(ifs) + 1] = <<>> /\ \A i \in 1..Len(ifs) : ifs'[i] = ifs[i]
    BY <1>0, <2>1, <2>2, PutLast
  <2>4. Descriptors!TypeOK'
    BY <1>0, <1>3, <1>5, <2>1, <2>3 DEF Descriptors!IndInv, Descriptors!TypeOK
  <2>5. Descriptors!ParseTypeInv'
    BY <1>0, <1>3, <2>1, <2>3 DEF Descriptors!IndInv, Descriptors!ParseTypeInv, Descriptors!Parsing
  <2>6. Descriptors!Alts' = <<>>
    BY <2>3 DEF Descriptors!Alts
  <2>7. ASSUME NEW i \in 1..Len(ifs') - 1 PROVE Complete(ifs'[i], torn')
    <3>1. i \in 1..Len(ifs) /\ ifs'[i] = ifs[i]
      BY <1>0, <2>3
    <3>2. CASE i = Len(ifs)
      BY <1>2, <1>5, <3>1, <3>2
    <3>3. CASE i # Len(ifs)
      <4>1. i \in 1..Len(ifs) - 1
        BY <1>0, <3>1, <3>3
      <4> QED
        BY <1>1, <3>1, <4>1
    <3> QED
      BY <3>2, <3>3
  <2>8. \A i \in 1..Len(ifs') - 1 : /\ Len(ifs'[i]) > 0 /\ Descriptors!Uniform(ifs[i])'
                                     /\ Descriptors!Filled(ifs[i], Len(ifs[i]))'
    BY <2>7 DEF Complete, Descriptors!Uniform, Descriptors!Filled
  <2>9. /\ Descriptors!Uniform(Descriptors!Alts)'
        /\ Descriptors!Filled(Descriptors!Alts, Len(Descriptors!Alts))'
    <3>1. Len(<<>>) = 0 /\ 1..0 = {}
      OBVIOUS
    <3> QED
      BY <2>6, <3>1 DEF Descriptors!Uniform, Descriptors!Filled
  <2>10. Descriptors!ConfigInv'
    BY <1>0, <2>1, <2>3, <2>6, <2>8, <2>9 DEF Descriptors!ConfigInv
  <2> QED
    BY <2>1, <2>4, <2>5, <2>10 DEF Descriptors!IndInv, Descriptors!OtherInv,
                                   Descriptors!CountsAreFilled
<1> QED
  BY <1>4, <1>5

\* The altsetting at hand is replaced by one of its number.
LEMMA AltReplaced ==
  ASSUME Descriptors!IndInv, where \in {"endpoint", "epextra"}, NEW a \in Descriptors!AltRecords,
         a.num = Descriptors!Alt.num
  PROVE  LET v == [Descriptors!Alts EXCEPT ![Len(Descriptors!Alts)] = a]
         IN /\ v \in Seq(Descriptors!AltRecords) /\ v # <<>> /\ Descriptors!Uniform(v)
            /\ Descriptors!Filled(v, Len(v) - 1) /\ v[Len(v)] = a
            /\ a.filled = a.eps => Descriptors!Filled(v, Len(v))
            /\ Descriptors!WithAlt(a) = [ifs EXCEPT ![Len(ifs)] = v]
<1> DEFINE s == Descriptors!Alts
           v == [s EXCEPT ![Len(s)] = a]
<1>0. /\ ifs \in Seq(Descriptors!AltSeqs) /\ Len(ifs) > 0 /\ s # <<>> /\ Descriptors!Uniform(s)
      /\ Descriptors!Filled(s, Len(s) - 1)
  BY DEF Descriptors!IndInv, Descriptors!ConfigInv, Descriptors!ParseTypeInv, Descriptors!Parsing
<1>1. s \in Seq(Descriptors!AltRecords) /\ Len(s) \in Nat /\ Len(s) > 0 /\ Descriptors!Alt = s[Len(s)]
  BY <1>0, AtHand DEF Descriptors!Alt
<1>2. Descriptors!WithAlt(a) = [ifs EXCEPT ![Len(ifs)] = v]
  BY DEF Descriptors!WithAlt, Descriptors!Alts
<1> HIDE DEF s
<1>3. /\ v \in Seq(Descriptors!AltRecords) /\ Len(v) = Len(s) /\ v[Len(s)] = a
      /\ \A i \in 1..Len(s) - 1 : v[i] = s[i]
  BY <1>1, ReplaceLast
<1> HIDE DEF v
<1>4. \A i \in 1..Len(s) : i = Len(s) \/ i \in 1..Len(s) - 1
  BY <1>1
<1>5. \A i \in 1..Len(s) : v[i].num = s[i].num
  BY <1>1, <1>3, <1>4
<1>6. Descriptors!Uniform(v)
  <2>1. 1 \in 1..Len(s)
    BY <1>1
  <2> QED
    BY <1>0, <1>3, <1>5, <2>1 DEF Descriptors!Uniform
<1>7. Descriptors!Filled(v, Len(v) - 1)
  BY <1>0, <1>3 DEF Descriptors!Filled
<1>8. a.filled = a.eps => Descriptors!Filled(v, Len(v))
  BY <1>3, <1>4, <1>7 DEF Descriptors!Filled
<1>9. v # <<>>
  BY <1>1, <1>3
<1> QED
  BY <1>2, <1>3, <1>6, <1>7, <1>8, <1>9 DEF v, s

\* An altsetting is put behind the others of the interface.
LEMMA AltPut ==
  ASSUME Descriptors!IndInv, where = "interface", Descriptors!Is("interface"),
         Descriptors!SameInterface
  PROVE  LET a == [num |-> look.num, eps |-> look.eps, filled |-> 0]
             v == Append(Descriptors!Alts, a)
         IN /\ v \in Seq(Descriptors!AltRecords) /\ v # <<>> /\ Descriptors!Uniform(v)
            /\ Descriptors!Filled(v, Len(v) - 1) /\ v[Len(v)].filled = 0
<1> DEFINE s == Descriptors!Alts
           a == [num |-> look.num, eps |-> look.eps, filled |-> 0]
           v == Append(s, a)
<1>0. /\ ifs \in Seq(Descriptors!AltSeqs) /\ Len(ifs) > 0 /\ Descriptors!Uniform(s)
      /\ Descriptors!Filled(s, Len(s)) /\ look \in Descriptors!Descs
  BY DEF Descriptors!IndInv, Descriptors!ConfigInv, Descriptors!ParseTypeInv, Descriptors!Parsing,
         Descriptors!TypeOK
<1>1. s \in Seq(Descriptors!AltRecords) /\ Len(s) \in Nat
  BY <1>0, AtHand
<1>2. a \in Descriptors!AltRecords /\ a.num = look.num /\ a.filled = 0
  BY <1>0, InterfaceLook
<1>3. s # <<>> => look.num = s[1].num
  BY <1>1 DEF Descriptors!SameInterface
<1> HIDE DEF a, s
<1>4. /\ v \in Seq(Descriptors!AltRecords) /\ Len(v) = Len(s) + 1 /\ v[Len(s) + 1] = a
      /\ \A i \in 1..Len(s) : v[i] = s[i]
  BY <1>1, <1>2, PutLast
<1> HIDE DEF v
<1>5. v # <<>> /\ v[Len(v)].filled = 0 /\ \A i \in 1..Len(v) : i \in 1..Len(s) \/ i = Len(s) + 1
  BY <1>1, <1>2, <1>4
<1>6. Descriptors!Uniform(v)
  <2>1. CASE s = <<>>
    <3>1. Len(v) = 1
      BY <1>4, <2>1
    <3> QED
      BY <3>1 DEF Descriptors!Uniform
  <2>2. CASE s # <<>>
    <3>1. 1 \in 1..Len(s) /\ v[1] = s[1]
      BY <1>1, <1>4, <2>2
    <3>2. v[Len(s) + 1].num = v[1].num
      BY <1>2, <1>3, <1>4, <2>2, <3>1
    <3>3. \A i \in 1..Len(s) : v[i].num = v[1].num
      BY <1>0, <1>4, <3>1 DEF Descriptors!Uniform
    <3> QED
      BY <1>5, <3>2, <3>3 DEF Descriptors!Uniform
  <2> QED
    BY <2>1, <2>2
<1>7. Descriptors!Filled(v, Len(v) - 1)
  <2>1. Len(v) - 1 = Len(s)
    BY <1>1, <1>4
  <2> QED
    BY <1>0, <1>4, <2>1 DEF Descriptors!Filled
<1> QED
  BY <1>4, <1>5, <1>6, <1>7 DEF v, a, s

\* An error leaves nothing behind.
LEMMA ParserFails ==
  ASSUME Descriptors!IndInv, Descriptors!Failed
  PROVE  Descriptors!IndInv'
<1>1. /\ where' = "error" /\ ifs' = <<>> /\ reported' = 0 /\ look' = look /\ seen' = seen
      /\ expected' = expected /\ caps' = caps /\ torn' = torn
  BY DEF Descriptors!Failed, Descriptors!Stay
<1>2. ifs' \in Seq(Descriptors!AltSeqs) /\ Len(ifs') = 0
  BY <1>1, EmptySeq
<1>3. Descriptors!TypeOK'
  BY <1>1, <1>2, DescsAssumption DEF Descriptors!IndInv, Descriptors!TypeOK
<1>4. Descriptors!ParseTypeInv'
  BY <1>1, <1>2 DEF Descriptors!IndInv, Descriptors!ParseTypeInv
<1> QED
  BY <1>1, <1>3, <1>4 DEF Descriptors!IndInv, Descriptors!ConfigInv, Descriptors!OtherInv,
                          Descriptors!CountsAreFilled, Descriptors!Parsing

LEMMA DescriptorsStep ==
  ASSUME Descriptors!IndInv, Descriptors!Next
  PROVE  Descriptors!IndInv'
<1>0. /\ Descriptors!TypeOK /\ Descriptors!ParseTypeInv
      /\ Descriptors!ConfigInv /\ Descriptors!OtherInv
      /\ \A ty : ty # "end" /\ Descriptors!Is(ty) => look # Descriptors!Desc("end")
      /\ Descriptors!Consume /\ (seen = 0 \/ look # Descriptors!Desc("end")) =>
           /\ look' \in Descriptors!Descs /\ seen' \in 0..MaxDescs + 1
           /\ seen' > MaxDescs => look' = Descriptors!Desc("end")
      /\ Descriptors!Stay =>
           /\ look' \in Descriptors!Descs /\ seen' \in 0..MaxDescs + 1
           /\ seen' > MaxDescs => look' = Descriptors!Desc("end")
  BY Consumes, NotTheEnd DEF Descriptors!IndInv, Descriptors!TypeOK, Descriptors!ParseTypeInv,
                             Descriptors!Stay
<1>p. where \in Descriptors!Parsing =>
        /\ ifs \in Seq(Descriptors!AltSeqs) /\ Len(ifs) > 0
        /\ Descriptors!Alts \in Seq(Descriptors!AltRecords)
        /\ Len(Descriptors!Alts) \in Nat /\ Len(ifs) \in Nat
        /\ Descriptors!Alts # <<>> => Descriptors!Alt \in Descriptors!AltRecords
  BY <1>0, AtHand DEF Descriptors!ParseTypeInv, Descriptors!ConfigInv
<1>1. CASE Descriptors!StartConfig
  <2>1. /\ where = "idle" /\ expected' \in 0..MaxIfs /\ caps' = 0 /\ torn' = torn /\ ifs = <<>>
        /\ seen = 0 /\ reported = 0
    BY <1>0, <1>1 DEF Descriptors!StartConfig, Descriptors!OtherInv
  <2>2. CASE expected' = 0
    <3>1. /\ where' = "done" /\ reported' = 0 /\ ifs' = <<>> /\ look' = look /\ seen' = seen
      BY <1>1, <2>1, <2>2 DEF Descriptors!StartConfig, Descriptors!Finished, Descriptors!Stay
    <3>2. Len(ifs') = 0
      BY <3>1
    <3>3. Descriptors!TypeOK' /\ Descriptors!ParseTypeInv'
      BY <1>0, <2>1, <2>2, <3>1, <3>2, EmptySeq DEF Descriptors!TypeOK, Descriptors!ParseTypeInv
    <3> QED
      BY <2>1, <3>1, <3>2, <3>3
         DEF Descriptors!IndInv, Descriptors!ConfigInv, Descriptors!OtherInv,
             Descriptors!CountsAreFilled, Descriptors!Parsing
  <2>3. CASE expected' # 0
    <3>1. where' = "config" /\ Descriptors!Consume /\ ifs' = <<<<>>>> /\ reported' = 0
      BY <1>1, <2>1, <2>3 DEF Descriptors!StartConfig
    <3>2. <<>> \in Descriptors!AltSeqs
      BY EmptySeq DEF Descriptors!AltSeqs
    <3>3. ifs' \in Seq(Descriptors!AltSeqs) /\ Len(ifs') = 1 /\ ifs'[1] = <<>>
      BY <3>1, <3>2
    <3>4. Descriptors!TypeOK' /\ Descriptors!ParseTypeInv'
      BY <1>0, <2>1, <2>3, <3>1, <3>3, DescsAssumption
         DEF Descriptors!TypeOK, Descriptors!ParseTypeInv, Descriptors!Parsing
    <3>5. Descriptors!Alts' = <<>> /\ Len(Descriptors!Alts)' = 0 /\ 1..0 = {} /\ 1..1 - 1 = {}
      BY <3>3 DEF Descriptors!Alts
    <3>6. /\ Descriptors!Uniform(Descriptors!Alts)'
          /\ Descriptors!Filled(Descriptors!Alts, Len(Descriptors!Alts))'
      BY <3>5 DEF Descriptors!Uniform, Descriptors!Filled
    <3>7. Descriptors!ConfigInv'
      BY <2>1, <3>1, <3>3, <3>5, <3>6 DEF Descriptors!ConfigInv
    <3> QED
      BY <3>1, <3>4, <3>7
         DEF Descriptors!IndInv, Descriptors!OtherInv, Descriptors!CountsAreFilled
  <2> QED
    BY <2>2, <2>3
<1>2. CASE Descriptors!ConfigExtra
  BY <1>0, <1>2, ParsersMove DEF Descriptors!ConfigExtra, Descriptors!ConfigInv, Descriptors!Parsing
<1>3. CASE Descriptors!ConfigOver
  <2>1. /\ where = "config" /\ where' = "done" /\ reported' = Len(ifs) - 1 /\ look' = look
        /\ seen' = seen /\ UNCHANGED <<expected, ifs, caps, torn>>
    BY <1>3 DEF Descriptors!ConfigOver, Descriptors!Finished, Descriptors!Stay
  <2>2. /\ where \in Descriptors!Parsing /\ Len(ifs) \in Nat /\ Len(ifs) > 0 /\ caps = 0
        /\ ifs \in Seq(Descriptors!AltSeqs) /\ torn \in BOOLEAN
    BY <1>0, <1>p, <2>1 DEF Descriptors!ConfigInv, Descriptors!Parsing, Descriptors!ParseTypeInv
  <2>3. Descriptors!TypeOK' /\ Descriptors!ParseTypeInv'
    BY <1>0, <2>1, <2>2, DescsAssumption DEF Descriptors!TypeOK, Descriptors!ParseTypeInv
  <2>4. ASSUME NEW i \in 1..Len(ifs), i <= Len(ifs) - 1
        PROVE  /\ Len(ifs[i]) > 0
               /\ \A a \in Descriptors!Range(ifs[i]) :
                    a.num = Head(ifs[i]).num /\ (~torn => a.filled = a.eps)
    <3>1. i \in 1..Len(ifs) - 1
      BY <2>2, <2>4
    <3>2. Complete(ifs[i], torn)
      BY <1>0, <2>2, <3>1 DEF Descriptors!ConfigInv, Descriptors!Filled, Complete
    <3>3. ifs[i] \in Seq(Descriptors!AltRecords)
      BY <2>2 DEF Descriptors!AltSeqs
    <3> QED
      BY <2>2, <3>2, <3>3, CompleteCounts
  <2>5. Descriptors!CountsAreFilled'
    BY <2>1, <2>2, <2>4 DEF Descriptors!CountsAreFilled, Descriptors!Range
  <2> QED
    BY <2>1, <2>3, <2>5 DEF Descriptors!IndInv, Descriptors!ConfigInv, Descriptors!OtherInv,
                            Descriptors!Parsing
<1>4. CASE Descriptors!ConfigNext
  BY <1>0, <1>4, ParsersMove DEF Descriptors!ConfigNext, Descriptors!ConfigInv, Descriptors!Parsing
<1>5. CASE Descriptors!AltSetting
  <2> DEFINE a == [num |-> look.num, eps |-> look.eps, filled |-> 0]
             v == Append(Descriptors!Alts, a)
  <2>1. /\ where = "interface" /\ Descriptors!Is("interface") /\ Descriptors!SameInterface
        /\ where' = "altsetting" /\ Descriptors!Consume
        /\ UNCHANGED <<expected, caps, reported, torn>>
    BY <1>5 DEF Descriptors!AltSetting
  <2>2. ifs' = [ifs EXCEPT ![Len(ifs)] = v]
    BY <1>5 DEF Descriptors!AltSetting, Descriptors!Alts
  <2>3. /\ v \in Seq(Descriptors!AltRecords) /\ v # <<>> /\ Descriptors!Uniform(v)
        /\ Descriptors!Filled(v, Len(v) - 1) /\ v[Len(v)].filled = 0
    BY <2>1, AltPut
  <2> HIDE DEF v
  <2> QED
    BY <1>0, <2>1, <2>2, <2>3, AltsChange DEF Descriptors!Parsing
<1>6. CASE Descriptors!NoAltSetting
  <2>1. where = "interface" /\ Descriptors!InterfaceReturns /\ Descriptors!Stay
        /\ UNCHANGED <<expected, caps, torn>>
    BY <1>6 DEF Descriptors!NoAltSetting
  <2>2. torn \/ \A j \in 1..Len(Descriptors!Alts) :
                  Descriptors!Alts[j].filled = Descriptors!Alts[j].eps
    BY <1>0, <2>1 DEF Descriptors!ConfigInv, Descriptors!Parsing, Descriptors!Filled
  <2>3. torn' = torn /\ torn \in BOOLEAN /\ where \in Descriptors!Parsing
    BY <1>0, <2>1 DEF Descriptors!ParseTypeInv, Descriptors!Parsing
  <2> QED
    BY <2>1, <2>2, <2>3, ParserReturns
<1>7. CASE Descriptors!AltExtra
  BY <1>0, <1>7, ParsersMove DEF Descriptors!AltExtra, Descriptors!ConfigInv, Descriptors!Parsing
<1>8. CASE Descriptors!AltOver
  <2> DEFINE s == Descriptors!Alts
  <2>1. where = "altsetting" /\ Descriptors!InterfaceReturns /\ Descriptors!Stay
        /\ UNCHANGED <<expected, caps>> /\ torn' = (torn \/ Descriptors!Alt.eps > 0)
    BY <1>8 DEF Descriptors!AltOver
  <2>2. /\ where \in Descriptors!Parsing /\ s # <<>> /\ Descriptors!Alt.filled = 0
        /\ Descriptors!Filled(s, Len(s) - 1) /\ torn \in BOOLEAN
    BY <1>0, <2>1 DEF Descriptors!ConfigInv, Descriptors!Parsing, Descriptors!ParseTypeInv
  <2>3. /\ s \in Seq(Descriptors!AltRecords) /\ Len(s) \in Nat /\ Descriptors!Alt = s[Len(s)]
        /\ Descriptors!Alt.eps \in Nat
    BY <1>p, <2>2 DEF Descriptors!Alt, Descriptors!AltRecords
  <2>4. torn' \/ \A j \in 1..Len(s) : s[j].filled = s[j].eps
    <3>1. CASE torn \/ Descriptors!Alt.eps > 0
      BY <2>1, <3>1
    <3>2. CASE ~torn /\ Descriptors!Alt.eps = 0
      <4>1. \A j \in 1..Len(s) : j = Len(s) \/ j \in 1..Len(s) - 1
        BY <2>3
      <4>2. s[Len(s)].filled = s[Len(s)].eps
        BY <2>2, <2>3, <3>2
      <4> HIDE DEF s
      <4> QED
        BY <2>2, <3>2, <4>1, <4>2 DEF Descriptors!Filled
    <3> QED
      BY <2>2, <2>3, <3>1, <3>2
  <2>5. torn' \in BOOLEAN /\ (torn => torn')
    BY <2>1
  <2> QED
    BY <2>1, <2>2, <2>4, <2>5, ParserReturns
<1>9. CASE Descriptors!AltNext
  <2> DEFINE s == Descriptors!Alts
  <2>1. /\ where = "altsetting" /\ Descriptors!Stay /\ UNCHANGED <<expected, ifs, caps, reported, torn>>
        /\ where' = IF Descriptors!Alt.eps > 0 THEN "endpoint" ELSE "interface"
    BY <1>9 DEF Descriptors!AltNext
  <2>2. /\ where \in Descriptors!Parsing /\ s # <<>> /\ Descriptors!Alt.filled = 0
        /\ Descriptors!Filled(s, Len(s) - 1)
    BY <1>0, <2>1 DEF Descriptors!ConfigInv, Descriptors!Parsing
  <2>3. /\ s \in Seq(Descriptors!AltRecords) /\ Len(s) \in Nat /\ Descriptors!Alt = s[Len(s)]
        /\ Descriptors!Alt.eps \in Nat
    BY <1>p, <2>2 DEF Descriptors!Alt, Descriptors!AltRecords
  <2>4. CASE Descriptors!Alt.eps > 0
    BY <1>0, <2>1, <2>2, <2>4, ParsersMove DEF Descriptors!Parsing
  <2>5. CASE Descriptors!Alt.eps = 0
    <3>1. \A j \in 1..Len(s) : j = Len(s) \/ j \in 1..Len(s) - 1
      BY <2>3
    <3>2. s[Len(s)].filled = s[Len(s)].eps
      BY <2>2, <2>3, <2>5
    <3>3. Descriptors!Filled(s, Len(s))
      <4> HIDE DEF s
      <4> QED
        BY <2>2, <3>1, <3>2 DEF Descriptors!Filled
    <3>4. where' = "interface"
      BY <2>1, <2>5
    <3> QED
      BY <1>0, <2>1, <2>2, <3>3, <3>4, ParsersMove DEF Descriptors!Parsing
  <2> QED
    BY <2>3, <2>4, <2>5
<1>10. CASE Descriptors!Endpoint
  <2> DEFINE a == [Descriptors!Alt EXCEPT !.filled = @ + 1]
             v == [Descriptors!Alts EXCEPT ![Len(Descriptors!Alts)] = a]
  <2>1. /\ where = "endpoint" /\ Descriptors!Is("endpoint") /\ ifs' = Descriptors!WithAlt(a)
        /\ where' = "epextra" /\ Descriptors!Consume /\ UNCHANGED <<expected, caps, reported, torn>>
    BY <1>10 DEF Descriptors!Endpoint
  <2>2. where \in Descriptors!Parsing /\ Descriptors!Alt \in Descriptors!AltRecords
        /\ Descriptors!Alt.filled < Descriptors!Alt.eps
    BY <1>0, <1>p, <2>1 DEF Descriptors!ConfigInv, Descriptors!Parsing
  <2>3. a \in Descriptors!AltRecords /\ a.num = Descriptors!Alt.num /\ a.filled <= a.eps
    BY <2>2 DEF Descriptors!AltRecords
  <2> HIDE DEF a
  <2>4. /\ v \in Seq(Descriptors!AltRecords) /\ v # <<>> /\ Descriptors!Uniform(v)
        /\ Descriptors!Filled(v, Len(v) - 1) /\ v[Len(v)] = a
        /\ Descriptors!WithAlt(a) = [ifs EXCEPT ![Len(ifs)] = v]
    BY <2>1, <2>3, AltReplaced
  <2> HIDE DEF v
  <2> QED
    BY <1>0, <2>1, <2>2, <2>3, <2>4, AltsChange
<1>11. CASE Descriptors!NoEndpoint
  <2> DEFINE a == [Descriptors!Alt EXCEPT !.eps = Descriptors!Alt.filled]
             v == [Descriptors!Alts EXCEPT ![Len(Descriptors!Alts)] = a]
  <2>1. /\ where = "endpoint" /\ ifs' = Descriptors!WithAlt(a)
        /\ where' = "interface" /\ Descriptors!Stay /\ UNCHANGED <<expected, caps, reported, torn>>
    BY <1>11 DEF Descriptors!NoEndpoint, Descriptors!Cut
  <2>2. where \in Descriptors!Parsing /\ Descriptors!Alt \in Descriptors!AltRecords
    BY <1>0, <1>p, <2>1 DEF Descriptors!ConfigInv, Descriptors!Parsing
  <2>3. a \in Descriptors!AltRecords /\ a.num = Descriptors!Alt.num /\ a.filled = a.eps
    BY <2>2 DEF Descriptors!AltRecords
  <2> HIDE DEF a
  <2>4. /\ v \in Seq(Descriptors!AltRecords) /\ v # <<>> /\ Descriptors!Uniform(v)
        /\ Descriptors!Filled(v, Len(v)) /\ v[Len(v)] = a
        /\ Descriptors!WithAlt(a) = [ifs EXCEPT ![Len(ifs)] = v]
    BY <2>1, <2>3, AltReplaced
  <2> HIDE DEF v
  <2> QED
    BY <1>0, <2>1, <2>2, <2>4, AltsChange
<1>12. CASE Descriptors!EndpointExtra
  BY <1>0, <1>12, ParsersMove
     DEF Descriptors!EndpointExtra, Descriptors!ConfigInv, Descriptors!Parsing
<1>13. CASE Descriptors!EndpointNext
  <2> DEFINE s == Descriptors!Alts
  <2>1. /\ where = "epextra" /\ Descriptors!Stay /\ UNCHANGED <<expected, ifs, caps, reported, torn>>
        /\ where' = IF Descriptors!Alt.filled = Descriptors!Alt.eps THEN "interface" ELSE "endpoint"
    BY <1>13 DEF Descriptors!EndpointNext, Descriptors!AfterEndpoint
  <2>2. /\ where \in Descriptors!Parsing /\ s # <<>> /\ Descriptors!Alt.filled <= Descriptors!Alt.eps
        /\ Descriptors!Filled(s, Len(s) - 1)
    BY <1>0, <2>1 DEF Descriptors!ConfigInv, Descriptors!Parsing
  <2>3. /\ s \in Seq(Descriptors!AltRecords) /\ Len(s) \in Nat /\ Descriptors!Alt = s[Len(s)]
        /\ Descriptors!Alt.eps \in Nat /\ Descriptors!Alt.filled \in Nat
    BY <1>p, <2>2 DEF Descriptors!Alt, Descriptors!AltRecords
  <2>4. CASE Descriptors!Alt.filled # Descriptors!Alt.eps
    <3>1. Descriptors!Alt.filled < Descriptors!Alt.eps
      BY <2>2, <2>3, <2>4
    <3> QED
      BY <1>0, <2>1, <2>2, <2>4, <3>1, ParsersMove DEF Descriptors!Parsing
  <2>5. CASE Descriptors!Alt.filled = Descriptors!Alt.eps
    <3>1. \A j \in 1..Len(s) : j = Len(s) \/ j \in 1..Len(s) - 1
      BY <2>3
    <3>2. s[Len(s)].filled = s[Len(s)].eps
      BY <2>3, <2>5
    <3>3. Descriptors!Filled(s, Len(s))
      <4> HIDE DEF s
      <4> QED
        BY <2>2, <3>1, <3>2 DEF Descriptors!Filled
    <3>4. where' = "interface"
      BY <2>1, <2>5
    <3> QED
      BY <1>0, <2>1, <2>2, <3>3, <3>4, ParsersMove DEF Descriptors!Parsing
  <2> QED
    BY <2>4, <2>5
<1>14. CASE Descriptors!ParseFails
  BY <1>14, ParserFails DEF Descriptors!ParseFails
<1>15. CASE Descriptors!OutOfMemory
  BY <1>15, ParserFails DEF Descriptors!OutOfMemory
<1>16. CASE Descriptors!StartBos
  <2>1. /\ where = "idle" /\ expected' \in 0..MaxIfs /\ where' = "cap" /\ Descriptors!Consume
        /\ UNCHANGED <<ifs, caps, reported, torn>> /\ ifs = <<>> /\ seen = 0 /\ caps = 0 /\ reported = 0
    BY <1>0, <1>16 DEF Descriptors!StartBos, Descriptors!OtherInv
  <2>2. Len(ifs) = 0
    BY <2>1
  <2>3. Descriptors!TypeOK' /\ Descriptors!ParseTypeInv'
    BY <1>0, <2>1, <2>2, DescsAssumption DEF Descriptors!TypeOK, Descriptors!ParseTypeInv
  <2> QED
    BY <2>1, <2>3 DEF Descriptors!IndInv, Descriptors!ConfigInv, Descriptors!OtherInv,
                      Descriptors!CountsAreFilled, Descriptors!Parsing
<1>17. CASE Descriptors!Capability
  <2>1. /\ where = "cap" /\ caps < expected /\ Descriptors!Is("capability") /\ caps' = caps + 1
        /\ Descriptors!Consume /\ UNCHANGED <<where, expected, ifs, reported, torn>>
    BY <1>17 DEF Descriptors!Capability
  <2>2. look # Descriptors!Desc("end")
    BY <2>1, NotTheEnd
  <2>3. Descriptors!TypeOK' /\ Descriptors!ParseTypeInv'
    BY <1>0, <2>1, <2>2, DescsAssumption DEF Descriptors!TypeOK, Descriptors!ParseTypeInv
  <2> QED
    BY <1>0, <2>1, <2>3 DEF Descriptors!IndInv, Descriptors!ConfigInv, Descriptors!OtherInv,
                            Descriptors!CountsAreFilled, Descriptors!Parsing
<1>18. CASE Descriptors!BosDone
  <2>1. /\ where = "cap" /\ where' = "done" /\ reported' = caps /\ Descriptors!Stay
        /\ UNCHANGED <<expected, ifs, caps, torn>> /\ ifs = <<>>
    BY <1>0, <1>18 DEF Descriptors!BosDone, Descriptors!Finished, Descriptors!CapsRead,
                       Descriptors!OtherInv
  <2>2. Len(ifs) = 0 /\ caps \in Nat
    BY <1>0, <2>1 DEF Descriptors!ParseTypeInv
  <2>3. Descriptors!TypeOK' /\ Descriptors!ParseTypeInv'
    BY <1>0, <2>1, <2>2, DescsAssumption DEF Descriptors!TypeOK, Descriptors!ParseTypeInv
  <2> QED
    BY <2>1, <2>2, <2>3 DEF Descriptors!IndInv, Descriptors!ConfigInv, Descriptors!OtherInv,
                            Descriptors!CountsAreFilled, Descriptors!Parsing
<1>19. CASE Descriptors!BosFails
  BY <1>19, ParserFails DEF Descriptors!BosFails
<1>20. CASE Descriptors!Free
  <2>1. Descriptors!Init'
    BY <1>20 DEF Descriptors!Free, Descriptors!Init
  <2>2. Descriptors!Desc("end") \in Descriptors!Descs /\ Len(<<>>) = 0
    BY DEF Descriptors!Descs
  <2>3. /\ where' = "idle" /\ look' = Descriptors!Desc("end") /\ seen' = 0 /\ expected' = 0
        /\ ifs' \in Seq(Descriptors!AltSeqs) /\ Len(ifs') = 0 /\ caps' = 0 /\ reported' = 0
        /\ torn' = FALSE
    BY <2>1, <2>2, EmptySeq DEF Descriptors!Init
  <2>4. Descriptors!TypeOK' /\ Descriptors!ParseTypeInv'
    <3>1. Descriptors!TypeOK'
      BY <2>2, <2>3, DescsAssumption DEF Descriptors!TypeOK
    <3>2. Descriptors!ParseTypeInv'
      BY <2>3, DescsAssumption DEF Descriptors!ParseTypeInv
    <3> QED
      BY <3>1, <3>2
  <2> QED
    BY <2>1, <2>4 DEF Descriptors!Init, Descriptors!IndInv, Descriptors!ConfigInv,
          Descriptors!OtherInv, Descriptors!CountsAreFilled, Descriptors!Parsing
<1> QED
  BY <1>1, <1>2, <1>3, <1>4, <1>5, <1>6, <1>7, <1>8, <1>9, <1>10, <1>11, <1>12, <1>13, <1>14,
     <1>15, <1>16, <1>17, <1>18, <1>19, <1>20 DEF Descriptors!Next

\* Whatever a device sends, and whatever allocation fails, a parsed descriptor has
\* something behind every index it counts (descriptor.c parse_configuration,
\* parse_bos).
THEOREM DescriptorsSafe == Spec => []CountsAreFilled
<1> DEFINE I == part = "descriptors" => Descriptors!IndInv
<1>1. Init => I
  BY DescriptorsInit DEF Init
<1>2. I /\ [Next]_all => I'
  <2> SUFFICES ASSUME I, [Next]_all, part' = "descriptors" PROVE Descriptors!IndInv'
    OBVIOUS
  <2>1. part = "descriptors"
    BY PartSteps
  <2>2. CASE Descriptors!Next
    BY <2>1, <2>2, DescriptorsStep
  <2>3. CASE UNCHANGED parseVars
    <3>1. Descriptors!Alts' = Descriptors!Alts /\ Descriptors!Alt' = Descriptors!Alt
      BY <2>3 DEF parseVars, Descriptors!Alts, Descriptors!Alt
    <3> QED
      BY <2>1, <2>3, <3>1
         DEF parseVars, Descriptors!IndInv, Descriptors!TypeOK, Descriptors!ParseTypeInv,
             Descriptors!ConfigInv, Descriptors!OtherInv, Descriptors!CountsAreFilled,
             Descriptors!Filled, Descriptors!Uniform
  <2> QED
    BY <2>1, <2>2, <2>3, PartSteps
<1>3. I => CountsAreFilled
  BY DEF CountsAreFilled, Descriptors!IndInv
<1> QED
  BY <1>1, <1>2, <1>3, PTL DEF Spec, Steps

-----------------------------------------------------------------------------
(* Contexts.                                                               *)

\* Locks, places in a call and what was given stay together.
LEMMA ContextPlaces ==
  ASSUME Context!IndInv, Context!Next
  PROVE  Context!PlaceInv'
<1> USE CallersAssumption DEF
      Context!IndInv, Context!TypeOK, Context!PlaceInv, Context!Initialising,
      Context!Exiting, Context!Ctxs, Context!None
<1>1. CASE Context!KernelMessage
  BY <1>1 DEF Context!KernelMessage
<1>2. ASSUME NEW c \in Context!Ctxs, Context!WalkContext(c) PROVE Context!PlaceInv'
  BY <1>2 DEF Context!WalkContext
<1>3. CASE Context!MonitorEnds
  BY <1>3 DEF Context!MonitorEnds
<1>4. ASSUME NEW t \in Callers, Context!ShareDefault(t) PROVE Context!PlaceInv'
  BY <1>4 DEF Context!ShareDefault
<1>5. ASSUME NEW t \in Callers, NEW own \in BOOLEAN, Context!Allocate(t, own) PROVE Context!PlaceInv'
  BY <1>5 DEF Context!Allocate, Context!Goto
<1>6. ASSUME NEW t \in Callers, Context!ListContext(t) PROVE Context!PlaceInv'
  BY <1>6 DEF Context!ListContext, Context!Goto
<1>7. ASSUME NEW t \in Callers, Context!BackendMissing(t) PROVE Context!PlaceInv'
  BY <1>7 DEF Context!BackendMissing, Context!Goto
<1>8. ASSUME NEW t \in Callers, NEW ok \in BOOLEAN, Context!StartMonitor(t, ok) PROVE Context!PlaceInv'
  BY <1>8 DEF Context!StartMonitor, Context!Goto
<1>9. ASSUME NEW t \in Callers, NEW ok \in BOOLEAN, Context!ScanDevices(t, ok) PROVE Context!PlaceInv'
  BY <1>9 DEF Context!ScanDevices, Context!Goto
<1>10. ASSUME NEW t \in Callers, NEW ok \in BOOLEAN, Context!IoInit(t, ok) PROVE Context!PlaceInv'
  BY <1>10 DEF Context!IoInit, Context!Goto
<1>11. ASSUME NEW t \in Callers, Context!Clean(t) PROVE Context!PlaceInv'
  BY <1>11 DEF Context!Clean, Context!Goto
<1>12. ASSUME NEW t \in Callers, Context!Exit(t) PROVE Context!PlaceInv'
  BY <1>12 DEF Context!Exit, Context!LastUser, Context!Goto
<1>13. ASSUME NEW t \in Callers, Context!Unlist(t) PROVE Context!PlaceInv'
  BY <1>13 DEF Context!Unlist, Context!ActiveLockFree, Context!Goto
<1>14. ASSUME NEW t \in Callers, Context!OpExit(t) PROVE Context!PlaceInv'
  BY <1>14 DEF Context!OpExit, Context!Goto
<1>15. ASSUME NEW t \in Callers, Context!JoinMonitor(t) PROVE Context!PlaceInv'
  BY <1>15 DEF Context!JoinMonitor, Context!Goto
<1>16. ASSUME NEW t \in Callers, Context!FreeContext(t) PROVE Context!PlaceInv'
  BY <1>16 DEF Context!FreeContext, Context!Goto
<1> QED
  BY <1>1, <1>2, <1>3, <1>4, <1>5, <1>6, <1>7, <1>8, <1>9, <1>10, <1>11, <1>12, <1>13, <1>14,
     <1>15, <1>16
     DEF Context!Next, Context!MonitorStep, Context!CallStep

\* The type invariant without init_count
ContextTyped ==
  /\ listed \subseteq alive /\ alive \subseteq 1..allocated
  /\ defaultCtx \in alive \union {Context!None} /\ monitor \in {"off", "polling", "walking"}
  /\ defaultRefcnt \in Nat
  /\ \A t \in Callers : mine[t] \in alive \union {Context!None}

\* Who is the last user of a context that libusb_exit destroys, is its only one.
LEMMA LastUserAlone ==
  ASSUME Context!IndInv, defaultRefcnt = 1, NEW t \in Context!DefaultUsers
  PROVE  Context!DefaultUsers = {t}
<1>1. IsFiniteSet(Context!DefaultUsers)
  BY CallersAssumption, FS_Subset DEF Context!DefaultUsers
<1>2. Cardinality(Context!DefaultUsers) <= 1
  BY DEF Context!IndInv, Context!RefcntInv, Context!Cardinality, Cardinality,
         Context!IsFiniteSet, IsFiniteSet
<1>3. Cardinality(Context!DefaultUsers \ {t}) = Cardinality(Context!DefaultUsers) - 1
  BY <1>1, FS_RemoveElement
<1>4. IsFiniteSet(Context!DefaultUsers \ {t}) /\ Cardinality(Context!DefaultUsers \ {t}) \in Nat
      /\ Cardinality(Context!DefaultUsers) \in Nat
  BY <1>1, FS_Subset, FS_CardinalityType
<1>5. Cardinality(Context!DefaultUsers \ {t}) = 0
  BY <1>2, <1>3, <1>4
<1> QED
  BY <1>4, <1>5, FS_EmptySet

\* Nothing is listed, used or taken for the default that was freed.
LEMMA ContextTypes ==
  ASSUME Context!IndInv, Context!Next
  PROVE  ContextTyped'
<1> USE CallersAssumption DEF
      ContextTyped, Context!IndInv, Context!TypeOK, Context!PlaceInv, Context!MineInv,
      Context!DefaultInv, Context!Initialising, Context!Exiting, Context!Ctxs,
      Context!None
<1>1. CASE Context!KernelMessage
  BY <1>1 DEF Context!KernelMessage
<1>2. ASSUME NEW c \in Context!Ctxs, Context!WalkContext(c) PROVE ContextTyped'
  BY <1>2 DEF Context!WalkContext
<1>3. CASE Context!MonitorEnds
  BY <1>3 DEF Context!MonitorEnds
<1>4. ASSUME NEW t \in Callers, Context!ShareDefault(t) PROVE ContextTyped'
  BY <1>4 DEF Context!ShareDefault
<1>5. ASSUME NEW t \in Callers, NEW own \in BOOLEAN, Context!Allocate(t, own) PROVE ContextTyped'
  BY <1>5 DEF Context!Allocate, Context!Goto
<1>6. ASSUME NEW t \in Callers, Context!ListContext(t) PROVE ContextTyped'
  <2>1. mine[t] \in alive
    BY <1>6 DEF Context!ListContext
  <2> QED
    BY <1>6, <2>1, ZenonT(30) DEF Context!ListContext
<1>7. ASSUME NEW t \in Callers, Context!BackendMissing(t) PROVE ContextTyped'
  BY <1>7 DEF Context!BackendMissing, Context!Goto
<1>8. ASSUME NEW t \in Callers, NEW ok \in BOOLEAN, Context!StartMonitor(t, ok) PROVE ContextTyped'
  BY <1>8 DEF Context!StartMonitor, Context!Goto
<1>9. ASSUME NEW t \in Callers, NEW ok \in BOOLEAN, Context!ScanDevices(t, ok) PROVE ContextTyped'
  BY <1>9 DEF Context!ScanDevices, Context!Goto
<1>10. ASSUME NEW t \in Callers, NEW ok \in BOOLEAN, Context!IoInit(t, ok) PROVE ContextTyped'
  BY <1>10 DEF Context!IoInit, Context!Goto
<1>11. ASSUME NEW t \in Callers, Context!Clean(t) PROVE ContextTyped'
  BY <1>11, ZenonT(30) DEF Context!Clean, Context!Goto
<1>12. ASSUME NEW t \in Callers, Context!Exit(t) PROVE ContextTyped'
  BY <1>12 DEF Context!Exit, Context!LastUser, Context!Goto
<1>13. ASSUME NEW t \in Callers, Context!Unlist(t) PROVE ContextTyped'
  BY <1>13 DEF Context!Unlist, Context!ActiveLockFree, Context!Goto
<1>14. ASSUME NEW t \in Callers, Context!OpExit(t) PROVE ContextTyped'
  BY <1>14 DEF Context!OpExit, Context!Goto
<1>15. ASSUME NEW t \in Callers, Context!JoinMonitor(t) PROVE ContextTyped'
  BY <1>15 DEF Context!JoinMonitor, Context!Goto
<1>16. ASSUME NEW t \in Callers, Context!FreeContext(t) PROVE ContextTyped'
  BY <1>16, ZenonT(30) DEF Context!FreeContext, Context!Goto
<1> QED
  BY <1>1, <1>2, <1>3, <1>4, <1>5, <1>6, <1>7, <1>8, <1>9, <1>10, <1>11, <1>12, <1>13, <1>14,
     <1>15, <1>16
     DEF Context!Next, Context!MonitorStep, Context!CallStep

\* Calls work on different contexts, which are in the list while they are in use.
LEMMA ContextMine ==
  ASSUME Context!IndInv, Context!Next
  PROVE  Context!MineInv'
<1> USE CallersAssumption DEF
      Context!IndInv, Context!TypeOK, Context!PlaceInv, Context!MineInv,
      Context!DefaultInv, Context!Initialising, Context!Exiting, Context!Ctxs,
      Context!None
<1>1. CASE Context!KernelMessage
  BY <1>1 DEF Context!KernelMessage
<1>2. ASSUME NEW c \in Context!Ctxs, Context!WalkContext(c) PROVE Context!MineInv'
  BY <1>2 DEF Context!WalkContext
<1>3. CASE Context!MonitorEnds
  BY <1>3 DEF Context!MonitorEnds
<1>4. ASSUME NEW t \in Callers, Context!ShareDefault(t) PROVE Context!MineInv'
  BY <1>4 DEF Context!ShareDefault
<1>5. ASSUME NEW t \in Callers, NEW own \in BOOLEAN, Context!Allocate(t, own) PROVE Context!MineInv'
  BY <1>5 DEF Context!Allocate, Context!Goto
<1>6. ASSUME NEW t \in Callers, Context!ListContext(t) PROVE Context!MineInv'
  BY <1>6 DEF Context!ListContext, Context!Goto
<1>7. ASSUME NEW t \in Callers, Context!BackendMissing(t) PROVE Context!MineInv'
  BY <1>7 DEF Context!BackendMissing, Context!Goto
<1>8. ASSUME NEW t \in Callers, NEW ok \in BOOLEAN, Context!StartMonitor(t, ok) PROVE Context!MineInv'
  BY <1>8 DEF Context!StartMonitor, Context!Goto
<1>9. ASSUME NEW t \in Callers, NEW ok \in BOOLEAN, Context!ScanDevices(t, ok) PROVE Context!MineInv'
  BY <1>9 DEF Context!ScanDevices, Context!Goto
<1>10. ASSUME NEW t \in Callers, NEW ok \in BOOLEAN, Context!IoInit(t, ok) PROVE Context!MineInv'
  BY <1>10 DEF Context!IoInit, Context!Goto
<1>11. ASSUME NEW t \in Callers, Context!Clean(t) PROVE Context!MineInv'
  BY <1>11 DEF Context!Clean, Context!Goto
<1>12. ASSUME NEW t \in Callers, Context!Exit(t) PROVE Context!MineInv'
  <2> DEFINE c == IF holds[t] = "default" THEN defaultCtx ELSE mine[t]
  <2>1. /\ pc[t] = "idle" /\ holds[t] # "nothing" /\ c \in Context!Ctxs
        /\ holds' = [holds EXCEPT ![t] = "nothing"]
        /\ UNCHANGED <<alive, listed, walk, defaultLock>>
    BY <1>12 DEF Context!Exit
  <2>2. CASE Context!LastUser(c)
    <3>1. /\ mine' = [mine EXCEPT ![t] = c] /\ pc' = [pc EXCEPT ![t] = "unlist"]
          /\ defaultCtx' = IF c = defaultCtx THEN 0 ELSE defaultCtx
      BY <1>12, <2>2 DEF Context!Exit, Context!Goto
    <3>2. \A u \in Callers : u # t => mine[u] # c
      <4>1. CASE c = defaultCtx
        <5>1. t \in Context!DefaultUsers
          BY <2>1, <4>1 DEF Context!DefaultUsers
        <5>2. Context!DefaultUsers = {t}
          BY <2>1, <2>2, <4>1, <5>1, LastUserAlone DEF Context!LastUser
        <5> QED
          BY <2>1, <4>1, <5>2 DEF Context!DefaultUsers
      <4>2. CASE c # defaultCtx
        BY <2>1, <4>2
      <4> QED
        BY <4>1, <4>2
    <3>3. mine[t] = 0 \/ mine[t] = c
      BY <2>1
    <3> HIDE DEF c
    <3>4. \A u \in Callers : u # t => mine'[u] = mine[u] /\ pc'[u] = pc[u] /\ holds'[u] = holds[u]
      BY <2>1, <3>1
    <3>5. mine'[t] = c /\ pc'[t] = "unlist" /\ holds'[t] = "nothing"
      BY <2>1, <3>1
    <3>6. \A d \in alive' : d = defaultCtx' \/ \E u \in Callers : d = mine'[u]
      BY <2>1, <3>1, <3>2, <3>3, <3>4, <3>5
    <3>7. \A u, w \in Callers : u # w /\ mine'[u] = mine'[w] => mine'[u] = 0
      BY <3>2, <3>4, <3>5
    <3> QED
      BY <2>1, <3>4, <3>5, <3>6, <3>7
  <2>3. CASE ~Context!LastUser(c)
    <3>1. /\ mine' = [mine EXCEPT ![t] = 0] /\ pc' = [pc EXCEPT ![t] = "idle"]
          /\ defaultCtx' = defaultCtx /\ c = defaultCtx
      BY <1>12, <2>3 DEF Context!Exit, Context!Goto, Context!LastUser
    <3>2. mine[t] = 0 \/ mine[t] = defaultCtx
      BY <2>1, <3>1
    <3> HIDE DEF c
    <3> QED
      BY <2>1, <3>1, <3>2
  <2> QED
    BY <2>2, <2>3
<1>13. ASSUME NEW t \in Callers, Context!Unlist(t) PROVE Context!MineInv'
  BY <1>13 DEF Context!Unlist, Context!ActiveLockFree, Context!Goto
<1>14. ASSUME NEW t \in Callers, Context!OpExit(t) PROVE Context!MineInv'
  BY <1>14 DEF Context!OpExit, Context!Goto
<1>15. ASSUME NEW t \in Callers, Context!JoinMonitor(t) PROVE Context!MineInv'
  BY <1>15 DEF Context!JoinMonitor, Context!Goto
<1>16. ASSUME NEW t \in Callers, Context!FreeContext(t) PROVE Context!MineInv'
  BY <1>16 DEF Context!FreeContext, Context!Goto
<1> QED
  BY <1>1, <1>2, <1>3, <1>4, <1>5, <1>6, <1>7, <1>8, <1>9, <1>10, <1>11, <1>12, <1>13, <1>14,
     <1>15, <1>16
     DEF Context!Next, Context!MonitorStep, Context!CallStep

\* The default context is there for those who share it.
LEMMA ContextDefault ==
  ASSUME Context!IndInv, Context!Next
  PROVE  Context!DefaultInv'
<1> USE CallersAssumption DEF
      Context!IndInv, Context!TypeOK, Context!PlaceInv, Context!MineInv,
      Context!DefaultInv, Context!Initialising, Context!Exiting, Context!Ctxs,
      Context!None
<1>1. CASE Context!KernelMessage
  BY <1>1 DEF Context!KernelMessage
<1>2. ASSUME NEW c \in Context!Ctxs, Context!WalkContext(c) PROVE Context!DefaultInv'
  BY <1>2 DEF Context!WalkContext
<1>3. CASE Context!MonitorEnds
  BY <1>3 DEF Context!MonitorEnds
<1>4. ASSUME NEW t \in Callers, Context!ShareDefault(t) PROVE Context!DefaultInv'
  BY <1>4 DEF Context!ShareDefault
<1>5. ASSUME NEW t \in Callers, NEW own \in BOOLEAN, Context!Allocate(t, own) PROVE Context!DefaultInv'
  BY <1>5 DEF Context!Allocate, Context!Goto
<1>6. ASSUME NEW t \in Callers, Context!ListContext(t) PROVE Context!DefaultInv'
  BY <1>6 DEF Context!ListContext, Context!Goto
<1>7. ASSUME NEW t \in Callers, Context!BackendMissing(t) PROVE Context!DefaultInv'
  BY <1>7 DEF Context!BackendMissing, Context!Goto
<1>8. ASSUME NEW t \in Callers, NEW ok \in BOOLEAN, Context!StartMonitor(t, ok) PROVE Context!DefaultInv'
  BY <1>8 DEF Context!StartMonitor, Context!Goto
<1>9. ASSUME NEW t \in Callers, NEW ok \in BOOLEAN, Context!ScanDevices(t, ok) PROVE Context!DefaultInv'
  BY <1>9 DEF Context!ScanDevices, Context!Goto
<1>10. ASSUME NEW t \in Callers, NEW ok \in BOOLEAN, Context!IoInit(t, ok) PROVE Context!DefaultInv'
  BY <1>10 DEF Context!IoInit, Context!Goto
<1>11. ASSUME NEW t \in Callers, Context!Clean(t) PROVE Context!DefaultInv'
  BY <1>11 DEF Context!Clean, Context!Goto
<1>12. ASSUME NEW t \in Callers, Context!Exit(t) PROVE Context!DefaultInv'
  <2> DEFINE c == IF holds[t] = "default" THEN defaultCtx ELSE mine[t]
  <2>1. /\ pc[t] = "idle" /\ holds[t] # "nothing" /\ c \in Context!Ctxs
        /\ holds' = [holds EXCEPT ![t] = "nothing"]
        /\ UNCHANGED <<alive, listed, walk, defaultLock>> /\ defaultLock = "free"
        /\ defaultRefcnt' = IF c = defaultCtx THEN defaultRefcnt - 1 ELSE defaultRefcnt
    BY <1>12 DEF Context!Exit
  <2>2. CASE Context!LastUser(c) /\ c = defaultCtx
    <3>1. mine' = [mine EXCEPT ![t] = c] /\ defaultCtx' = 0
      BY <1>12, <2>2 DEF Context!Exit, Context!Goto
    <3>2. t \in Context!DefaultUsers
      BY <2>1, <2>2 DEF Context!DefaultUsers
    <3>3. Context!DefaultUsers = {t}
      BY <2>1, <2>2, <3>2, LastUserAlone DEF Context!LastUser
    <3>4. \A u \in Callers : holds'[u] # "default"
      BY <2>1, <3>3 DEF Context!DefaultUsers
    <3> HIDE DEF c
    <3> QED
      BY <2>1, <3>1, <3>4
  <2>3. CASE c # defaultCtx
    <3>1. mine' = [mine EXCEPT ![t] = c] /\ defaultCtx' = defaultCtx
      BY <1>12, <2>3 DEF Context!Exit, Context!Goto, Context!LastUser
    <3> HIDE DEF c
    <3> QED
      BY <2>1, <2>3, <3>1
  <2>4. CASE ~Context!LastUser(c)
    <3>1. mine' = [mine EXCEPT ![t] = 0] /\ defaultCtx' = defaultCtx /\ c = defaultCtx
      BY <1>12, <2>4 DEF Context!Exit, Context!Goto, Context!LastUser
    <3>2. defaultRefcnt # 1
      BY <2>4 DEF Context!LastUser
    <3> HIDE DEF c
    <3> QED
      BY <2>1, <3>1, <3>2
  <2> QED
    BY <2>2, <2>3, <2>4
<1>13. ASSUME NEW t \in Callers, Context!Unlist(t) PROVE Context!DefaultInv'
  BY <1>13 DEF Context!Unlist, Context!ActiveLockFree, Context!Goto
<1>14. ASSUME NEW t \in Callers, Context!OpExit(t) PROVE Context!DefaultInv'
  BY <1>14 DEF Context!OpExit, Context!Goto
<1>15. ASSUME NEW t \in Callers, Context!JoinMonitor(t) PROVE Context!DefaultInv'
  BY <1>15 DEF Context!JoinMonitor, Context!Goto
<1>16. ASSUME NEW t \in Callers, Context!FreeContext(t) PROVE Context!DefaultInv'
  BY <1>16 DEF Context!FreeContext, Context!Goto
<1> QED
  BY <1>1, <1>2, <1>3, <1>4, <1>5, <1>6, <1>7, <1>8, <1>9, <1>10, <1>11, <1>12, <1>13, <1>14,
     <1>15, <1>16
     DEF Context!Next, Context!MonitorStep, Context!CallStep

LEMMA SameCardinality == \A S : Context!Cardinality(S) = Cardinality(S)
  BY DEF Context!Cardinality, Cardinality, Context!IsFiniteSet, IsFiniteSet

\* How the users of the default context and their number change together
LEMMA RefcntFollows ==
  ASSUME Context!IndInv, NEW t \in Callers, failed' \in BOOLEAN,
         \/ UNCHANGED <<Context!DefaultUsers, defaultRefcnt, failed>>
         \/ /\ t \notin Context!DefaultUsers /\ Context!DefaultUsers' = Context!DefaultUsers \cup {t}
            /\ defaultRefcnt' = defaultRefcnt + 1 /\ UNCHANGED failed
         \/ /\ t \in Context!DefaultUsers /\ Context!DefaultUsers' = Context!DefaultUsers \ {t}
            /\ defaultRefcnt' = defaultRefcnt - 1 /\ UNCHANGED failed
         \/ Context!DefaultUsers' \subseteq Context!DefaultUsers /\ UNCHANGED defaultRefcnt /\ failed'
  PROVE  Context!RefcntInv'
<1> DEFINE U == Context!DefaultUsers
           n == Cardinality(U)
           m == Cardinality(U')
<1>1. IsFiniteSet(U) /\ n \in Nat /\ defaultRefcnt \in Nat
  BY CallersAssumption, FS_Subset, FS_CardinalityType
     DEF Context!DefaultUsers, Context!IndInv, Context!TypeOK
<1>2. n <= defaultRefcnt /\ (~failed => n = defaultRefcnt)
  BY SameCardinality DEF Context!IndInv, Context!RefcntInv
<1>3. m <= defaultRefcnt' /\ (~failed' => m = defaultRefcnt')
  <2> HIDE DEF U
  <2>1. CASE U' = U /\ defaultRefcnt' = defaultRefcnt /\ failed' = failed
    BY <1>2, <2>1
  <2>2. CASE t \notin U /\ U' = U \cup {t} /\ defaultRefcnt' = defaultRefcnt + 1 /\ failed' = failed
    <3>1. m = n + 1
      BY <1>1, <2>2, FS_AddElement
    <3> HIDE DEF m, n
    <3> QED
      BY <1>1, <1>2, <2>2, <3>1
  <2>3. CASE t \in U /\ U' = U \ {t} /\ defaultRefcnt' = defaultRefcnt - 1 /\ failed' = failed
    <3>1. m = n - 1
      BY <1>1, <2>3, FS_RemoveElement
    <3> HIDE DEF m, n
    <3> QED
      BY <1>1, <1>2, <2>3, <3>1
  <2>4. CASE U' \subseteq U /\ defaultRefcnt' = defaultRefcnt /\ failed'
    <3>1. m <= n /\ m \in Nat
      BY <1>1, <2>4, FS_Subset, FS_CardinalityType
    <3> HIDE DEF m, n
    <3> QED
      BY <1>1, <1>2, <2>4, <3>1
  <2> QED
    BY <2>1, <2>2, <2>3, <2>4 DEF U
<1> QED
  BY <1>3, SameCardinality DEF Context!RefcntInv

\* default_context_refcnt follows its users.
LEMMA ContextRefcnt ==
  ASSUME Context!IndInv, Context!Next
  PROVE  Context!RefcntInv'
<1> USE CallersAssumption DEF
      Context!IndInv, Context!TypeOK, Context!PlaceInv, Context!MineInv,
      Context!DefaultInv, Context!Initialising, Context!Exiting, Context!Ctxs,
      Context!None
<1>1. CASE Context!KernelMessage
  <2>1. UNCHANGED <<Context!DefaultUsers, defaultRefcnt, failed>>
    BY <1>1 DEF Context!KernelMessage, Context!DefaultUsers
  <2> QED
    BY <2>1 DEF Context!IndInv, Context!RefcntInv
<1>2. ASSUME NEW c \in Context!Ctxs, Context!WalkContext(c) PROVE Context!RefcntInv'
  <2>1. UNCHANGED <<Context!DefaultUsers, defaultRefcnt, failed>>
    BY <1>2 DEF Context!WalkContext, Context!DefaultUsers
  <2> QED
    BY <2>1 DEF Context!IndInv, Context!RefcntInv
<1>3. CASE Context!MonitorEnds
  <2>1. UNCHANGED <<Context!DefaultUsers, defaultRefcnt, failed>>
    BY <1>3 DEF Context!MonitorEnds, Context!DefaultUsers
  <2> QED
    BY <2>1 DEF Context!IndInv, Context!RefcntInv
<1>4. ASSUME NEW t \in Callers, Context!ShareDefault(t) PROVE Context!RefcntInv'
  <2>1. /\ t \notin Context!DefaultUsers /\ Context!DefaultUsers' = Context!DefaultUsers \cup {t}
        /\ defaultRefcnt' = defaultRefcnt + 1 /\ failed' = failed /\ failed' \in BOOLEAN
    BY <1>4 DEF Context!ShareDefault, Context!DefaultUsers
  <2> QED
    BY <2>1, RefcntFollows
<1>5. ASSUME NEW t \in Callers, NEW own \in BOOLEAN, Context!Allocate(t, own) PROVE Context!RefcntInv'
  <2>1. failed' = failed /\ failed' \in BOOLEAN /\ t \notin Context!DefaultUsers
    BY <1>5 DEF Context!Allocate, Context!DefaultUsers
  <2>2. CASE defaultCtx = 0
    <3>1. /\ defaultRefcnt' = defaultRefcnt + 1 /\ defaultCtx' = allocated + 1 /\ mine'[t] = allocated + 1
          /\ holds'[t] \in {"own", "default"}
          /\ \A u \in Callers : u # t => mine'[u] = mine[u] /\ holds'[u] = holds[u]
      BY <1>5, <2>2 DEF Context!Allocate
    <3>2. \A u \in Callers : holds[u] # "default" /\ mine[u] # allocated + 1
      BY <2>2
    <3>3. \A u \in Callers : u \in Context!DefaultUsers' <=> u = t
      BY <3>1, <3>2 DEF Context!DefaultUsers
    <3>4. Context!DefaultUsers = {}
      BY <2>2 DEF Context!DefaultUsers
    <3>5. Context!DefaultUsers' = Context!DefaultUsers \cup {t}
      BY <3>3, <3>4 DEF Context!DefaultUsers
    <3> QED
      BY <2>1, <3>1, <3>5, RefcntFollows
  <2>3. CASE defaultCtx # 0
    <3>1. own /\ defaultRefcnt' = defaultRefcnt /\ defaultCtx' = defaultCtx
          /\ mine'[t] = allocated + 1 /\ holds'[t] = "own" /\ defaultCtx # allocated + 1
      BY <1>5, <2>3 DEF Context!Allocate
    <3>2. Context!DefaultUsers' = Context!DefaultUsers
      BY <1>5, <3>1 DEF Context!Allocate, Context!DefaultUsers
    <3> QED
      BY <2>1, <3>1, <3>2, RefcntFollows
  <2> QED
    BY <2>2, <2>3
<1>6. ASSUME NEW t \in Callers, Context!ListContext(t) PROVE Context!RefcntInv'
  <2>1. UNCHANGED <<Context!DefaultUsers, defaultRefcnt, failed>> /\ failed' \in BOOLEAN
    BY <1>6 DEF Context!ListContext, Context!Goto, Context!DefaultUsers
  <2> QED
    BY <2>1, RefcntFollows
<1>7. ASSUME NEW t \in Callers, Context!BackendMissing(t) PROVE Context!RefcntInv'
  <2>1. UNCHANGED <<Context!DefaultUsers, defaultRefcnt, failed>> /\ failed' \in BOOLEAN
    BY <1>7 DEF Context!BackendMissing, Context!Goto, Context!DefaultUsers
  <2> QED
    BY <2>1, RefcntFollows
<1>8. ASSUME NEW t \in Callers, NEW ok \in BOOLEAN, Context!StartMonitor(t, ok) PROVE Context!RefcntInv'
  <2>1. UNCHANGED <<Context!DefaultUsers, defaultRefcnt, failed>> /\ failed' \in BOOLEAN
    BY <1>8 DEF Context!StartMonitor, Context!Goto, Context!DefaultUsers
  <2> QED
    BY <2>1, RefcntFollows
<1>9. ASSUME NEW t \in Callers, NEW ok \in BOOLEAN, Context!ScanDevices(t, ok) PROVE Context!RefcntInv'
  <2>1. UNCHANGED <<Context!DefaultUsers, defaultRefcnt, failed>> /\ failed' \in BOOLEAN
    BY <1>9 DEF Context!ScanDevices, Context!Goto, Context!DefaultUsers
  <2> QED
    BY <2>1, RefcntFollows
<1>10. ASSUME NEW t \in Callers, NEW ok \in BOOLEAN, Context!IoInit(t, ok) PROVE Context!RefcntInv'
  <2>1. UNCHANGED <<Context!DefaultUsers, defaultRefcnt, failed>> /\ failed' \in BOOLEAN
    BY <1>10 DEF Context!IoInit, Context!Goto, Context!DefaultUsers
  <2> QED
    BY <2>1, RefcntFollows
<1>11. ASSUME NEW t \in Callers, Context!Clean(t) PROVE Context!RefcntInv'
  <2>1. failed' /\ failed' \in BOOLEAN /\ defaultRefcnt' = defaultRefcnt
        /\ Context!DefaultUsers' \subseteq Context!DefaultUsers
    BY <1>11 DEF Context!Clean, Context!DefaultUsers
  <2> QED
    BY <2>1, RefcntFollows
<1>12. ASSUME NEW t \in Callers, Context!Exit(t) PROVE Context!RefcntInv'
  <2> DEFINE c == IF holds[t] = "default" THEN defaultCtx ELSE mine[t]
  <2>1. /\ pc[t] = "idle" /\ holds[t] # "nothing" /\ c \in Context!Ctxs
        /\ holds' = [holds EXCEPT ![t] = "nothing"]
        /\ failed' = failed /\ failed' \in BOOLEAN
        /\ defaultRefcnt' = IF c = defaultCtx THEN defaultRefcnt - 1 ELSE defaultRefcnt
        /\ \A u \in Callers : u # t => mine'[u] = mine[u] /\ holds'[u] = holds[u]
    BY <1>12 DEF Context!Exit
  <2>2. CASE c = defaultCtx
    <3>1. t \in Context!DefaultUsers
      BY <2>1, <2>2 DEF Context!DefaultUsers
    <3>2. CASE defaultRefcnt = 1
      <4>1. Context!DefaultUsers = {t}
        BY <3>1, <3>2, LastUserAlone
      <4>2. \A u \in Callers : u # t /\ holds'[u] = "own" => mine'[u] # 0
        BY <2>1
      <4>3. defaultCtx' = 0
        BY <1>12, <2>2, <3>2 DEF Context!Exit, Context!LastUser
      <4>4. Context!DefaultUsers' = {}
        BY <2>1, <4>1, <4>2, <4>3 DEF Context!DefaultUsers
      <4> QED
        BY <2>1, <2>2, <3>1, <4>1, <4>4, RefcntFollows
    <3>3. CASE defaultRefcnt # 1
      <4>1. defaultCtx' = defaultCtx
        BY <1>12, <2>2, <3>3 DEF Context!Exit, Context!LastUser
      <4> HIDE DEF c
      <4>2. Context!DefaultUsers' = Context!DefaultUsers \ {t}
        BY <2>1, <4>1 DEF Context!DefaultUsers
      <4> QED
        BY <2>1, <2>2, <3>1, <4>2, RefcntFollows
    <3> QED
      BY <3>2, <3>3
  <2>3. CASE c # defaultCtx
    <3>1. defaultCtx' = defaultCtx /\ t \notin Context!DefaultUsers
      BY <1>12, <2>1, <2>3 DEF Context!Exit, Context!LastUser, Context!DefaultUsers
    <3> HIDE DEF c
    <3>2. Context!DefaultUsers' = Context!DefaultUsers
      BY <2>1, <3>1 DEF Context!DefaultUsers
    <3> QED
      BY <2>1, <2>3, <3>2, RefcntFollows
  <2> QED
    BY <2>2, <2>3
<1>13. ASSUME NEW t \in Callers, Context!Unlist(t) PROVE Context!RefcntInv'
  <2>1. UNCHANGED <<Context!DefaultUsers, defaultRefcnt, failed>> /\ failed' \in BOOLEAN
    BY <1>13 DEF Context!Unlist, Context!Goto, Context!DefaultUsers
  <2> QED
    BY <2>1, RefcntFollows
<1>14. ASSUME NEW t \in Callers, Context!OpExit(t) PROVE Context!RefcntInv'
  <2>1. UNCHANGED <<Context!DefaultUsers, defaultRefcnt, failed>> /\ failed' \in BOOLEAN
    BY <1>14 DEF Context!OpExit, Context!Goto, Context!DefaultUsers
  <2> QED
    BY <2>1, RefcntFollows
<1>15. ASSUME NEW t \in Callers, Context!JoinMonitor(t) PROVE Context!RefcntInv'
  <2>1. UNCHANGED <<Context!DefaultUsers, defaultRefcnt, failed>> /\ failed' \in BOOLEAN
    BY <1>15 DEF Context!JoinMonitor, Context!Goto, Context!DefaultUsers
  <2> QED
    BY <2>1, RefcntFollows
<1>16. ASSUME NEW t \in Callers, Context!FreeContext(t) PROVE Context!RefcntInv'
  <2>1. UNCHANGED <<Context!DefaultUsers, defaultRefcnt, failed>> /\ failed' \in BOOLEAN
    BY <1>16 DEF Context!FreeContext, Context!Goto, Context!DefaultUsers
  <2> QED
    BY <2>1, RefcntFollows
<1> QED
  BY <1>1, <1>2, <1>3, <1>4, <1>5, <1>6, <1>7, <1>8, <1>9, <1>10, <1>11, <1>12, <1>13, <1>14,
     <1>15, <1>16
     DEF Context!Next, Context!MonitorStep, Context!CallStep

\* init_count is within the contexts allocated, and a context on its way out of the
\* backend counts.
LEMMA Counts ==
  ASSUME ContextTyped, Context!PlaceInv, Context!CountInv
  PROVE  /\ IsFiniteSet(Context!Initialised) /\ initCount = Cardinality(Context!Initialised)
         /\ initCount \in 0..MaxCtxs
         /\ \A c \in Context!Initialised : initCount > 0
<1>1. Context!Initialised \subseteq 1..MaxCtxs
  <2>1. alive \subseteq 1..allocated /\ allocated \in 0..MaxCtxs
    BY DEF ContextTyped, Context!PlaceInv
  <2>2. 1..allocated \subseteq 1..MaxCtxs
    BY <2>1, CallersAssumption
  <2> QED
    BY <2>1, <2>2 DEF Context!Initialised
<1>2. IsFiniteSet(1..MaxCtxs) /\ Cardinality(1..MaxCtxs) = MaxCtxs
  BY CallersAssumption, FS_Interval
<1>3. IsFiniteSet(Context!Initialised) /\ Cardinality(Context!Initialised) <= MaxCtxs
  BY <1>1, <1>2, FS_Subset
<1>4. initCount = Cardinality(Context!Initialised) /\ initCount \in Nat
  BY <1>3, SameCardinality, FS_CardinalityType DEF Context!CountInv
<1>5. ASSUME NEW c \in Context!Initialised PROVE initCount # 0
  BY <1>3, <1>4, <1>5, FS_EmptySet
<1> QED
  BY <1>3, <1>4, <1>5, CallersAssumption

\* How the initialised contexts and init_count change together
LEMMA CountFollows ==
  ASSUME Context!IndInv, NEW c,
         \/ UNCHANGED <<Context!Initialised, initCount>>
         \/ /\ c \notin Context!Initialised /\ Context!Initialised' = Context!Initialised \cup {c}
            /\ initCount' = initCount + 1
         \/ /\ c \in Context!Initialised /\ Context!Initialised' = Context!Initialised \ {c}
            /\ initCount' = initCount - 1
  PROVE  Context!CountInv'
<1> DEFINE S == Context!Initialised
<1>1. IsFiniteSet(S) /\ initCount = Cardinality(S)
  BY Counts DEF Context!IndInv, Context!TypeOK, ContextTyped
<1> HIDE DEF S
<1>2. CASE S' = S /\ initCount' = initCount
  BY <1>1, <1>2, SameCardinality DEF Context!CountInv, S
<1>3. CASE c \notin S /\ S' = S \cup {c} /\ initCount' = initCount + 1
  <2>1. initCount' = Cardinality(S')
    BY <1>1, <1>3, FS_AddElement
  <2> QED
    BY <2>1, SameCardinality DEF Context!CountInv, S
<1>4. CASE c \in S /\ S' = S \ {c} /\ initCount' = initCount - 1
  <2>1. initCount' = Cardinality(S')
    BY <1>1, <1>4, FS_RemoveElement
  <2> QED
    BY <2>1, SameCardinality DEF Context!CountInv, S
<1> QED
  BY <1>2, <1>3, <1>4 DEF S

\* init_count follows the contexts whose backend is initialised.
LEMMA ContextCount ==
  ASSUME Context!IndInv, Context!Next
  PROVE  Context!CountInv'
<1> USE CallersAssumption DEF
      Context!IndInv, Context!TypeOK, Context!PlaceInv, Context!MineInv,
      Context!DefaultInv, Context!Initialising, Context!Exiting, Context!Ctxs,
      Context!None
<1>1. CASE Context!KernelMessage
  <2>1. Context!Initialised' = Context!Initialised /\ initCount' = initCount
    BY <1>1 DEF Context!KernelMessage, Context!Initialised, Context!Uncounted
  <2> QED
    BY <2>1, CountFollows
<1>2. ASSUME NEW c \in Context!Ctxs, Context!WalkContext(c) PROVE Context!CountInv'
  <2>1. Context!Initialised' = Context!Initialised /\ initCount' = initCount
    BY <1>2 DEF Context!WalkContext, Context!Initialised, Context!Uncounted
  <2> QED
    BY <2>1, CountFollows
<1>3. CASE Context!MonitorEnds
  <2>1. Context!Initialised' = Context!Initialised /\ initCount' = initCount
    BY <1>3 DEF Context!MonitorEnds, Context!Initialised, Context!Uncounted
  <2> QED
    BY <2>1, CountFollows
<1>4. ASSUME NEW t \in Callers, Context!ShareDefault(t) PROVE Context!CountInv'
  <2>1. Context!Initialised' = Context!Initialised /\ initCount' = initCount
    BY <1>4 DEF Context!ShareDefault, Context!Initialised, Context!Uncounted
  <2> QED
    BY <2>1, CountFollows
<1>5. ASSUME NEW t \in Callers, NEW own \in BOOLEAN, Context!Allocate(t, own) PROVE Context!CountInv'
  <2>1. /\ alive' = alive \cup {allocated + 1} /\ mine' = [mine EXCEPT ![t] = allocated + 1]
        /\ pc' = [pc EXCEPT ![t] = "list"] /\ pc[t] = "idle" /\ initCount' = initCount
    BY <1>5 DEF Context!Allocate, Context!Goto
  <2>2. allocated + 1 \notin alive
    OBVIOUS
  <2>3. Context!Uncounted' = Context!Uncounted \cup {t} /\ t \notin Context!Uncounted
    BY <2>1 DEF Context!Uncounted
  <2>4. mine'[t] = allocated + 1 /\ \A u \in Context!Uncounted : mine'[u] = mine[u]
    BY <2>1, <2>3 DEF Context!Uncounted
  <2>5. {mine'[u] : u \in Context!Uncounted \cup {t}} =
          {mine[u] : u \in Context!Uncounted} \cup {allocated + 1}
    BY <2>4
  <2>6. Context!Initialised' = Context!Initialised
    BY <2>1, <2>2, <2>3, <2>5 DEF Context!Initialised
  <2> QED
    BY <2>1, <2>6, CountFollows
<1>6. ASSUME NEW t \in Callers, Context!ListContext(t) PROVE Context!CountInv'
  <2>1. Context!Initialised' = Context!Initialised /\ initCount' = initCount
    BY <1>6 DEF Context!ListContext, Context!Goto, Context!Initialised, Context!Uncounted
  <2> QED
    BY <2>1, CountFollows
<1>7. ASSUME NEW t \in Callers, Context!BackendMissing(t) PROVE Context!CountInv'
  <2>1. Context!Initialised' = Context!Initialised /\ initCount' = initCount
    BY <1>7 DEF Context!BackendMissing, Context!Goto, Context!Initialised, Context!Uncounted
  <2> QED
    BY <2>1, CountFollows
<1>8. ASSUME NEW t \in Callers, NEW ok \in BOOLEAN, Context!StartMonitor(t, ok) PROVE Context!CountInv'
  <2>1. Context!Initialised' = Context!Initialised /\ initCount' = initCount
    BY <1>8 DEF Context!StartMonitor, Context!Goto, Context!Initialised, Context!Uncounted
  <2> QED
    BY <2>1, CountFollows
<1>9. ASSUME NEW t \in Callers, NEW ok \in BOOLEAN, Context!ScanDevices(t, ok) PROVE Context!CountInv'
  <2>1. CASE ok
    <3>1. pc[t] = "scan" /\ initCount' = initCount + 1 /\ pc' = [pc EXCEPT ![t] = "io"]
          /\ mine' = mine /\ alive' = alive
      BY <1>9, <2>1 DEF Context!ScanDevices, Context!Goto
    <3>2. /\ mine[t] \in alive /\ t \in Context!Uncounted
          /\ Context!Uncounted' = Context!Uncounted \ {t}
          /\ \A u \in Callers : u # t => mine[u] # mine[t]
      BY <3>1 DEF Context!Uncounted
    <3>3. mine[t] \notin Context!Initialised
      BY <3>2 DEF Context!Initialised
    <3>4. \A c : c \in {mine[u] : u \in Context!Uncounted} <=>
                 c = mine[t] \/ c \in {mine[u] : u \in Context!Uncounted \ {t}}
      BY <3>2
    <3>5. mine[t] \notin {mine[u] : u \in Context!Uncounted \ {t}}
      BY <3>2 DEF Context!Uncounted
    <3>6. Context!Initialised' = alive \ {mine[u] : u \in Context!Uncounted \ {t}}
      BY <3>1, <3>2 DEF Context!Initialised
    <3>7. Context!Initialised' = Context!Initialised \cup {mine[t]}
      BY <3>2, <3>4, <3>5, <3>6 DEF Context!Initialised
    <3> QED
      BY <3>1, <3>3, <3>7, CountFollows
  <2>2. CASE ~ok
    <3>1. /\ pc[t] = "scan" /\ initCount' = initCount /\ mine' = mine /\ alive' = alive
          /\ pc' = [pc EXCEPT ![t] = "join"] \/ pc' = [pc EXCEPT ![t] = "clean"]
      BY <1>9, <2>2 DEF Context!ScanDevices, Context!Goto
    <3>2. Context!Uncounted' = Context!Uncounted
      BY <3>1 DEF Context!Uncounted
    <3> QED
      BY <3>1, <3>2, CountFollows DEF Context!Initialised
  <2> QED
    BY <2>1, <2>2
<1>10. ASSUME NEW t \in Callers, NEW ok \in BOOLEAN, Context!IoInit(t, ok) PROVE Context!CountInv'
  <2>1. Context!Initialised' = Context!Initialised /\ initCount' = initCount
    BY <1>10 DEF Context!IoInit, Context!Goto, Context!Initialised, Context!Uncounted
  <2> QED
    BY <2>1, CountFollows
<1>11. ASSUME NEW t \in Callers, Context!Clean(t) PROVE Context!CountInv'
  <2>1. Context!Initialised' = Context!Initialised /\ initCount' = initCount
    BY <1>11 DEF Context!Clean, Context!Goto, Context!Initialised, Context!Uncounted
  <2> QED
    BY <2>1, CountFollows
<1>12. ASSUME NEW t \in Callers, Context!Exit(t) PROVE Context!CountInv'
  <2>1. Context!Initialised' = Context!Initialised /\ initCount' = initCount
    BY <1>12 DEF Context!Exit, Context!Goto, Context!Initialised, Context!Uncounted
  <2> QED
    BY <2>1, CountFollows
<1>13. ASSUME NEW t \in Callers, Context!Unlist(t) PROVE Context!CountInv'
  <2>1. Context!Initialised' = Context!Initialised /\ initCount' = initCount
    BY <1>13 DEF Context!Unlist, Context!Goto, Context!Initialised, Context!Uncounted
  <2> QED
    BY <2>1, CountFollows
<1>14. ASSUME NEW t \in Callers, Context!OpExit(t) PROVE Context!CountInv'
  <2>1. /\ pc[t] = "opexit" /\ initCount' = initCount - 1 /\ mine' = mine /\ alive' = alive
        /\ \E l \in {"join", "clean", "free"} : pc' = [pc EXCEPT ![t] = l]
    BY <1>14 DEF Context!OpExit, Context!Goto
  <2>2. /\ mine[t] \in alive /\ t \notin Context!Uncounted
        /\ Context!Uncounted' = Context!Uncounted \cup {t}
        /\ \A u \in Callers : u # t => mine[u] # mine[t]
    BY <2>1 DEF Context!Uncounted
  <2>3. mine[t] \in Context!Initialised /\ Context!Initialised' = Context!Initialised \ {mine[t]}
    BY <2>1, <2>2 DEF Context!Initialised, Context!Uncounted
  <2> QED
    BY <2>1, <2>3, CountFollows
<1>15. ASSUME NEW t \in Callers, Context!JoinMonitor(t) PROVE Context!CountInv'
  <2>1. Context!Initialised' = Context!Initialised /\ initCount' = initCount
    BY <1>15 DEF Context!JoinMonitor, Context!Goto, Context!Initialised, Context!Uncounted
  <2> QED
    BY <2>1, CountFollows
<1>16. ASSUME NEW t \in Callers, Context!FreeContext(t) PROVE Context!CountInv'
  <2>1. Context!Initialised' = Context!Initialised /\ initCount' = initCount
    BY <1>16 DEF Context!FreeContext, Context!Goto, Context!Initialised, Context!Uncounted
  <2> QED
    BY <2>1, CountFollows
<1> QED
  BY <1>1, <1>2, <1>3, <1>4, <1>5, <1>6, <1>7, <1>8, <1>9, <1>10, <1>11, <1>12, <1>13, <1>14,
     <1>15, <1>16
     DEF Context!Next, Context!MonitorStep, Context!CallStep

\* The same after a step
LEMMA CountsNext ==
  ASSUME ContextTyped', Context!PlaceInv', Context!CountInv'
  PROVE  initCount' \in 0..MaxCtxs
<1>1. Context!Initialised' \subseteq 1..MaxCtxs
  <2>1. alive' \subseteq 1..allocated' /\ allocated' \in 0..MaxCtxs
    BY DEF ContextTyped, Context!PlaceInv
  <2>2. 1..allocated' \subseteq 1..MaxCtxs
    BY <2>1, CallersAssumption
  <2> QED
    BY <2>1, <2>2 DEF Context!Initialised
<1>2. IsFiniteSet(1..MaxCtxs) /\ Cardinality(1..MaxCtxs) = MaxCtxs
  BY CallersAssumption, FS_Interval
<1>3. IsFiniteSet(Context!Initialised') /\ Cardinality(Context!Initialised') <= MaxCtxs
  BY <1>1, <1>2, FS_Subset
<1>4. initCount' = Cardinality(Context!Initialised') /\ initCount' \in Nat
  BY <1>3, SameCardinality, FS_CardinalityType DEF Context!CountInv
<1> QED
  BY <1>3, <1>4, CallersAssumption

\* The event thread runs while init_count is positive, but while it is started or
\* stopped.
LEMMA ContextMonitor ==
  ASSUME Context!IndInv, Context!Next
  PROVE  Context!MonitorInv'
<1> USE CallersAssumption DEF
      Context!IndInv, Context!TypeOK, Context!PlaceInv, Context!MineInv,
      Context!DefaultInv, Context!Initialising, Context!Exiting, Context!Ctxs,
      Context!None, Context!MonitorInv
<1>1. CASE Context!KernelMessage
  BY <1>1 DEF Context!KernelMessage
<1>2. ASSUME NEW c \in Context!Ctxs, Context!WalkContext(c) PROVE Context!MonitorInv'
  BY <1>2 DEF Context!WalkContext
<1>3. CASE Context!MonitorEnds
  BY <1>3 DEF Context!MonitorEnds
<1>4. ASSUME NEW t \in Callers, Context!ShareDefault(t) PROVE Context!MonitorInv'
  BY <1>4 DEF Context!ShareDefault
<1>5. ASSUME NEW t \in Callers, NEW own \in BOOLEAN, Context!Allocate(t, own) PROVE Context!MonitorInv'
  BY <1>5 DEF Context!Allocate, Context!Goto
<1>6. ASSUME NEW t \in Callers, Context!ListContext(t) PROVE Context!MonitorInv'
  BY <1>6 DEF Context!ListContext, Context!Goto
<1>7. ASSUME NEW t \in Callers, Context!BackendMissing(t) PROVE Context!MonitorInv'
  BY <1>7 DEF Context!BackendMissing, Context!Goto
<1>8. ASSUME NEW t \in Callers, NEW ok \in BOOLEAN, Context!StartMonitor(t, ok) PROVE Context!MonitorInv'
  BY <1>8 DEF Context!StartMonitor, Context!Goto
<1>9. ASSUME NEW t \in Callers, NEW ok \in BOOLEAN, Context!ScanDevices(t, ok) PROVE Context!MonitorInv'
  <2>1. pc[t] = "scan" /\ monitor # "off" /\ monitor # "walking" /\ startStopLock = t
        /\ UNCHANGED <<monitor, walk>>
    BY <1>9 DEF Context!ScanDevices
  <2>2. CASE ok
    BY <1>9, <2>1, <2>2 DEF Context!ScanDevices, Context!Goto
  <2>3. CASE ~ok /\ initCount = 0
    BY <1>9, <2>1, <2>3, ZenonT(30) DEF Context!ScanDevices, Context!Goto
  <2>4. CASE ~ok /\ initCount # 0
    BY <1>9, <2>1, <2>4 DEF Context!ScanDevices, Context!Goto
  <2> QED
    BY <2>2, <2>3, <2>4
<1>10. ASSUME NEW t \in Callers, NEW ok \in BOOLEAN, Context!IoInit(t, ok) PROVE Context!MonitorInv'
  BY <1>10 DEF Context!IoInit, Context!Goto
<1>11. ASSUME NEW t \in Callers, Context!Clean(t) PROVE Context!MonitorInv'
  BY <1>11 DEF Context!Clean, Context!Goto
<1>12. ASSUME NEW t \in Callers, Context!Exit(t) PROVE Context!MonitorInv'
  BY <1>12 DEF Context!Exit, Context!LastUser, Context!Goto
<1>13. ASSUME NEW t \in Callers, Context!Unlist(t) PROVE Context!MonitorInv'
  BY <1>13 DEF Context!Unlist, Context!ActiveLockFree, Context!Goto
<1>14. ASSUME NEW t \in Callers, Context!OpExit(t) PROVE Context!MonitorInv'
  <2>1. mine[t] \in Context!Initialised
    BY <1>14 DEF Context!OpExit, Context!Initialised, Context!Uncounted
  <2>2. initCount > 0
    BY <2>1, Counts DEF ContextTyped
  <2> QED
    BY <1>14, <2>2 DEF Context!OpExit, Context!Goto
<1>15. ASSUME NEW t \in Callers, Context!JoinMonitor(t) PROVE Context!MonitorInv'
  BY <1>15 DEF Context!JoinMonitor, Context!Goto
<1>16. ASSUME NEW t \in Callers, Context!FreeContext(t) PROVE Context!MonitorInv'
  BY <1>16 DEF Context!FreeContext, Context!Goto
<1> QED
  BY <1>1, <1>2, <1>3, <1>4, <1>5, <1>6, <1>7, <1>8, <1>9, <1>10, <1>11, <1>12, <1>13, <1>14,
     <1>15, <1>16
     DEF Context!Next, Context!MonitorStep, Context!CallStep

LEMMA ContextInit == Context!Init => Context!IndInv
<1> SUFFICES ASSUME Context!Init PROVE Context!IndInv
  OBVIOUS
<1>1. Context!TypeOK /\ Context!PlaceInv /\ Context!MineInv
  <2> USE CallersAssumption
      DEF Context!Init, Context!Initialising, Context!Exiting, Context!Ctxs, Context!None
  <2>1. Context!TypeOK
    BY DEF Context!TypeOK
  <2>2. Context!PlaceInv
    <3>1. /\ pc \in [Callers -> {"idle", "list", "init", "scan", "io", "clean", "unlist", "opexit",
                                "join", "free"}]
          /\ mine \in [Callers -> Context!Ctxs \union {Context!None}] /\ allocated \in 0..MaxCtxs
          /\ holds \in [Callers -> {"nothing", "own", "default"}]
      OBVIOUS
    <3>2. failed \in BOOLEAN /\ stopAsked \in BOOLEAN
      OBVIOUS
    <3>3. \A t \in Callers : pc[t] = "idle" /\ defaultLock # t /\ startStopLock # t
      OBVIOUS
    <3>4. defaultLock \in Callers \union {"free"} /\ startStopLock \in Callers \union {"free"}
      OBVIOUS
    <3> QED
      BY <3>1, <3>2, <3>3, <3>4 DEF Context!PlaceInv
  <2>3. Context!MineInv
    BY DEF Context!MineInv
  <2> QED
    BY <2>1, <2>2, <2>3
<1>2. Context!DefaultInv /\ Context!MonitorInv
  BY CallersAssumption DEF Context!Init, Context!DefaultInv, Context!MonitorInv,
       Context!Initialising, Context!None
<1>3. Context!DefaultUsers = {} /\ Context!Initialised = {}
  BY DEF Context!Init, Context!DefaultUsers, Context!Initialised, Context!None
<1>4. Context!RefcntInv /\ Context!CountInv
  BY <1>3, SameCardinality, FS_EmptySet DEF Context!Init, Context!RefcntInv, Context!CountInv
<1> QED
  BY <1>1, <1>2, <1>4 DEF Context!IndInv

LEMMA ContextStutter ==
  ASSUME Context!IndInv, UNCHANGED ctxVars
  PROVE  Context!IndInv'
<1>1. Context!TypeOK' /\ Context!PlaceInv' /\ Context!MineInv'
  BY DEF ctxVars, Context!IndInv, Context!TypeOK, Context!PlaceInv, Context!MineInv,
         Context!Initialising, Context!Exiting
<1>2. Context!DefaultInv' /\ Context!MonitorInv'
  BY DEF ctxVars, Context!IndInv, Context!DefaultInv, Context!MonitorInv, Context!Initialising
<1>3. Context!RefcntInv' /\ Context!CountInv'
  BY DEF ctxVars, Context!IndInv, Context!RefcntInv, Context!CountInv, Context!DefaultUsers,
         Context!Initialised, Context!Uncounted
<1> QED
  BY <1>1, <1>2, <1>3 DEF Context!IndInv

\* What the invariant says of the contexts in use
LEMMA ContextUses ==
  ASSUME Context!IndInv
  PROVE  Context!ContextsOutliveUse
<1> USE DEF Context!IndInv, Context!TypeOK, Context!PlaceInv, Context!MineInv, Context!DefaultInv,
            Context!Initialising, Context!Exiting, Context!Ctxs, Context!None
<1>1. ASSUME NEW t \in Callers, pc[t] = "idle", holds[t] # "nothing"
      PROVE  Context!Ready(t) \in alive /\ Context!Ready(t) \in listed
  <2>1. CASE holds[t] = "default"
    <3>1. defaultCtx \in listed
      BY <1>1, <2>1
    <3> QED
      BY <2>1, <3>1 DEF Context!Ready
  <2>2. CASE holds[t] = "own"
    BY <1>1, <2>2 DEF Context!Ready
  <2> QED
    BY <1>1, <2>1, <2>2
<1>2. walk \subseteq alive
  OBVIOUS
<1>3. startStopLock = "free" => ((monitor # "off") = (initCount > 0))
  BY DEF Context!MonitorInv
<1>4. ASSUME \A t \in Callers : pc[t] = "idle" /\ holds[t] = "nothing", ~failed
      PROVE  alive = {} /\ monitor = "off" /\ defaultRefcnt = 0
  <2>1. Context!DefaultUsers = {}
    BY <1>4 DEF Context!DefaultUsers
  <2>2. defaultRefcnt = 0
    BY <1>4, <2>1, SameCardinality, FS_EmptySet DEF Context!RefcntInv
  <2>3. alive = {}
    BY <1>4, <2>2
  <2>4. Context!Initialised = {}
    BY <2>3 DEF Context!Initialised
  <2>5. initCount = 0
    BY <2>4, SameCardinality, FS_EmptySet DEF Context!CountInv
  <2>6. startStopLock = "free"
    BY <1>4
  <2> QED
    BY <2>2, <2>3, <2>5, <2>6 DEF Context!MonitorInv
<1> QED
  BY <1>1, <1>2, <1>3, <1>4 DEF Context!ContextsOutliveUse

\* However the calls of libusb_init and libusb_exit interleave, and whichever of
\* their steps fails, a context lives as long as anyone may use it, and the event
\* thread as long as a context (core.c libusb_init, libusb_exit, linux_usbfs.c
\* op_init, op_exit).
THEOREM ContextSafe == Spec => []ContextsOutliveUse
<1> DEFINE I == part = "context" => Context!IndInv
<1>1. Init => I
  BY ContextInit DEF Init
<1>2. I /\ [Next]_all => I'
  <2> SUFFICES ASSUME I, [Next]_all, part' = "context" PROVE Context!IndInv'
    OBVIOUS
  <2>1. part = "context"
    BY PartSteps
  <2>2. CASE Context!Next
    <3>1. /\ Context!PlaceInv' /\ ContextTyped' /\ Context!MineInv' /\ Context!DefaultInv'
          /\ Context!RefcntInv' /\ Context!CountInv' /\ Context!MonitorInv'
      BY <2>1, <2>2, ContextPlaces, ContextTypes, ContextMine, ContextDefault, ContextRefcnt,
         ContextCount, ContextMonitor
    <3>2. (initCount \in 0..MaxCtxs)'
      BY <3>1, CountsNext
    <3>3. Context!TypeOK'
      BY <3>1, <3>2 DEF ContextTyped, Context!TypeOK
    <3> QED
      BY <3>1, <3>3 DEF Context!IndInv
  <2>3. CASE UNCHANGED ctxVars
    BY <2>1, <2>3, ContextStutter
  <2> QED
    BY <2>1, <2>2, <2>3, PartSteps
<1>3. I => ContextsOutliveUse
  BY ContextUses DEF ContextsOutliveUse, Context!IndInv
<1> QED
  BY <1>1, <1>2, <1>3, PTL DEF Spec, Steps

=============================================================================
