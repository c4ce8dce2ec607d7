--------------------------- MODULE EventHandling ----------------------------
(***************************************************************************)
(* Who handles events when several threads use one libusb context (io.c,   *)
(* core.c).  Threads in a synchronous call wait for their own transfer:    *)
(* one of them gets events_lock and polls for all, the others sleep on     *)
(* event_waiters_cond.  Another thread opens and closes a second device,   *)
(* which changes the set of file descriptors: it raises pollfd_modify and  *)
(* writes to a control pipe, to get the poller out of the way.  Each step  *)
(* touches one shared variable.  The pipe holds a byte per opening or      *)
(* closing thread, so writing to it does not fail.                         *)
(***************************************************************************)
EXTENDS Naturals, Sequences, SequencesExt

CONSTANTS
  Threads,      \* threads in synchronous calls
  MaxCalls,     \* bound on the calls and hotplug messages followed
  MaxOpens      \* bound on how often the second device is opened

VARIABLES
  thread,       \* where each thread is
  fds,          \* the descriptors it polls
  done,         \* its "completed"
  calls, inFlight,      \* calls and messages so far; transfers submitted
  reapable,     \* transfers the kernel is done with, in that order
  modify,       \* ctx->pollfd_modify
  owner,        \* of ctx->events_lock: a thread, "closer" or "free"
  active,       \* ctx->event_handler_active
  waiters,      \* owner of ctx->event_waiters_lock
  ctrlPipe, hotplugPipe,  \* bytes and messages in the pipes
  pollfds,      \* ctx->pollfds, without the two pipes
  opens, opened,   \* openings so far; the second device is open
  closer, op    \* the thread that opens and closes it; "open" or "close"

eventVars == <<thread, fds, done, calls, inFlight, reapable, modify, owner, active, waiters,
               ctrlPipe, hotplugPipe, pollfds, opens, opened, closer, op>>
ioVars == <<calls, inFlight, reapable, hotplugPipe>>
fdVars == <<ctrlPipe, pollfds, opens, opened, closer, op, modify>>

Init ==
  /\ thread = [t \in Threads |-> "idle"] /\ fds = [t \in Threads |-> {}]
  /\ done = [t \in Threads |-> FALSE] /\ calls = 0 /\ inFlight = {} /\ reapable = <<>>
  /\ modify = 0 /\ owner = "free" /\ active = FALSE /\ waiters = "free"
  /\ ctrlPipe = 0 /\ hotplugPipe = 0
  /\ pollfds = {"d1"} /\ opens = 0 /\ opened = FALSE /\ closer = "idle" /\ op = "open"

Goto(t, l) == thread' = [thread EXCEPT ![t] = l]

-----------------------------------------------------------------------------
(* Transfers and the kernel.                                               *)

SyncCall(t) ==
  /\ thread[t] = "idle" /\ Goto(t, "loop")
  /\ calls < MaxCalls /\ calls' = calls + 1
  /\ done' = [done EXCEPT ![t] = FALSE] /\ inFlight' = inFlight \union {t}
  /\ UNCHANGED <<fds, reapable, hotplugPipe, fdVars, owner, active, waiters>>

KernelCompletes(t) ==
  /\ t \in inFlight \ ToSet(reapable) /\ reapable' = Append(reapable, t)
  /\ UNCHANGED <<thread, fds, done, calls, inFlight, hotplugPipe, fdVars, owner,
                 active, waiters>>

HotplugMessage ==
  /\ calls < MaxCalls /\ calls' = calls + 1
  /\ hotplugPipe' = hotplugPipe + 1
  /\ UNCHANGED <<thread, fds, done, inFlight, reapable, fdVars, owner, active, waiters>>

-----------------------------------------------------------------------------
(* libusb_handle_events_completed in a loop, see SyncTransfers.            *)

\* while (!*completed)
Loop(t) ==
  /\ thread[t] = "loop" /\ Goto(t, IF done[t] THEN "idle" ELSE "modify")
  /\ UNCHANGED <<fds, done, ioVars, fdVars, owner, active, waiters>>

\* libusb_try_lock_events: no when somebody wants to change the descriptors, ...
TryLockModify(t) ==
  /\ thread[t] = "modify" /\ Goto(t, IF modify > 0 THEN "waiters" ELSE "trylock")
  /\ UNCHANGED <<fds, done, ioVars, fdVars, owner, active, waiters>>
\* ... or another thread handles events
TryLock(t) ==
  /\ thread[t] = "trylock"
  /\ IF owner = "free" THEN owner' = t /\ Goto(t, "locked")
                       ELSE UNCHANGED owner /\ Goto(t, "waiters")
  /\ UNCHANGED <<fds, done, ioVars, fdVars, active, waiters>>
SetActive(t) ==
  /\ thread[t] = "locked" /\ active' = TRUE
  /\ Goto(t, IF done[t] THEN "inactive" ELSE "snapshot")
  /\ UNCHANGED <<fds, done, ioVars, fdVars, owner, waiters>>

\* handle_events: the list of descriptors is copied under pollfds_lock
Snapshot(t) ==
  /\ thread[t] = "snapshot" /\ fds' = [fds EXCEPT ![t] = pollfds] /\ Goto(t, "poll")
  /\ UNCHANGED <<done, ioVars, fdVars, owner, active, waiters>>

Interrupt == ctrlPipe > 0
Usb(t) == reapable # <<>> /\ "d1" \in fds[t]

\* Mutant: the control pipe is not polled.
PipeIgnored(t) == hotplugPipe > 0 \/ Usb(t)
\* usbi_poll returns a positive number
Ready(t) == Interrupt \/ hotplugPipe > 0 \/ Usb(t)

\* After a hotplug message it polls again without waiting.
Poll(t) ==
  /\ thread[t] \in {"poll", "repoll"} /\ Ready(t)
  /\ IF hotplugPipe > 0
       THEN /\ hotplugPipe' = hotplugPipe - 1
            /\ Goto(t, IF Usb(t) THEN "handle" ELSE "repoll")
       ELSE /\ UNCHANGED hotplugPipe
            /\ Goto(t, IF Usb(t) THEN "handle" ELSE "inactive")
  /\ UNCHANGED <<fds, done, calls, inFlight, reapable, fdVars, owner, active, waiters>>

\* A timeout or a signal
PollTimesOut(t) ==
  /\ thread[t] \in {"poll", "repoll"} /\ ~Ready(t) /\ Goto(t, "inactive")
  /\ UNCHANGED <<fds, done, ioVars, fdVars, owner, active, waiters>>

\* op_handle_events, usbi_handle_transfer_completion: a callback ...
HandleEvents(t) ==
  /\ thread[t] = "handle"
  /\ IF reapable = <<>>
       THEN Goto(t, "inactive") /\ UNCHANGED <<done, inFlight, reapable>>
       ELSE /\ done' = [done EXCEPT ![Head(reapable)] = TRUE] /\ Goto(t, "called")
            /\ inFlight' = inFlight \ {Head(reapable)} /\ reapable' = Tail(reapable)
  /\ UNCHANGED <<calls, fds, hotplugPipe, fdVars, owner, active, waiters>>

WakeAll(t, l) ==
  thread' = [u \in Threads |-> IF u = t THEN l
                               ELSE IF thread[u] = "asleep" THEN "loop" ELSE thread[u]]

\* usbi_cond_broadcast with event_waiters_lock
Broadcast(t, l) == WakeAll(t, l)

\* ... and a broadcast for the thread that waits for it
Called(t) ==
  /\ thread[t] = "called" /\ waiters = "free" /\ Broadcast(t, "handle")
  /\ UNCHANGED <<fds, done, ioVars, fdVars, owner, active, waiters>>

\* libusb_unlock_events
Inactive(t) ==
  /\ thread[t] = "inactive" /\ active' = FALSE /\ Goto(t, "release")
  /\ fds' = [fds EXCEPT ![t] = {}]
  /\ UNCHANGED <<done, ioVars, fdVars, owner, waiters>>
Release(t) ==
  /\ thread[t] = "release" /\ owner' = "free" /\ Goto(t, "tell")
  /\ UNCHANGED <<fds, done, ioVars, fdVars, active, waiters>>
Tell(t) ==
  /\ thread[t] = "tell" /\ waiters = "free" /\ Broadcast(t, "loop")
  /\ UNCHANGED <<fds, done, ioVars, fdVars, owner, active, waiters>>

\* Another thread is handling events: libusb_lock_event_waiters, ...
LockWaiters(t) ==
  /\ thread[t] = "waiters" /\ waiters = "free" /\ waiters' = t /\ Goto(t, "completed")
  /\ UNCHANGED <<fds, done, ioVars, fdVars, owner, active>>
Completed(t) ==
  /\ thread[t] = "completed"
  /\ IF done[t] THEN waiters' = "free" /\ Goto(t, "loop")
                ELSE UNCHANGED waiters /\ Goto(t, "handler")
  /\ UNCHANGED <<fds, done, ioVars, fdVars, owner, active>>
\* ... libusb_event_handler_active, ...
HandlerModify(t) ==
  /\ thread[t] = "handler"
  /\ IF modify > 0 THEN waiters' = "free" /\ Goto(t, "asleep")
                   ELSE UNCHANGED waiters /\ Goto(t, "active")
  /\ UNCHANGED <<fds, done, ioVars, fdVars, owner, active>>
\* ... and sleep or, as it stopped meanwhile, try again
HandlerActive(t) ==
  /\ thread[t] = "active" /\ waiters' = "free"
  /\ Goto(t, IF active THEN "asleep" ELSE "modify")
  /\ UNCHANGED <<fds, done, ioVars, fdVars, owner, active>>

\* libusb_wait_for_event, after up to 60 seconds
SleepTimesOut(t) ==
  /\ thread[t] = "asleep" /\ Goto(t, "loop")
  /\ UNCHANGED <<fds, done, ioVars, fdVars, owner, active, waiters>>

-----------------------------------------------------------------------------
(* libusb_open (with usbi_fd_notification) and libusb_close of device d2.  *)

closerUnch == <<fds, done, ioVars>>

\* The backend's open has added the descriptor.
OpenDevice ==
  /\ closer = "idle" /\ ~opened /\ opens < MaxOpens /\ opens' = opens + 1
  /\ opened' = TRUE /\ pollfds' = pollfds \union {"d2"}
  /\ op' = "open" /\ closer' = "announce"
  /\ UNCHANGED <<closerUnch, thread, modify, ctrlPipe, owner, active, waiters>>
CloseDevice ==
  /\ closer = "idle" /\ opened /\ op' = "close" /\ closer' = "announce"
  /\ UNCHANGED <<closerUnch, opens, thread, modify, ctrlPipe, pollfds, opened, owner, active,
                 waiters>>

Announce ==
  /\ closer = "announce" /\ modify' = modify + 1 /\ closer' = "write"
  /\ UNCHANGED <<closerUnch, opens, thread, ctrlPipe, pollfds, opened, op, owner, active, waiters>>
WritePipe ==
  /\ closer = "write" /\ ctrlPipe' = ctrlPipe + 1 /\ closer' = "lock"
  /\ UNCHANGED <<closerUnch, opens, thread, modify, pollfds, opened, op, owner, active, waiters>>

\* Mutant: closes without waiting for the poller.
NoLock == UNCHANGED owner
\* libusb_lock_events
TakeLock == owner = "free" /\ owner' = "closer"

LockEvents ==
  /\ closer = "lock" /\ TakeLock /\ active' = TRUE /\ closer' = "read"
  /\ UNCHANGED <<closerUnch, opens, thread, modify, ctrlPipe, pollfds, opened, op, waiters>>
ReadPipe ==
  /\ closer = "read" /\ ctrlPipe' = ctrlPipe - 1
  /\ closer' = IF op = "open" THEN "drop" ELSE "doclose"
  /\ UNCHANGED <<closerUnch, opens, thread, modify, pollfds, opened, op, owner, active, waiters>>

\* do_close takes and gives back the recursive lock, which clears
\* event_handler_active although it is still held, ...
DoClose ==
  /\ closer = "doclose" /\ active' = FALSE /\ closer' = "tellInner"
  /\ UNCHANGED <<closerUnch, opens, thread, modify, ctrlPipe, pollfds, opened, op, owner, waiters>>
TellInner ==
  /\ closer = "tellInner" /\ waiters = "free" /\ Broadcast("closer", "none")
  /\ closer' = "backend"
  /\ UNCHANGED <<closerUnch, opens, modify, ctrlPipe, pollfds, opened, op, owner, active, waiters>>
\* ... and the backend removes the descriptor and closes it.
BackendClose ==
  /\ closer = "backend" /\ pollfds' = pollfds \ {"d2"} /\ opened' = FALSE
  /\ closer' = "drop"
  /\ UNCHANGED <<closerUnch, opens, thread, modify, ctrlPipe, op, owner, active, waiters>>

Drop ==
  /\ closer = "drop" /\ modify' = modify - 1 /\ closer' = "inactive"
  /\ UNCHANGED <<closerUnch, opens, thread, ctrlPipe, pollfds, opened, op, owner, active, waiters>>
UnlockEvents ==
  /\ closer = "inactive" /\ active' = FALSE /\ closer' = "release"
  /\ UNCHANGED <<closerUnch, opens, thread, modify, ctrlPipe, pollfds, opened, op, owner, waiters>>
ReleaseEvents ==
  /\ closer = "release" /\ owner' = "free" /\ closer' = "tell"
  /\ UNCHANGED <<closerUnch, opens, thread, modify, ctrlPipe, pollfds, opened, op, active, waiters>>
TellWaiters ==
  /\ closer = "tell" /\ waiters = "free" /\ Broadcast("closer", "none")
  /\ closer' = "idle"
  /\ UNCHANGED <<closerUnch, opens, modify, ctrlPipe, pollfds, opened, op, owner, active, waiters>>

-----------------------------------------------------------------------------
TakesMutex(t) == LockWaiters(t) \/ Called(t) \/ Tell(t)
ThreadStep(t) ==
  \/ Loop(t) \/ TryLockModify(t) \/ TryLock(t) \/ SetActive(t) \/ Snapshot(t)
  \/ Poll(t) \/ HandleEvents(t) \/ Inactive(t) \/ Release(t)
  \/ Completed(t) \/ HandlerModify(t) \/ HandlerActive(t)
CloserMutex == LockEvents \/ TellInner \/ TellWaiters
CloserStep ==
  \/ Announce \/ WritePipe \/ ReadPipe \/ DoClose \/ BackendClose \/ Drop
  \/ UnlockEvents \/ ReleaseEvents

Next ==
  \/ \E t \in Threads :
       \/ SyncCall(t) \/ KernelCompletes(t) \/ ThreadStep(t) \/ TakesMutex(t)
       \/ PollTimesOut(t) \/ SleepTimesOut(t)
  \/ HotplugMessage
  \/ OpenDevice \/ CloseDevice \/ CloserStep \/ CloserMutex

Spec == Init /\ [][Next]_eventVars

\* Threads go on, and a mutex that becomes free over and over is given to each
\* of them in the end.  Timeouts need not come.
Fairness ==
  /\ \A t \in Threads : WF_eventVars(ThreadStep(t)) /\ SF_eventVars(TakesMutex(t))
  /\ WF_eventVars(CloserStep) /\ SF_eventVars(CloserMutex)
FairSpec == Spec /\ Fairness

-----------------------------------------------------------------------------
TypeOK ==
  /\ thread \in [Threads -> {"idle", "loop", "modify", "trylock", "locked", "snapshot",
       "poll", "repoll", "handle", "called", "inactive", "release", "tell", "waiters",
       "completed", "handler", "active", "asleep"}]
  /\ ToSet(reapable) \subseteq inFlight /\ inFlight \subseteq Threads
  /\ modify \in 0..1 /\ ctrlPipe \in 0..1 /\ owner \in Threads \union {"free", "closer"}
  /\ waiters \in Threads \union {"free"}

\* A descriptor is closed only when no thread polls it, and the only thread
\* that polls is the one with events_lock (core.c:1272 "interrupt any event
\* handlers").
ClosedNotPolled ==
  \A t \in Threads : fds[t] # {} =>
    owner = t /\ ("d2" \in fds[t] => opened)

\* The thread that opens and closes is done with pollfd_modify and the control
\* pipe when it says so, and events_lock excludes it and the polling threads from
\* each other: a descriptor is in a list only while its device is open.
Closing == {"doclose", "tellInner", "backend", "drop"}
LockInv ==
  /\ closer \in Closing \union
       {"idle", "announce", "write", "lock", "read", "inactive", "release", "tell"}
  /\ modify = IF closer \in Closing \union {"write", "lock", "read"} THEN 1 ELSE 0
  /\ ctrlPipe = IF closer \in {"lock", "read"} THEN 1 ELSE 0
  /\ (owner = "closer") <=> (closer \in Closing \union {"read", "inactive", "release"})
  /\ \A t \in Threads : (owner = t) <=>
       (thread[t] \in {"locked", "snapshot", "poll", "repoll", "handle", "called", "inactive",
                      "release"})
FdsInv ==
  /\ fds \in [Threads -> SUBSET {"d1", "d2"}]
  /\ \A t \in Threads : fds[t] # {} =>
       thread[t] \in {"poll", "repoll", "handle", "called", "inactive"}
  /\ "d2" \in pollfds \union UNION {fds[t] : t \in Threads} => opened
  /\ pollfds \subseteq {"d1", "d2"}
IndInv == TypeOK /\ reapable \in Seq(Threads) /\ IsInjective(reapable) /\ LockInv /\ FdsInv

\* Whatever thread handles events, a transfer that is over ends the call that
\* waits for it, without the help of a timeout; and opening or closing a device
\* gets past the polling thread.
EventsAreHandled ==
  /\ \A t \in Threads : (t \in ToSet(reapable)) ~> (thread[t] = "idle")
  /\ (closer # "idle") ~> (closer = "idle")
=============================================================================
