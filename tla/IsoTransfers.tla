---------------------------- MODULE IsoTransfers -----------------------------
(***************************************************************************)
(* The isochronous transfers of the two camera streams: fnusb_start_iso,   *)
(* iso_callback and fnusb_stop_iso (usb_libusb10.c) under the callers of   *)
(* this program: freenect_start_depth and _video, the event loop with its  *)
(* dead-device check (core.c) and freenect_close_device.  libusb events    *)
(* are handled by one thread at a time, and also inside every start and    *)
(* stop (control transfers, and the loop of fnusb_stop_iso), so callbacks  *)
(* of one stream run while the other is being stopped.                     *)
(***************************************************************************)
EXTENDS Naturals, FiniteSets

CONSTANT Xfers   \* the transfers of a stream, NUM_XFERS of them

Streams == {"depth", "video"}

ASSUME XfersAssumption == IsFiniteSet(Xfers)

VARIABLES
  xfer,       \* [Streams -> [Xfers -> XferStates]]
  dead,       \* [Streams -> BOOLEAN]: fnusb_isoc_stream.dead
  deadXfers,  \* [Streams -> Nat]: dead_xfers
  allocated,  \* [Streams -> BOOLEAN]: xfers and buffer are allocated
  running,    \* [Streams -> BOOLEAN]: packet_stream.running
  deviceDead, \* fnusb_dev.device_dead
  plugged,    \* the camera is connected
  pc, cur,    \* where the caller is, and the stream it starts or stops
  closing     \* freenect_close_device was called

vars == <<xfer, dead, deadXfers, allocated, running, deviceDead, plugged, pc,
          cur, closing>>
isoVars == <<xfer, dead, deadXfers, allocated>>

\* none: no such object; null: allocation failed; idle: not submitted;
\* flight: owned by libusb and the kernel.
XferStates == {"none", "null", "idle", "flight"}
Pcs == {"start", "starting", "poll", "check", "stopping", "reap", "close",
        "closed", "aborted", "crashed"}

InFlight(s) == {x \in Xfers : xfer[s][x] = "flight"}

\* Nothing is started; STouchFreenect::start begins with the depth stream.
Init ==
  /\ xfer = [s \in Streams |-> [x \in Xfers |-> "none"]]
  /\ dead = [s \in Streams |-> FALSE]
  /\ deadXfers = [s \in Streams |-> 0]
  /\ allocated = [s \in Streams |-> FALSE]
  /\ running = [s \in Streams |-> FALSE]
  /\ deviceDead = FALSE /\ plugged = TRUE
  /\ pc = "start" /\ cur = "depth" /\ closing = FALSE

\* The cable is pulled.
Unplug ==
  /\ plugged
  /\ plugged' = FALSE
  /\ UNCHANGED <<isoVars, running, deviceDead, pc, cur, closing>>

-----------------------------------------------------------------------------
(* Starting a stream.                                                      *)

\* Transfers that fnusb_start_iso counts as dead at once
DeadAtStart(r) == {x \in Xfers : r[x] # "flight"}

\* fnusb_start_iso: each allocation and each submission may fail.
StartIso(r) ==
  /\ pc = "start"
  /\ ~plugged => DeadAtStart(r) = Xfers
  /\ xfer' = [xfer EXCEPT ![cur] = r]
  /\ dead' = [dead EXCEPT ![cur] = FALSE]
  /\ deadXfers' = [deadXfers EXCEPT ![cur] = Cardinality(DeadAtStart(r))]
  /\ allocated' = [allocated EXCEPT ![cur] = TRUE]
  /\ pc' = "starting"
  /\ UNCHANGED <<running, deviceDead, plugged, cur, closing>>

\* The registers are written and the stream runs; depth is followed by video,
\* video by the event loop.
StreamStarted ==
  /\ pc = "starting"
  /\ running' = [running EXCEPT ![cur] = TRUE]
  /\ IF cur = "depth" THEN pc' = "start" /\ cur' = "video"
                      ELSE pc' = "poll" /\ UNCHANGED cur
  /\ UNCHANGED <<isoVars, deviceDead, plugged, closing>>

-----------------------------------------------------------------------------
(* iso_callback, called by libusb_handle_events.                           *)

Pumping == pc \in {"starting", "poll", "stopping", "reap"}

\* The transfer comes to rest and is counted.
Retire(s, x) ==
  /\ xfer' = [xfer EXCEPT ![s][x] = "idle"]
  /\ deadXfers' = [deadXfers EXCEPT ![s] = @ + 1]

\* Mutant: a transfer that could not be resubmitted is not counted.
NotCounted(s, x) ==
  /\ xfer' = [xfer EXCEPT ![s][x] = "idle"]
  /\ UNCHANGED deadXfers
\* What a failed libusb_submit_transfer does to the bookkeeping
ResubmitFailed(s, x) == Retire(s, x)

\* Mutant: the transfers of a stopped stream are resubmitted.
IgnoresDead(s) == FALSE
\* if (strm->dead)
IsDead(s) == dead[s]

\* A completion after fnusb_stop_iso began, whatever its status
RetireDead(s, x) ==
  /\ Pumping /\ x \in InFlight(s) /\ IsDead(s)
  /\ Retire(s, x)
  /\ UNCHANGED <<dead, allocated, running, deviceDead, plugged, pc, cur, closing>>

\* COMPLETED, or an error the driver ignores: submitted again
Resubmit(s, x) ==
  /\ Pumping /\ x \in InFlight(s) /\ ~IsDead(s) /\ plugged
  /\ UNCHANGED vars

\* The same, but libusb_submit_transfer fails; without a device it always
\* does, with LIBUSB_ERROR_NO_DEVICE.
ResubmitFails(s, x) ==
  /\ Pumping /\ x \in InFlight(s) /\ ~IsDead(s)
  /\ ResubmitFailed(s, x)
  /\ deviceDead' = (deviceDead \/ ~plugged)
  /\ UNCHANGED <<dead, allocated, running, plugged, pc, cur, closing>>

\* Mutant: the loss of the device is not noted.
GoneUnnoticed == deviceDead
\* strm->parent->device_dead = 1
NoteGone == TRUE

\* NO_DEVICE, or CANCELLED without having asked for it
DeviceGone(s, x) ==
  /\ Pumping /\ x \in InFlight(s) /\ ~IsDead(s) /\ ~plugged
  /\ Retire(s, x)
  /\ deviceDead' = NoteGone
  /\ UNCHANGED <<dead, allocated, running, plugged, pc, cur, closing>>

IsoCallback(s, x) ==
  RetireDead(s, x) \/ Resubmit(s, x) \/ ResubmitFails(s, x) \/ DeviceGone(s, x)

-----------------------------------------------------------------------------
(* The event loop and the ways to stop a stream.                           *)

\* libusb_handle_events_timeout returned to freenect_process_events_timeout.
PollReturns ==
  /\ pc = "poll"
  /\ pc' = "check"
  /\ UNCHANGED <<isoVars, running, deviceDead, plugged, cur, closing>>

\* freenect_stop_video / _depth up to the write of the stop register
BeginStop(s) ==
  /\ pc' = "stopping" /\ cur' = s
  /\ running' = [running EXCEPT ![s] = FALSE]

\* The dead-device check: the streams are stopped and the error makes
\* Freenect::operator() throw, which nobody catches; so does failed, an error
\* of libusb itself.
CheckDevice(failed) ==
  /\ pc = "check"
  /\ IF deviceDead
     THEN IF running["video"] THEN BeginStop("video")
          ELSE IF running["depth"] THEN BeginStop("depth")
          ELSE pc' = "aborted" /\ UNCHANGED <<cur, running>>
     ELSE /\ pc' = IF failed THEN "aborted" ELSE "poll"
          /\ UNCHANGED <<cur, running>>
  /\ UNCHANGED <<isoVars, deviceDead, plugged, closing>>

\* freenect_camera_teardown returns after the first stream it stops.
Teardown ==
  /\ pc = "check" /\ ~deviceDead
  /\ closing' = TRUE
  /\ IF running["depth"] THEN BeginStop("depth")
     ELSE IF running["video"] THEN BeginStop("video")
     ELSE pc' = "close" /\ UNCHANGED <<cur, running>>
  /\ UNCHANGED <<isoVars, deviceDead, plugged>>

\* fnusb_stop_iso: dead = 1 and a cancel for every transfer; one that was
\* never allocated is a NULL that libusb_cancel_transfer dereferences.
CancelAll ==
  /\ pc = "stopping"
  /\ dead' = [dead EXCEPT ![cur] = TRUE]
  /\ pc' = IF \E x \in Xfers : xfer[cur][x] = "null" THEN "crashed" ELSE "reap"
  /\ UNCHANGED <<xfer, deadXfers, allocated, running, deviceDead, plugged, cur,
                 closing>>

\* Mutant: one transfer too few is waited for.
AlmostReaped == deadXfers[cur] + 1 >= Cardinality(Xfers)
\* The loop's exit: dead_xfers has reached num_xfers
Reaped == deadXfers[cur] >= Cardinality(Xfers)

\* The transfers are freed, which does not take one out of flight; stop_video
\* is followed by stop_depth in the dead-device check, and a stop during close
\* by the close.
FreeIso ==
  /\ pc = "reap" /\ Reaped
  /\ xfer' = [xfer EXCEPT ![cur] = [x \in Xfers |->
                IF @[x] = "flight" THEN "flight" ELSE "none"]]
  /\ allocated' = [allocated EXCEPT ![cur] = FALSE]
  /\ IF closing THEN pc' = "close" /\ UNCHANGED <<cur, running>>
     ELSE IF cur = "video" /\ running["depth"] THEN BeginStop("depth")
     ELSE pc' = "aborted" /\ UNCHANGED <<cur, running>>
  /\ UNCHANGED <<dead, deadXfers, deviceDead, plugged, closing>>

\* fnusb_close_subdevices; libusb forgets what is still in flight.
CloseHandle ==
  /\ pc = "close"
  /\ xfer' = [s \in Streams |-> [x \in Xfers |->
                IF xfer[s][x] = "flight" THEN "idle" ELSE xfer[s][x]]]
  /\ pc' = "closed"
  /\ UNCHANGED <<dead, deadXfers, allocated, running, deviceDead, plugged, cur,
                 closing>>

Ended == pc \in {"closed", "aborted", "crashed"}

Next ==
  \/ Unplug
  \/ \E r \in [Xfers -> {"null", "idle", "flight"}] : StartIso(r)
  \/ StreamStarted
  \/ \E s \in Streams, x \in Xfers : IsoCallback(s, x)
  \/ PollReturns
  \/ \E failed \in BOOLEAN : CheckDevice(failed)
  \/ Teardown \/ CancelAll \/ FreeIso \/ CloseHandle
  \/ Ended /\ UNCHANGED vars

Spec == Init /\ [][Next]_vars

\* The calling thread runs, and libusb reports every transfer that was
\* cancelled or whose device is gone.  Nothing is assumed of a healthy stream.
Fairness ==
  /\ WF_vars(StreamStarted) /\ WF_vars(PollReturns)
  /\ WF_vars(\E failed \in BOOLEAN : CheckDevice(failed))
  /\ WF_vars(CancelAll) /\ WF_vars(FreeIso) /\ WF_vars(CloseHandle)
  /\ \A s \in Streams : \A x \in Xfers :
       /\ SF_vars(RetireDead(s, x))
       /\ SF_vars(DeviceGone(s, x) \/ (~plugged /\ ResubmitFails(s, x)))

FairSpec == Spec /\ Fairness

-----------------------------------------------------------------------------
\* Type correctness; dead_xfers never exceeds num_xfers.
TypeOK ==
  /\ xfer \in [Streams -> [Xfers -> XferStates]]
  /\ dead \in [Streams -> BOOLEAN]
  /\ deadXfers \in [Streams -> 0 .. Cardinality(Xfers)]
  /\ allocated \in [Streams -> BOOLEAN]
  /\ running \in [Streams -> BOOLEAN]
  /\ deviceDead \in BOOLEAN
  /\ plugged \in BOOLEAN
  /\ pc \in Pcs
  /\ cur \in Streams
  /\ closing \in BOOLEAN

\* The memory of a stream is freed only when no transfer of it can still be
\* reported: iso_callback never runs on a freed stream.
NoCallbackAfterFree ==
  \A s \in Streams : ~allocated[s] => InFlight(s) = {}

\* dead_xfers counts exactly the transfers that will not come back, through
\* failed allocations, submissions, resubmissions and a lost device.
DeadXfersExact ==
  \A s \in Streams : allocated[s] /\ pc # "closed" =>
    deadXfers[s] + Cardinality(InFlight(s)) = Cardinality(Xfers)

\* A stream that runs is one whose transfers can be processed: its memory is
\* there and it is not being torn down.
RunningIsAllocated ==
  \A s \in Streams : running[s] => allocated[s] /\ ~dead[s]

\* Stopping a stream ends, also when its device is gone.
StopEnds == (pc = "reap") ~> (pc # "reap")

\* A camera that disappears under a stream with a transfer in flight gets the
\* session ended.
UnplugEndsSession ==
  (~plugged /\ pc = "poll" /\ \E s \in Streams : InFlight(s) # {}) ~> Ended

-----------------------------------------------------------------------------
(* The inductive invariant adds where the caller is.                       *)
CallerInv ==
  /\ pc = "starting" => allocated[cur] /\ ~dead[cur]
  /\ pc \in {"stopping", "reap"} => allocated[cur] /\ ~running[cur]

IndInv ==
  /\ TypeOK /\ NoCallbackAfterFree /\ DeadXfersExact /\ RunningIsAllocated
  /\ CallerInv

-----------------------------------------------------------------------------
(* What the documentation says.                                            *)

\* libusb/core.c:1211 calls it an error: "Device handle closed while transfer
\* was still being processed".
ClosesIdleHandle == pc = "close" => \A s \in Streams : InFlight(s) = {}
=============================================================================
