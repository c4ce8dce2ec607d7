# STouch: TLA+ models and proofs

STouch turns a floor or wall into a touch surface: a Kinect delivers depth and
video frames over USB, a native detector finds the projected rectangle, learns
the depth of the empty surface, and reports points slightly above it as touch
events to Android. The repository carries its own libfreenect, libusb, TUIO and
oscpack. This directory holds TLA+ models of these parts, TLC configurations
that check them on small instances, and TLAPS proofs of most of the safety
properties for every value of the constants.

All paths below are relative to `app/src/main/cpp/` unless they start with
`java/` (`app/src/main/java/com/github/rdv0011/stouch/`).

## 1. Inventory

### Threads

| thread | runs | created by |
|---|---|---|
| UI | `initDetector`, `cleanupEnv`, `startCalibration`, `startTouch` (stouchJNI.cpp), the surface callbacks | Android |
| event | `Freenect::operator()`, the libusb callbacks, `processDepth`, `processVideo` | `Freenect::start` |
| processing | `STouchDetector::processData`, `videoDataHandler` | `STouchDetector::start` |
| preview worker | `KinectFrameWorker` | `KinectPreview.startWorker` |
| netlink monitor | `linux_netlink_event_thread_main` | `libusb_init`, for the first context |
| TUIO | `SocketReceiveMultiplexer::Run`; `TuioServer`'s periodic messages | `TuioClient::connect`, `TuioServer` |

libusb events are handled by the event thread, but also by the UI thread while
it starts or stops a stream, because every control transfer and the loop in
`fnusb_stop_iso` handle events. Callbacks of one stream therefore run while the
other one is being started or stopped.

### Components

| component | state | operations | what makes it correct |
|---|---|---|---|
| Isochronous transfers (`usb_libusb10.c`) | transfers, `dead`, `dead_xfers`, `device_dead` | `fnusb_start_iso`, `iso_callback`, `fnusb_stop_iso` | `dead_xfers` is exact; memory is freed only when nothing is in flight; stopping ends |
| Packet reassembly (`cameras.c`) | `synced`, `seq`, `pkt_num`, `got_pkts`, `raw_buf` | `stream_process`, `stream_init` | packets land in their own slot and inside the buffer; frames come out whole and in order |
| Frame pipeline (`stouchDetector.cpp`, `stouchFreenect.h`, `libfreenect.hpp`) | Back, Mid and Front vectors, `gotDepth`, `gotVideo`, `proc_buf`, fps counters | `processDepth`, `processVideo`, `copyBuffers`, `processData`, `measureTime`, start and cleanup | no buffer is written while it is read; no wakeup is lost; no frame is lost in the count |
| Calibration (`stouchDetector.cpp`) | `calibrationState`, `calibrationFrmCount`, `roi`, `background`, `trainedBackground`, `isTouchInProgress` | `startCalibration`, `startTouch`, `processFrame` | no calibration while touch is on; roi and background of the same, steady calibration |
| Device life cycle (`core.c`, `usb_libusb10.c`, `libfreenect.hpp`) | context, device list, libusb handles, `m_devices` | init, open by index and serial, close, shutdown | every handle opened is closed once, whatever fails (but for the leak of section 4) |
| Camera commands (`flags.c`, `cameras.c`) | `tag`, answers, registers, modes, `running` | `send_cmd`, init, modes, start, stop, flags | a stream runs with the buffers and tables of its mode; a flag changes nothing but itself |
| Frame conversion (`cameras.c`, `registration.c`) | - | unpacking, Bayer, UYVY, registration, colour mapping | each pixel is what the layout says; the nearest point is visible |
| Preview (`java/KinectPreview.java`) | `frameReady`, `frameBuffer`, `state`, `stopThread` | surface callbacks, worker, `videoDataHandler` | a worker runs exactly while there is a surface; the last frame is shown |
| Application (`stouchJNI.cpp`, `java/STouchActivity.java`, `java/STouchEventInjector.java`) | `freenectDriver`, `touchDetector`, `mBound`, status | bind, unbind, init, cleanup, touch events | one driver streams; what is shown is true |
| libusb transfers (`libusb/io.c`, `os/linux_usbfs.c`, `sync.c`) | URBs, `num_retired`, `reap_action`, flying list, timeouts | submit, reap, cancel, time out, synchronous calls | one callback per transfer with an honest status; data in its place; URBs freed when reaped |
| libusb events (`io.c`, `core.c`) | `events_lock`, `pollfd_modify`, waiters, control pipe | handle events, open, close | no descriptor is closed under `poll`; every waiter is woken |
| libusb contexts and devices (`core.c`, `hotplug.c`, `os/linux_netlink.c`) | contexts, device list, reference counts, messages | init, exit, enumerate, hotplug, references | contexts and devices live as long as they are used |
| libusb interfaces and descriptors (`core.c`, `descriptor.c`) | `claimed_interfaces`, configuration, parsed counts | claim, release, reset, alternate settings, parsing | what is marked claimed is owned; counts are filled |
| TUIO (`TUIO/`) | cursors, objects, frame numbers, alive lists | frames, full messages, restart, receiving | client follows server, and recovers after loss |
| oscpack (`oscpack/`) | packet buffer, timers, break pipe | write, read, `Run` | packets are read back as written; select never oversleeps |

TUIO and oscpack are in the repository and not in the app's CMake build.

### Interaction

```
java: STouchActivity -> STouchService -> initDetector -> Freenect -> libusb
camera -> kernel -> URBs -> transfer -> iso_callback -> depth/video_process -> stream_process
  -> (frame complete) conversion into proc_buf -> DepthCallback/VideoCallback
  -> processDepth/processVideo -> frameCond -> processData -> processFrame
  -> calibration or touch -> virtualROIUpdated / sendEvent / videoDataHandler -> preview worker
```

`AppLifecycle` and `FreenectDevices` are the first line. On the second,
`UrbTransfer` implements `Transfer`, which is what `IsoTransfers` and
`SyncTransfers` assume of libusb, and `PacketStream` is `stream_process`. The
conversion is `FrameConversion`, the hand-over `FramePipeline`, `processFrame` is
`Calibration` and the worker `KinectPreview`. The behaviours that are hard to test
are listed with their lines under `hazards` in `PROJECT.json`.

## 2. Modules

A component has a module (state, actions, properties); the `MC` modules are the
ones TLC runs, with one `.cfg` per question; the theorems are in a module `XProofs`
each for `FramePipeline`, `PacketStream`, `Calibration` and `IsoTransfers`, and in
`UsbTransfersProofs`, `UsbCoreProofs`, `KinectProofs` and `TuioProofs` for the parts of
the `MC` modules of those names. Operators marked *Mutant* are faulty variants of an
operator that follows them. No action of a specification uses them; substituted
for the original, each makes the property it is listed with in `PROJECT.json`
fail, which shows that the property depends on the code.

`MCUsbTransfers`, `MCUsbCore`, `MCKinect` and `MCTuio` explore several components
in one run. The components in such a module share no variables: `part` is chosen
at the beginning, a behaviour is one of that part, and the invariants name the
part they speak of. The state space is the sum of those of the parts, not their
product. Each of these invariants includes the type invariant of its part, where
there is one.

### The program's core

**FramePipeline.** One session, from `initDetector` after the device was opened to
the end of `cleanupEnv`. Each stream has the vectors `back`, `mid`, `front`. The
model tracks their *storage*: `swap` exchanges storage, and assigning a vector
takes a new block and frees the old one. `procBuf` is the driver's raw pointer. A
frame is the number the driver gave it; `content` says which frame a block holds,
`Torn` while the driver converts into it. `evPc` walks through a callback, `procPc`
through `processData`, `mainPc` through init and cleanup. `pthread_cond_wait` is
`waiting` (asleep) and `woken` (wants the mutex back), and may wake spuriously.
While the device is closed a video frame meets a pure virtual callback and the
process is aborted (`PureVirtualCallback`).
Abstracted: pixel data, the length of a buffer, and the depth stream's shutdown,
which is one step because its callbacks return at once when `running` is 0. What
`freenect_process_events` does about an unplugged device is in `IsoTransfers`.

**PacketStream.** `stream_process` on each packet of one stream. The environment is
a camera that numbers packets modulo `SeqMod` and a link that loses a packet,
replaces its flag or makes it too long or too short. `rawBuf` records which frame's
which packet is in a slot; byte offsets are kept where they matter. `curFrm` and
`gap` are history variables. A burst of `SeqMod` packets or more looks to the code like
its remainder: `slip` is how many packets were lost unseen since the last sync, 0 as
long as bursts are shorter. A short or magicless packet is ignored by the code and so
is a lost one to the model. Abstracted: payload, `lost_pkts` and
`valid_frames`, which only choose log levels, and the variable length branch,
which no format of this program selects.

**Calibration.** `startCalibration` and `startTouch` on the UI thread, `processFrame`
on the processing thread. The biggest rectangle of a frame is a position or
`NoRect`, so `getDistance` is a difference. A matrix is what it is made of: of
which calibration, how many depth frames, and whether the memory it started from
was clean. `processFrame` decides between touch and calibration first
(`BeginFrame`) and enters the critical section later (`CalibrateFrame`), with any
UI call in between.

**IsoTransfers.** The transfers of both streams under their callers: start depth,
start video, poll, check for a dead device, stop, close. A transfer is `none`,
`null` (its allocation failed), `idle` or in `flight`. Callbacks run at every point
where the caller handles events. Ends are `closed`, `aborted` (the event thread
throws and nobody catches) and `crashed` (`libusb_cancel_transfer(NULL)`).

### libusb

**UrbTransfer** follows one transfer through submission URB by URB, completion, reaping,
discarding in reverse order, a failing submission in the middle, cancellation by the
user or the timeout, and the loss of the device, for bulk (with and without
continuation), interrupt, isochronous and control transfers. An interrupt transfer of
several URBs is split as a bulk transfer is and counts as one; `"interrupt"` has one
URB. A later URB is refused with `EREMOTEIO`, which counts as a completion, or with
another error. `itransfer->lock` is explicit; the kernel goes on while it is held.
**Transfer** is the abstract specification: submitted, in flight, reported once with a
status that a cancellation, a timeout or the device justifies.
`UrbTransfer!ImplementsTransfer` is the refinement, with `phase`, `status` and `count`
mapped from `flying`, `result` and `submits`. **SyncTransfers** builds the synchronous
calls on `Transfer`. **UrbSplit** is the arithmetic that cuts a request into URBs, with
the kernel's limits as constants. **FlyingTransfers** is the ordered list of transfers,
`libusb_get_next_timeout` and `handle_timeouts_locked` of several threads.

**EventHandling**: one step per access to a shared variable of
`libusb_handle_events_completed`, `libusb_try_lock_events`, `libusb_wait_for_event`,
`libusb_open` and `libusb_close`. **UsbContext**: `libusb_init` and `libusb_exit` by
several threads, with every failure. **UsbDevices**: the bus, netlink messages, the
initial scan, `libusb_get_device_list`, reference counts, hotplug callbacks.
**UsbInterfaces**: one handle, several threads, the kernel's view beside libusb's.
**ConfigDescriptors**: the parsers of `descriptor.c` over an arbitrary blob, decided
descriptor by descriptor as the parser looks at it.

### libfreenect and the application

**FreenectDevices**: `freenect_init` to `freenect_shutdown` and the C++ wrapper, with
Kinects for Windows whose audio device reappears after a firmware upload; each
libusb call may fail. A handle is open until it is closed, known to anybody or not.
**CameraCommands**: a command has a tag and a number, which several operations share, and
an answer is compared by these two alone; either half of the exchange may fail, and an
answer that was not read stays with the camera, to be read by a later command.
**FrameConversion**: each converter as the code computes it, one frame per step,
compared with a definition by bit positions, by the mean of neighbours, or by the
minimum over all points that map to a pixel. **KinectPreview**: three threads and
the monitor of the view; the buffer has two halves so that a half-written frame
can be seen. **AppLifecycle**: binding and the service callbacks, drivers that are
overwritten and left, the status text, touches.

### TUIO and oscpack

**OscStream**: `OutboundPacketStream`, whose type tags grow towards the arguments, and
`ReceivedPacket`, on offsets and sizes. Arguments are written inside a message: the code
does not test it, other than the order of the rest, so it is the caller's duty, and the
callers in `TUIO/` do it. **TuioBundles**: when `TuioServer` starts another packet, in
bytes. **TuioCursors**: cursor numbers, the free list (as a set: the code takes the
closest free cursor, which may be any), stopping and removing untouched cursors, one
removal per step because the code starts its walk again after each. **TuioSession**:
server and client over UDP that loses, duplicates and reorders, periodic full messages,
restart of the server. A cursor's values are its position; its speeds, which the client
takes from an update and not from an addition, are left out. A client counts as `behind`
once a packet was lost, overtaken or dropped as late, which after a restart happens to
packets in order, too. A list of the server is the set of its sessions: they are
numbered in the order of the list, so a packet takes the members of lowest number that
have room in it. **SocketMultiplexer**: `Run` with timers that have a period and an
initial delay, `Break`, `AsynchronousBreak` and `EINTR`; `std::sort` leaves timers with
equal times in any order, so each sort is a choice among the sorted queues.

## 3. Runs

| run | bounds | states (distinct) | shows |
|---|---|---|---|
| `frame_pipeline` | 4 blocks, 2 frames per stream | 367 848 | `DriverWritesPrivately`, `FrontIsStable`, `NoLostWakeup`, `FrameAccounting`, `TakesNewest`, `FramesGetProcessed` |
| `packet_stream` | 4 packets per frame, 4 frames, loss limit 2, sequence modulo 5 | 439 665 | `PacketsInPlace`, `WritesInBounds`, `ReturnedFrameIsAssembled`, `FramesInOrder` |
| `calibration` | 3 positions, 3 calibrations, 4 summed frames | 488 028 | `TouchFreezesCalibration`, `RoiIsSteady`, `BackgroundMatchesRoi`, `CalibrationFinishes` |
| `iso_transfers` | 2 transfers per stream | 1 545 | `NoCallbackAfterFree`, `DeadXfersExact`, `StopEnds`, `UnplugEndsSession` |
| `usb_transfers` | 3 URBs, 2 submissions; 3 flying transfers; 3 synchronous calls | 285 580 | `FreedOnlyWhenReaped`, `DataInPlace`, `NothingOutlivesCall`, `NoTimeoutMissed`, `ImplementsTransfer`, `TransfersEnd` |
| `usb_core` | 2 threads, 2 callers of init, a hub and a device, 2 interfaces, 5 descriptors | 101 285 | `ClosedNotPolled`, `ContextsOutliveUse`, `DevicesAccounted`, `ClaimedIsOwned`, `CountsAreFilled`, `CallsReturn` |
| `kinect` | 2 Kinects, 2 lost handles, 4 calls with 2 faults, 3x2 pictures, 3 preview frames, 3 drivers | 755 928 | `HandlesBalanced`, `CommandsFit`, `FramesConverted`, `WorkerMatchesSurface`, `OneDriverStreams`, `PreviewFollows` |
| `tuio` | 68-byte packets, 40 alive, 3 cursors, 2 frames with 1 fault, 2 timers | 1 102 852 | `PacketsReadBack`, `ListsAgree`, `NotOverslept`, `ClientRecovers` |
| `frame_pipeline_cleanup` | 1 frame | violation | `CleanupCompletes`: cleanup hangs |
| `iso_transfers_close` | 2 transfers | violation | `ClosesIdleHandle`: video in flight at close |
| `urbs_stall` | 3 URBs of a bulk transfer | violation | `FreedOnlyWhenReaped`: a stall in the middle |
| `app_status` | 2 drivers | violation | `StatusIsTrue`: "stopped" while streaming |

Why the bounds are enough:

* *FramePipeline*: with two frames per stream, a stream can overrun the processing
  thread before or while it works; four blocks are the three vectors and the copy
  that exists before the old one is freed. The safety properties are proved for
  every number of frames.
* *PacketStream*: four packets per frame have a first, two middle and a last
  slot. Four frames let a loss close one frame, run into the next and be
  followed by a resync. `SeqMod = 5` is not a multiple of the frame length, so
  the number wraps at different slots; it is smaller than the 16 packets of the four
  frames, so bursts of one and two ranges occur, in front of every slot; and
  `LostLimit = 2` keeps the code's order `LostLimit + 1 < PktsPerFrame` and `< SeqMod`.
* *Calibration*: the code's own `CalibrationUnstableFramesCount` and
  `CalibrationStableFramesCount` are 1; training takes 2 frames instead of
  `BackgroundTrainFrameMax`. Positions 4, 5 and 9 give a small move, a jump, and a
  jump from the initial (0, 0). Three runs allow abort, restart and restart.
* *IsoTransfers*: with two transfers per stream one can be dead, unallocated or
  reported while the other is in flight; the invariants are proved for every
  finite set.
* *usb_transfers*: three URBs have one before and one after the URB that fails or
  is short; `FaultyKinds` leaves out bulk transfers without continuation, for which
  `urbs_stall` shows the violation. Three flying transfers with timeouts 0, 1 and
  2 can be in any order; lengths up to 5 with a limit of 2 or 3 per URB have exact,
  partial and empty last pieces.
* *usb_core*: one thread polls, one waits, one opens and closes; two callers race
  for the default context; a device may come and go twice behind its hub; five
  descriptors make two interfaces, their endpoints and something to skip.
* *kinect*: of two Kinects one is a Kinect for Windows; a fault is a lost command or an
  answer that is lost, unread or damaged. With two faults and four calls the answers of
  one call are read by the next one, and by the one after it. The frames are constants
  that `MCKinect` gives small sets: packed groups in which one byte differs from the
  others, Bayer pictures in which one pixel does, depth pictures of two depths,
  registrations that move one pixel. The proofs take every frame.
* *tuio*: 68 bytes hold a bundle with two messages of up to three arguments and no
  more, so that the third type tag meets the arguments; 576 bytes are the code's
  minimum packet; timers of 2 and 3 ticks overtake each other.

### Fairness

* *FramePipeline*: threads run (weak fairness), and a thread waiting for
  `backBufMutex` gets it if it is free again and again (strong fairness). Nothing
  is assumed of the camera, the user or spurious wakeups, so a violation of
  `CleanupCompletes` is not due to a thread that is never scheduled.
* *Calibration*: frames keep arriving and the UI thread finishes what it began.
* *IsoTransfers*: the caller runs, and libusb reports each transfer that was
  cancelled or whose device is gone: strong fairness, because reports are
  delivered only while somebody handles events. `UrbTransfer` shows
  (`TransfersEnd`) that libusb does.
* *UrbTransfer*: the event thread and the steps of a call go on. Nothing is
  assumed of the device; a cancelled URB comes back.
* *SyncTransfers*: the caller loops, a timeout comes, and a transfer that was
  cancelled or timed out is reported.
* *EventHandling*: threads run; `events_lock` and `event_waiters_lock`, when free
  again and again, are given to each thread that waits. The timeouts of `poll` and
  of waiting threads (60 seconds) are possible, not fair: calls return without them.
* *UsbContext*: callers and the netlink thread run.
* *KinectPreview*: the UI thread, the worker and a frame that is being copied go on.
* *TuioSession*: the periodic thread sends, and what the network does not lose
  arrives. *SocketMultiplexer*: the thread in `Run` goes on when select may return.

Deadlock is checked for the first four runs. In the others a part may rest: all
calls are made, the bounds are reached or the network is silent.

## 4. Findings

Runs that show a disagreement between the code and its own words:

1. `~STouchDetector` (stouchDetector.cpp:70) does not signal `frameCond`, although
   its comment says so; `cleanupEnv` can hang for ever (`frame_pipeline_cleanup`).
2. `freenect_camera_teardown` (cameras.c:1287) returns after stopping depth; video
   transfers are in flight when the handle is closed (`iso_transfers_close`).
3. A stall in the middle of a bulk transfer split into several URBs, without
   continuation, frees them while the kernel holds some (`urbs_stall`).
4. Unbinding shows "Service is stopped" while the driver streams (`app_status`).

Met while modelling, and either excluded by a guard or a bound that the module
names, or present in a model without a property of their own:

* stouchJNI.cpp:126: the device is deleted while the processing thread may use it
  (`CloseDevice` while `procPc = "map"`). stouchJNI.cpp:119: `initDetector` returns
  `JNI_OK` after a failed `init`. stouchJNI.cpp:31: native prototypes without the
  `jobject`. stouchFreenect.h:55: a number of bytes used as a number of elements.
* stouchDetector.cpp:414: frames without a rectangle are summed and not counted.
  stouchDetector.cpp:310: the accumulation matrix is never cleared.
* java/KinectPreview.java:163: a picture can be made of two frames.
* cameras.c:130: of a burst of 256 lost packets or more, about a frame of depth, only the
  remainder is seen, and the packets behind it go into the wrong slots until a resync.
* libfreenect.hpp:99: while `~FreenectDevice` closes the device, after the destructor of
  the derived class, the video stream still runs, and its next frame calls a pure virtual
  function (libfreenect.hpp:157): the process is aborted (`PureVirtualCallback`).
* usb_libusb10.c:833: a NULL transfer is cancelled after a failed allocation;
  usb_libusb10.c:820: success without any transfer; libfreenect.hpp:239: an
  exception in a thread without a handler.
* core.c:177: a device whose camera fails to initialise stays in the list.
  core.c:198: the index used for a serial number skips unreadable cameras.
  usb_libusb10.c:590: an audio handle that was opened for its serial number is lost, and
  stays open after `freenect_shutdown`; it takes a caller that selects more than the
  camera. flags.c:140: a short answer is no error and does not advance the tag, so the
  next command takes a stale answer for its own; a call to set a flag may then write the
  register with old flags, before the answer to the write is refused and the call fails.
  registration.c:187: a read past the end of `depth_to_rgb_shift`.
* os/linux_usbfs.c:1911: `EREMOTEIO` after a failed URB is reported as success;
  os/linux_usbfs.c:1463: a failed reset leaves `claimed_interfaces` as it was;
  os/linux_usbfs.c:666: a `bLength` of 0 loops; libusb/core.c:1949: a failed init leaves
  the count of the default context; descriptor.c:294: a half-parsed alternate
  setting; os/linux_netlink.c:365: reading stops at the first message that is not
  USB's; hotplug.c:268: a callback may be freed during its enumeration.
* TuioClient.cpp:166: frame 0 is never late, and a server restarted within 100 frames
  is not heard; TuioClient.cpp:229: a missing unlock; TuioClient.cpp:412: no test for the
  end of a list; TuioClient.cpp:669: `Break` where `AsynchronousBreak` is needed;
  TuioClient.cpp:211: the speeds of an added cursor are ignored;
  TuioServer.h:52: the reserve is 8 bytes too small for a 3D cursor; TuioServer.cpp:286:
  a use after delete in verbose mode; TuioServer.cpp:39: the periodic thread is not
  synchronised.
* UdpSocket.cpp:372: `Run` forgets a break from before; UdpSocket.cpp:431: after `EINTR`
  it reads descriptors that have nothing. OscOutboundPacketStream.cpp:412: an argument
  outside a message is no error and spoils the size. OscReceivedElements.cpp:631: errors
  in the size of a blob are constructed and not thrown.

## 5. Proofs

The theorems hold for every value of the constants that satisfies the named
assumptions. Each proof shows `Init => IndInv`, then that every action preserves
`IndInv`, one step per action, then derives the property. The inductive invariants
are defined in the modules of the components, next to the properties.

The assumptions:

* `BufsAssumption`: distinct buffers, at least four; `FrameAssumption`: frames are
  numbered. `StreamAssumption`: `LostLimit + 1` is below the packets per frame and the
  sequence range, and the last packet is no longer than the others.
  `CalibrationAssumption`: limits are natural numbers. `XfersAssumption`: finitely many
  transfers.
* `KindsAssumption`: the types of transfer and the faults are among those the code tells
  apart, and there is at least one URB; `LengthsAssumption`: lengths and the kernel's
  limits are natural numbers, that of a bulk URB not 0; `TimesAssumption`: timeouts are
  natural numbers. `ThreadsAssumption` and `CallersAssumption`: the name of a free lock
  is no thread's, and finitely many threads create contexts; `DescsAssumption`: counts
  in descriptors are natural numbers.
* `BoundsAssumption`: bounds are natural numbers; `CommandsAssumption`: the modes that
  `freenect_camera_init` chooses exist and the tag has at least two values;
  `IndicesAssumption`: Kinects are indexed from 0. `PicturesAssumption`: a picture is at
  least 2 by 2 (the Bayer conversion reads a neighbour in each direction), and a shift
  is at most the width of the picture, so that a pixel the table puts outside stays
  outside; `FramesAssumption`: a frame is made of bytes or of depths. `SizesAssumption`:
  capacities and lengths are natural numbers; `TimersAssumption`: finitely many timers
  with natural periods; `CursorsAssumption` and `SessionsAssumption`: cursors, speeds,
  sessions and positions are numbers, and a packet has room for at least one set
  message.

### The program's core

* *FramePipeline*. `IndInv` adds to the types: who holds the mutex
  (`MutexInv`), how far each thread can be given the others (`ThreadInv`), that
  the three vectors are distinct and the driver's pointer is Back, or Mid in the
  one step between the swap and `setXxxBuffer` (`BuffersInv`), that a frame
  produced is taken, counted in `got` or in flight, which ties the content of Mid
  and Front to frame numbers (`ContentInv`), and the account of frames in the
  processing thread (`ProcInv`). Without `ContentInv` neither `FrontIsStable` nor
  `TakesNewest` is inductive.
* *PacketStream*. The core is `PosInv`: while synced, camera position =
  stream position + `gap` + `slip` on a line of packet numbers, and `slip` is a multiple
  of `SeqMod`. `SeqInv` says the same of the sequence numbers modulo `SeqMod`. Lemma
  `LostIsGap` derives that the 8-bit difference is what remains of the burst;
  `SlotIsIndex`, from a lemma that whole frames are a frame length apart, that the slot
  computed is the packet's index, `slip` packets back. Placement, bounds and order follow.
  `PacketsInPlace` says, of every packet, by how much it is off, and so that it is in place
  unless a burst of at least `SeqMod` packets was lost since the last sync.
  `ReturnedFrameIsAssembled` needs to know what is in the buffer: nothing newer than the
  camera's position and, while synced and nothing slipped, nothing newer than the frame
  being assembled (`FreshInv`), and exactly `got_pkts` packets of that frame
  (`CountedInv`). A packet then goes to a slot that held an older frame, which makes the
  count exact; the packet that reveals a loss across frames is the one newer packet in the
  frame returned.
* *Calibration*. `CountInv` ties the frame counter, which four states share, to
  the number of steady rectangles and of summed frames; `RunInv` ties background
  and roi to the run; `SwitchInv` says in which half-steps of the UI thread touch
  and state may disagree. The state during touch is COMPLETED initially and after an
  abort, too: what touch rests on is `TrainedInv`, that a background, once trained, was
  divided after all its frames and belongs to no later calibration than the roi
  (`TouchBackground`).
* *IsoTransfers*. The properties are nearly inductive; `CallerInv` adds which
  stream the caller is working on. Cardinality facts come from
  `FiniteSetTheorems`.

### libusb

* *UrbTransfer*, refinement (`TransferRefined`). Each action is a step of `Transfer`
  under the mapping or leaves `phase`, `status` and `count` alone. `RefInv` says which
  reports are possible: while URBs are submitted the lock is held and nothing has
  been asked for, a cancelled status is only read when a cancellation was asked for,
  and the one URB of a control transfer is discarded only to cancel it. No
  assumption on the faults is needed: the finding `urbs_stall` is about memory, the
  report is right even then.
* *UrbTransfer*, memory (`FreedSafe`). The transfer is freed when `num_retired`
  reaches the number of URBs, or from inside submission and cancellation; none of
  these looks at the kernel. What makes it safe is an interval: the kernel has the
  URBs `lo..hi`, takes them from below, and they are discarded from above
  (`IntervalInv`). Those in the kernel, those completed and those retired add up to
  those given (`CountInv`), and while nothing has failed they come back in order, so
  the last URB of the array is the last one out. `UrbInv` adds what a failure implies
  about the rest. The theorem assumes `"bulk" \notin FaultyKinds`, and must:
  `urbs_stall` is the counterexample without it. Where the argument calls for
  induction over URBs, the least-number principle (`WFMin`) takes its place.
* *UrbTransfer*, data (`DataSafe`). The URBs of a transfer share one buffer, and what a
  late URB brought is moved down behind what was transferred before. `DataInv` is the
  account: each URB that is still to be reaped has a number of units `before` its own,
  which start where those of the one reaped before it end and are never in front of
  its place in the buffer, so moving them down overwrites nothing that is needed.
  `TailInv` (nothing comes behind an error) and `NormalInv` (until something fails every
  URB was full, or there is no more data) are what keeps it, and `IsoInv` says that the
  packets of an isochronous transfer fill their slots in order. It rests on the
  invariant of `FreedSafe` and assumes `"bulk" \notin FaultyKinds` like it.
* *UrbSplit* (`DataSafe`). Isochronous requests are cut in two passes over the packets:
  one counts the URBs, one fills them. `FilledInv` says that where the second pass
  begins a URB the first one began to count one, so that exactly the URBs counted are
  filled. What the recursive offsets and counts are follows from their equations by
  the least-number principle. Bulk requests are a matter of division with remainder.
* *FlyingTransfers*. `SortedInv`: the list is in the order of the timeouts, those
  without one at the end. The walk may then stop at the first timeout to come.
* *SyncTransfers*. `WaitInv`: a caller that waits has its transfer in flight or
  `completed` set.
* *EventHandling*. `LockInv` ties `pollfd_modify`, the control pipe and `events_lock` to
  the step of the thread that opens or closes; `FdsInv` says where a list of
  descriptors is live and that a descriptor in one belongs to an open device.
* *UsbContext*. `PlaceInv` and `MineInv`: which locks a call holds in each step, and
  that a context is that of one call or the default one. `RefcntInv` counts the
  users of the default context (exactly, until an initialisation fails), `CountInv`
  the initialised backends, and `MonitorInv` ties the event thread to that count.
  Freeing is safe because the count reaches 0 only with no user left.
* *UsbInterfaces*. `ResetInv`: a claimed interface that is not the handle's is one a
  reset under way has still to claim again. *ConfigDescriptors*. `ConfigInv` is the
  invariant of the nested loops: interfaces before the last one are complete,
  and of the last one all altsettings but the one being parsed.

### libfreenect and the application

* *FreenectDevices*. `OpeningInv` says in which phases the device being opened is in the
  list and in nobody's hands, `ClosedInv` that a device outside the list has no handles.
  Handles that are open and known to nobody are counted where they are lost, and
  `BareInv` says that a caller that only selects the camera, as `Freenect` does, never
  looks for an audio device and loses none. *CameraCommands*. `StreamInv` says what a
  stream has while it is being started or stopped. `AnswersInv`: the answers that were
  left behind have the tag that is next or the one before it, oldest first. `FlagInv`
  follows the register through reading, writing and answering: a value taken from a
  stale answer is written, but the answer to the read is then in front of the one to the
  write, has the old tag, and the call fails. *KinectPreview*. `UiInv`: which worker
  there is in each step of `stopWorker`. *AppLifecycle*. `CreatedInv` numbers drivers in
  the order of their creation.
* *FrameConversion* (`ConversionSafe`). A frame is converted in one step, so the
  invariant is the property, and the work is in what the operators compute. Lemma
  `Recursion` gives every recursion along `0..n` a solution, and `Least` makes it the
  only one. *Unpacking*: a value is a sum of bits (`Bits8`, `Bits10`, `Bits11`), a byte
  the sum of its own (`ByteSums`); the shifting buffer has the same state after every
  five bytes, so four values are followed through it (`FourValues`). *Bayer*: the window
  that slides along a line is the neighbourhood mirrored at the borders (`WindowIs`);
  mirroring keeps the parity of a coordinate (`MirrorParity`), so which neighbours
  measure a colour depends on the parities of the pixel alone (`NearestIs`), and the
  nested means are off by less than the rounding allowed (`MeansFit`). *Registration*:
  after k pixels the buffer has, at each place, nothing if none of them lands there and
  otherwise the least of their depths (`Kept`, one pixel in `DepthKept`), and the loops
  visit every pixel (`PixelsVisited`).

### TUIO and oscpack

* *OscStream*, *TuioBundles* (`BuffersSafe`). Every write is preceded by a test
  against the size the finished message will have, and between messages the two
  offsets agree; what is in a bundle leaves room for the fseq message, because the
  reserve covers a set and an fseq message.
* *OscStream* (`ReadSafe`). `PlacedInv` says what lies in the buffer in each of the
  stream's seven states (`Phase`): elements one behind the other from offset 16, each
  behind its size, messages or bundles of messages, and of an unfinished message its
  pattern and its arguments; there are offsets at which they lie (`ArgsLie`,
  `MessagesLie`, `ElementsLie`), so TLC does not evaluate it. A step writes behind what
  lies there, or into the slot in front of what has just been finished
  (`ElementsKept`, `ElementAppended`), and moves the arguments of a message that ends
  by the length of its type tags (`MovedArguments`). The receiver is a recursion over
  the same offsets: its function exists because every step goes further (`Walks`), and
  it stops where the writer put the elements (`ElementsFound`), skips arguments by the
  width they were given (`Skips`) and so reads every message and the packet
  (`MessageRead`, `PacketRead`).
* *SocketMultiplexer* (`MuxSafe`). The queue is sorted except while timers are being
  called, and the timeout of select is that of its first entry.
* *TuioCursors* (`ListsSafe`). `NumberInv`: numbers in use differ, are not free, and
  together with the free ones are those up to `maxCursorID`. A new cursor takes number
  `Len(cursorList)` when no free number exists, and that this one is new is a counting
  argument (lemmas `NumbersUsed` and `NextNumber`). `AgeInv` gives an untouched cursor an
  age for each of its states, at most one frame moving and one stopped.
* *TuioSession* (`ListsSafe`). Nothing relates what the client knows now to what the
  server lists now: packets are on their way between them. `FollowInv` says it of each
  session instead. One that the server lists and the current frame has not touched is
  known at its position or will be (`WillKnow`): some packet tells it and none behind
  says otherwise; one that is not listed is unknown, or some packet removes it and
  none behind brings it back (`WillForget`). Sending keeps this by lemma
  `PacketsFaithful`, that the parts into which a list is cut contain each member
  exactly once, a duplicate because it says the same again, receiving because the head
  of the queue moves into what the client knows, and a late packet because it sets
  `behind`.

### Only model-checked

* Every liveness property: fairness is out of the prover's reach.
* `DevicesAccounted`: the reference count of a device is compared with a sum over all
  who refer to it, and the references of a callback, a list and a child move between
  the terms of that sum in every step.

## 6. Not modelled, and the plan

Not modelled:

* `tilt.c`, `audio.c`, `loader.c`: only the camera subdevice is selected; the upload of
  firmware is one step of `FreenectDevices`.
* Image processing (`findSquares`, contours, OpenCV): `Calibration` chooses what it
  finds. The floating point computation of the registration tables:
  `FrameConversion` takes arbitrary tables.
* libusb: string, container-id and endpoint companion descriptors, `libusb_get_*`
  helpers without state, logging, strerror, other operating systems, timerfd.
* TUIO: external cursors and objects, listeners, the geometry of `TuioPoint`,
  `TuioTime`. oscpack: printing, name resolution, the Windows sockets.
* What happens between two steps of `cleanupEnv` in the life of the activity:
  `AppLifecycle` takes `ServiceDisconnected` for one step, and that the processing thread
  may meet the deleted device in between (stouchJNI.cpp:126) is seen in `FramePipeline`
  only. That only one program opens a Kinect at a time is assumed of the kernel
  (`DeviceOpens`); a driver left behind that calls through a `touchDetector` that is null by
  then is not followed.
* `stouchUtility.cpp` (unused), `java/MainActivityFragment.java` (a layout), JNI
  reference handling.

Plan: the account of references in `UsbDevices`, restated with the sets of those who
refer to a device instead of numbers.
