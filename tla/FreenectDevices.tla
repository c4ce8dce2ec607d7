--------------------------- MODULE FreenectDevices --------------------------
(***************************************************************************)
(* Opening and closing a Kinect in libfreenect (core.c, usb_libusb10.c)    *)
(* and in its C++ wrapper (libfreenect.hpp).  A Kinect is up to three USB  *)
(* devices, and every libusb call on the way to them may fail; one thread  *)
(* does it all.  What is followed is which libusb handles are open, which  *)
(* the freenect_device knows of, and which devices the context lists.      *)
(***************************************************************************)
EXTENDS Naturals, Sequences, FiniteSets, SequencesExt

CONSTANTS
  Indices,    \* of the Kinects on the bus, from 0
  K4W,        \* those that are a Kinect for Windows or a model 1473
  MaxDevs,    \* bound on freenect_open_device calls
  Retries,    \* attempts to find the audio device after a firmware upload
  MaxStrays   \* bound on the handles that are lost

Subs == {"camera", "motor", "audio"}
Ids == 1..MaxDevs
None == 0

VARIABLES
  context,     \* whether there is a freenect_context
  enabled,     \* ctx->enabled_subdevices
  devices,     \* ctx->first and its successors
  handles,     \* subdevices whose dev->usb_*.dev is set
  open,        \* libusb handles that are open: <<device, subdevice, 0>>, or, for one that
               \* nobody knows any more, its number in place of the 0
  strays,      \* how many handles were lost
  bare,        \* history: only the camera was ever selected
  m_devices,   \* Freenect::m_devices, or the pointer a caller of the C API got
  phase, cur, index, missing, tries,   \* freenect_open_device in progress
  made

devsVars == <<context, enabled, devices, handles, open, strays, bare, m_devices, phase, cur,
              index, missing, tries, made>>
listVars == <<context, devices, m_devices, index, made, bare>>

Init ==
  /\ context = TRUE /\ enabled = {"camera"}
  /\ devices = <<>> /\ handles = [d \in Ids |-> {}] /\ open = {} /\ strays = 0
  /\ bare = TRUE
  /\ m_devices = [i \in Indices |-> None]
  /\ phase = "idle" /\ cur = None /\ index = 0 /\ missing = {} /\ tries = 0 /\ made = 0

-----------------------------------------------------------------------------
(* The context.                                                            *)

\* freenect_init in the constructor of Freenect, which selects the camera
FreenectInit ==
  /\ ~context /\ context' = TRUE /\ enabled' = {"camera"}
  /\ UNCHANGED <<devices, handles, open, strays, bare, m_devices, phase, cur, index, missing,
                 tries, made>>

SelectSubdevices(S) ==
  /\ context /\ phase = "idle" /\ enabled' = S
  /\ bare' = (bare /\ S \subseteq {"camera"})
  /\ UNCHANGED <<context, devices, m_devices, index, made, handles, open, strays, phase, cur,
                 missing, tries>>

\* What stays open when the handles that the devices D know are closed
Left(D) == {h \in open : h[1] \notin D \/ h[3] # 0}

\* fnusb_close_subdevices, and free
Closed(D) == /\ open' = Left(D)
             /\ handles' = [d \in Ids |-> IF d \in D THEN {} ELSE handles[d]]

\* The walk along the list to the device, and its removal
Place(d) == CHOOSE k \in DOMAIN devices : devices[k] = d
Unlinked(d) == IF d \in Range(devices) THEN RemoveAt(devices, Place(d)) ELSE devices

\* freenect_close_device for FreenectDevice, from deleteDevice
CloseDevice(i) ==
  /\ context /\ phase = "idle" /\ m_devices[i] # None
  /\ Closed({m_devices[i]}) /\ devices' = Unlinked(m_devices[i])
  /\ m_devices' = [m_devices EXCEPT ![i] = None]
  /\ UNCHANGED <<context, enabled, strays, bare, phase, cur, index, missing, tries, made>>

\* freenect_shutdown, after ~Freenect has deleted the devices it knows: whatever is
\* still in the list is closed
AtShutdown == Range(devices)

Shutdown ==
  /\ context /\ phase = "idle"
  /\ Closed(AtShutdown) /\ devices' = <<>>
  /\ m_devices' = [i \in Indices |-> None] /\ context' = FALSE
  /\ UNCHANGED <<enabled, strays, bare, phase, cur, index, missing, tries, made>>

-----------------------------------------------------------------------------
(* fnusb_open_subdevices.                                                  *)

\* freenect_open_device for createDevice, which the application calls once for an
\* index
OpenDevice(i) ==
  /\ context /\ phase = "idle" /\ made < MaxDevs /\ m_devices[i] = None
  /\ cur' = made + 1 /\ made' = made + 1 /\ index' = i
  /\ phase' = "camera"
  /\ UNCHANGED <<context, enabled, devices, handles, open, strays, bare, m_devices, missing,
                 tries>>

\* freenect_open_device_by_camera_serial: the index is the place in the list of the
\* cameras whose serial number could be read, not the place on the bus.
OpenBySerial(i, unread) ==
  LET place == i - Cardinality({j \in unread : j < i}) IN
  /\ i \notin unread /\ OpenDevice(place)

Hold(s) == /\ open' = open \cup {<<cur, s, 0>>}
           /\ handles' = [handles EXCEPT ![cur] = @ \cup {s}]

\* What is left to look for: nothing for a bare camera, and nothing after an error.
Others(subs) == /\ missing' = subs \ {"camera"}
                /\ phase' = IF subs \subseteq {"camera"} THEN "check" ELSE "others"
NoOthers == missing' = {} /\ phase' = "check"

\* No camera is asked for, or there is none of that index.
CameraAbsent ==
  /\ phase = "camera" /\ Others(enabled)
  /\ UNCHANGED <<listVars, enabled, handles, open, strays, cur, tries>>

\* A Kinect for Windows does its motor control through the audio device: the flags
\* of the context change for good.
EnabledWith(i) ==
  IF i \in K4W
    THEN (enabled \ {"motor"}) \cup (IF "motor" \in enabled THEN {"audio"} ELSE {})
    ELSE enabled

CameraOpens ==
  /\ phase = "camera" /\ "camera" \in enabled
  /\ Hold("camera") /\ enabled' = EnabledWith(index) /\ Others(enabled')
  /\ UNCHANGED <<listVars, strays, cur, tries>>

\* libusb_open fails; or the kernel driver, the interface or the alternate setting
\* does, and the handle is closed again.
CameraFails(opened) ==
  /\ phase = "camera" /\ "camera" \in enabled
  /\ enabled' = IF opened THEN EnabledWith(index) ELSE enabled
  /\ NoOthers
  /\ UNCHANGED <<listVars, handles, open, strays, cur, tries>>

\* The motor or the audio device, whichever the bus lists first, is not there...
OtherAbsent(s) ==
  /\ phase = "others" /\ s \in missing
  /\ Others(missing \ {s})
  /\ UNCHANGED <<listVars, enabled, handles, open, strays, cur, tries>>

\* ... or is opened and claimed (an audio device with its firmware)...
OtherOpens(s) ==
  /\ phase = "others" /\ s \in missing
  /\ Hold(s) /\ Others(missing \ {s})
  /\ UNCHANGED <<listVars, enabled, strays, cur, tries>>

\* ... or fails, which ends the search.
OtherFails(s) ==
  /\ phase = "others" /\ s \in missing /\ NoOthers
  /\ UNCHANGED <<listVars, enabled, handles, open, strays, cur, tries>>

\* An audio device in its boot loader whose serial number cannot be read, or that
\* does not take the firmware, stays open.
BootloaderStays ==
  /\ phase = "others" /\ "audio" \in missing
  /\ Hold("audio") /\ NoOthers
  /\ UNCHANGED <<listVars, enabled, strays, cur, tries>>

\* upload_firmware: the device is opened, loaded and closed, and comes back.
FirmwareUploaded ==
  /\ phase = "others" /\ "audio" \in missing
  /\ phase' = "reappear" /\ tries' = 0
  /\ UNCHANGED <<listVars, enabled, handles, open, strays, cur, missing>>

\* One of the attempts finds nothing it can use...
Reappear ==
  /\ phase = "reappear" /\ tries < Retries
  /\ tries' = tries + 1
  /\ UNCHANGED <<listVars, enabled, handles, open, strays, phase, cur, missing>>

\* ... or comes by another audio device, opens it to read its serial number, and goes on
\* without closing it: nobody knows this handle any more...
OtherSerial ==
  /\ phase = "reappear" /\ tries < Retries /\ strays < MaxStrays
  /\ strays' = strays + 1
  /\ open' = open \cup {<<cur, "audio", strays + 1>>}
  /\ UNCHANGED <<listVars, enabled, handles, phase, cur, missing, tries>>

\* ... or the one it waits for, and claims it.
Reappears ==
  /\ phase = "reappear" /\ tries < Retries
  /\ Hold("audio") /\ Others(missing \ {"audio"})
  /\ UNCHANGED <<listVars, enabled, strays, cur, tries>>

\* All attempts are used up: the search goes on behind the device that went away, and
\* the next audio device of the bus, if there is one, is taken for it.
StaysAway ==
  /\ phase = "reappear" /\ tries = Retries
  /\ phase' = "others"
  /\ UNCHANGED <<listVars, enabled, handles, open, strays, cur, missing, tries>>

-----------------------------------------------------------------------------
(* The end of freenect_open_device.                                        *)

\* Every enabled subdevice is open.
AllOpen == enabled \subseteq handles[cur]

\* The device enters the list of its context.
Link ==
  /\ phase = "check" /\ AllOpen
  /\ devices' = Append(devices, cur)
  /\ phase' = "init"
  /\ UNCHANGED <<context, enabled, handles, open, strays, bare, m_devices, cur, index, missing,
                 tries, made>>

\* Mutant: the motor is forgotten.
AllButMotor == Left({cur}) \cup {h \in open : h[2] = "motor"}
\* What stays open when one of the subdevices is missing
AfterFailure == Left({cur})

\* All subdevices are closed again; free(pdev); the constructor throws.
OpenFails ==
  /\ phase = "check" /\ ~(enabled \subseteq handles[cur])
  /\ open' = AfterFailure /\ handles' = [handles EXCEPT ![cur] = {}]
  /\ phase' = "idle" /\ cur' = None
  /\ UNCHANGED <<listVars, enabled, strays, missing, tries>>

\* freenect_camera_init succeeds, or there is no camera: createDevice enters the
\* object in its map.
Opened ==
  /\ phase = "init"
  /\ m_devices' = [m_devices EXCEPT ![index] = cur]
  /\ phase' = "idle" /\ cur' = None
  /\ UNCHANGED <<context, enabled, devices, handles, open, strays, bare, index, missing, tries,
                 made>>

\* freenect_camera_init fails: the constructor throws, and the device stays open and
\* in the list.
CameraInitFails ==
  /\ phase = "init" /\ "camera" \in handles[cur]
  /\ phase' = "idle" /\ cur' = None
  /\ UNCHANGED <<listVars, enabled, handles, open, strays, missing, tries>>

-----------------------------------------------------------------------------
Next ==
  \/ FreenectInit \/ Shutdown
  \/ \E S \in SUBSET Subs : SelectSubdevices(S)
  \/ \E i \in Indices : OpenDevice(i) \/ CloseDevice(i)
  \/ \E i \in Indices, unread \in SUBSET Indices : OpenBySerial(i, unread)
  \/ CameraAbsent \/ CameraOpens \/ \E b \in BOOLEAN : CameraFails(b)
  \/ \E s \in Subs : OtherAbsent(s) \/ OtherOpens(s) \/ OtherFails(s)
  \/ BootloaderStays \/ FirmwareUploaded
  \/ Reappear \/ OtherSerial \/ Reappears \/ StaysAway
  \/ Link \/ OpenFails \/ Opened \/ CameraInitFails

Spec == Init /\ [][Next]_devsVars

TypeOK ==
  /\ context \in BOOLEAN /\ enabled \subseteq Subs
  /\ devices \in Seq(Ids) /\ handles \in [Ids -> SUBSET Subs]
  /\ open \subseteq Ids \X Subs \X (0..MaxStrays) /\ strays \in 0..MaxStrays /\ bare \in BOOLEAN
  /\ m_devices \in [Indices -> Ids \cup {None}]
  /\ phase \in {"idle", "camera", "others", "reappear", "check", "init"}
  /\ cur \in Ids \cup {None} /\ index \in Indices \cup {0} /\ missing \subseteq Subs
  /\ tries \in 0..Retries /\ made \in 0..MaxDevs

Known == {h \in Ids \X Subs \X {0} :
            h[1] \in Range(devices) \cup {cur} /\ h[2] \in handles[h[1]]}
Leaked == {h \in open : h[3] # 0}

\* Of the open libusb handles, those that somebody knows are exactly the ones of the
\* devices in the list of the context and of the one being opened, whatever failed on the
\* way (usb_libusb10.c:617).  The others are audio devices opened for their serial number
\* while a Kinect came back with its firmware (usb_libusb10.c:590): a leak, which nothing
\* ever closes again.  It takes a caller that selects more than the camera, which the
\* constructor of Freenect does not; without one, nothing is open after freenect_shutdown.
\* The objects of the wrapper stand for different devices of the list, and a device that
\* enters the list has every enabled subdevice.
HandlesBalanced ==
  /\ open \ Leaked = Known
  /\ {h[3] : h \in Leaked} = 1..strays /\ \A h \in Leaked : h[2] = "audio"
  /\ bare => strays = 0
  /\ IsInjective(devices)
  /\ \A i \in Indices : m_devices[i] # None =>
       /\ m_devices[i] \in Range(devices)
       /\ \A j \in Indices \ {i} : m_devices[j] # m_devices[i]
  /\ phase = "init" => enabled \subseteq handles[cur]
  /\ ~context => open = Leaked /\ devices = <<>>

-----------------------------------------------------------------------------
(* The inductive invariant behind HandlesBalanced.                         *)

\* Devices are numbered in the order of their creation, and the one being opened is in
\* nobody's hands yet.
OpeningInv ==
  /\ phase = "idle" <=> cur = None
  /\ phase # "idle" => context /\ cur <= made /\ index \in Indices
  /\ phase \in {"camera", "others", "reappear", "check"} => cur \notin Range(devices)
  /\ phase = "init" => cur \in Range(devices) /\ \A i \in Indices : m_devices[i] # cur
  /\ \A d \in Range(devices) : d <= made

\* A device that was closed or not opened yet has no handles.
ClosedInv == \A d \in Ids : d \notin Range(devices) \cup {cur} => handles[d] = {}

\* Only the camera was selected so far: the audio device is never looked for.
BareInv ==
  bare => enabled \subseteq {"camera"} /\ strays = 0 /\ phase # "reappear"
          /\ (phase = "others" => "audio" \notin missing)

IndInv == TypeOK /\ HandlesBalanced /\ OpeningInv /\ ClosedInv /\ BareInv
=============================================================================
