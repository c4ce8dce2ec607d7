---------------------------- MODULE AppLifecycle ----------------------------
(***************************************************************************)
(* The application around the detector: STouchActivity binds to            *)
(* STouchService, whose connection creates the native driver and detector  *)
(* (stouchJNI.cpp), and shows a status; the detector calls back with a     *)
(* region and with touches, which STouchEventInjector puts on the screen.  *)
(* A driver stands for itself and the detector made together with it.      *)
(***************************************************************************)
EXTENDS Naturals, FiniteSets

CONSTANT MaxDrivers   \* bound on the connections

Drivers == 1..MaxDrivers
None == 0

VARIABLES
  binding,      \* "no"; "asked": bindService was called; "yes": it has connected
  mBound, status,
  driver,       \* STouchJNI::freenectDriver and touchDetector
  drivers,      \* what became of each driver ever created
  plugged,      \* the Kinect is there
  created,
  injector,     \* mTouchInjector: the driver whose region it was made for
  touched       \* the drivers whose touches have reached the screen

appVars == <<binding, mBound, status, driver, drivers, plugged, created, injector, touched>>

Init ==
  /\ binding = "no" /\ mBound = FALSE /\ status = "none"
  /\ driver = None /\ drivers = [d \in Drivers |-> "none"]
  /\ plugged = TRUE /\ created = 0 /\ injector = None /\ touched = {}

Streaming == {d \in Drivers : drivers[d] = "streaming"}

\* A stream ends with its device, and its driver stays.
PlugOrUnplug ==
  /\ plugged' = ~plugged
  /\ drivers' = [d \in Drivers |-> IF plugged /\ d \in Streaming THEN "idle" ELSE drivers[d]]
  /\ UNCHANGED <<binding, mBound, status, driver, created, injector, touched>>

\* bindImpl, from onCreate and from the button
Bind ==
  /\ binding = "no" /\ created < MaxDrivers /\ binding' = "asked"
  /\ UNCHANGED <<mBound, status, driver, drivers, plugged, created, injector, touched>>

\* Mutant: claiming the interface of the camera takes it from another handle.
NotExclusive == plugged
\* STouchFreenect::init: there is a device, and its interface can be claimed.
DeviceOpens == plugged /\ Streaming = {}

\* onServiceConnected: initDetector makes a new driver whatever became of the last one,
\* starts it if the device opened, and returns JNI_OK in either case.
ServiceConnected ==
  /\ binding = "asked" /\ binding' = "yes" /\ mBound' = TRUE
  /\ created' = created + 1 /\ driver' = created + 1
  /\ drivers' = [drivers EXCEPT ![created + 1] = IF DeviceOpens THEN "streaming" ELSE "idle"]
  /\ status' = "Service is running"
  /\ UNCHANGED <<plugged, injector, touched>>

\* The constructor of Freenect throws: JNI_ERR.
InitThrows ==
  /\ binding = "asked" /\ binding' = "yes" /\ mBound' = TRUE
  /\ status' = "Service is stopped"
  /\ UNCHANGED <<driver, drivers, plugged, created, injector, touched>>

\* onServiceDisconnected: cleanupEnv deletes the driver and the detector.  It is one step
\* here; what the other threads do meanwhile is in FramePipeline.
ServiceDisconnected ==
  /\ binding = "yes" /\ binding' = "asked" /\ mBound' = FALSE
  /\ created < MaxDrivers
  /\ drivers' = [d \in Drivers |-> IF d = driver THEN "deleted" ELSE drivers[d]]
  /\ driver' = None /\ status' = "Service is stopped"
  /\ UNCHANGED <<plugged, created, injector, touched>>

\* unbindImpl, from onDestroy and from the button: the native side is not told.
Unbind ==
  /\ binding # "no" /\ mBound
  /\ binding' = "no" /\ mBound' = FALSE /\ status' = "Service is stopped"
  /\ UNCHANGED <<driver, drivers, plugged, created, injector, touched>>

\* virtualROIUpdated, from the processing thread of a driver
VirtualROIUpdated(d) ==
  /\ d \in Streaming /\ injector' = d
  /\ UNCHANGED <<binding, mBound, status, driver, drivers, plugged, created, touched>>

\* sendEvent: down and up, if there is an injector
SendEvent(d) ==
  /\ d \in Streaming /\ injector # None /\ touched' = touched \cup {d}
  /\ UNCHANGED <<binding, mBound, status, driver, drivers, plugged, created, injector>>

Next ==
  \/ PlugOrUnplug \/ Bind \/ ServiceConnected \/ InitThrows \/ ServiceDisconnected \/ Unbind
  \/ \E d \in Drivers : VirtualROIUpdated(d) \/ SendEvent(d)

Spec == Init /\ [][Next]_appVars

TypeOK ==
  /\ binding \in {"no", "asked", "yes"} /\ mBound \in BOOLEAN /\ plugged \in BOOLEAN
  /\ status \in {"none", "Service is running", "Service is stopped"}
  /\ driver \in Drivers \cup {None} /\ injector \in Drivers \cup {None}
  /\ drivers \in [Drivers -> {"none", "idle", "streaming", "deleted"}]
  /\ created \in 0..MaxDrivers /\ touched \subseteq Drivers

\* However often the activity binds, unbinds and is bound again over live drivers, at
\* most one of them streams, and touches come through the region of that very driver or
\* of an older one (stouchJNI.cpp:105); the native pointers never refer to a deleted
\* driver (stouchJNI.cpp:126).
OneDriverStreams ==
  /\ Cardinality(Streaming) <= 1
  /\ driver # None => drivers[driver] \in {"idle", "streaming"}
  /\ \A d \in Streaming : injector # None => injector <= d

\* The status says what the detector does: "Service is stopped" (strings.xml:8) means
\* that no driver streams.
StatusIsTrue == status = "Service is stopped" => Streaming = {}

-----------------------------------------------------------------------------
(* The inductive invariant behind OneDriverStreams: drivers are numbered   *)
(* in the order of their creation, and a new one streams only if no other  *)
(* does.                                                                   *)
CreatedInv ==
  /\ driver <= created /\ injector <= created
  /\ binding = "asked" => created < MaxDrivers
  /\ \A d \in Drivers : d > created => drivers[d] = "none"

IndInv ==
  /\ TypeOK /\ CreatedInv
  /\ \A d, e \in Streaming : d = e
  /\ driver # None => drivers[driver] \in {"idle", "streaming"}
  /\ \A d \in Streaming : injector # None => injector <= d
=============================================================================
