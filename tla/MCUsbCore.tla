----------------------------- MODULE MCUsbCore ------------------------------
(***************************************************************************)
(* What libusb keeps besides transfers, explored side by side: contexts,   *)
(* devices, the interfaces of an open device, descriptors, and the threads *)
(* that share the handling of events.  A behaviour is one of one part,     *)
(* chosen at the beginning: the parts call each other, but none reads the  *)
(* variables of another except through the fields modelled in both.        *)
(***************************************************************************)
EXTENDS Naturals, Sequences, FiniteSets

CONSTANTS
  Threads, MaxCalls, MaxOpens,
  Callers, MaxCtxs, MaxUevents,
  Addrs, InitialBus, MaxObjs, MaxChanges,
  Users, Ifaces, HasDriver, Configs, FirstConfig, MaxOps,
  IfNumbers, MaxEps, MaxIfs, MaxDescs

\* The names of no owner and of the thread that opens and closes a device are not
\* threads.
ASSUME ThreadsAssumption == {"free", "closer"} \cap Threads = {}

\* bNumEndpoints, bNumInterfaces and the length of a blob are numbers.
ASSUME DescsAssumption == MaxEps \in Nat /\ MaxIfs \in Nat /\ MaxDescs \in Nat

\* Finitely many threads; the name of no owner is none of them
ASSUME CallersAssumption ==
  IsFiniteSet(Callers) /\ "free" \notin Callers /\ MaxCtxs \in Nat

VARIABLES
  part,
  thread, fds, done, calls, inFlight, reapable, modify, owner, active, waiters, ctrlPipe,
  hotplugPipe, pollfds, opens, opened, closer, op,
  allocated, alive, listed, defaultCtx, defaultRefcnt, initCount, monitor, stopAsked, walk,
  defaultLock, startStopLock, pc, mine, holds, failed, uevented,
  bus, uevents, changes, made, addr, parent, refs, attached, usbDevs, pipeReady,
  hotplugMsgs, missed, devList, handleDev, callback, enumerating, orphans,
  bound, alt, config, there, claimed, autoDetach, handleLock, doing, left, lost, ops,
  where, look, seen, expected, ifs, caps, reported, torn

\* A device behind a hub
HubOf == [a \in Addrs |-> IF a = "dev" THEN "hub" ELSE "none"]

Events == INSTANCE EventHandling
Context == INSTANCE UsbContext
Devices == INSTANCE UsbDevices
Interfaces == INSTANCE UsbInterfaces
Descriptors == INSTANCE ConfigDescriptors

eventVars == <<thread, fds, done, calls, inFlight, reapable, modify, owner, active, waiters,
               ctrlPipe, hotplugPipe, pollfds, opens, opened, closer, op>>
ctxVars == <<allocated, alive, listed, defaultCtx, defaultRefcnt, initCount, monitor,
             stopAsked, walk, defaultLock, startStopLock, pc, mine, holds, failed, uevented>>
devVars == <<bus, uevents, changes, made, addr, parent, refs, attached, usbDevs, pipeReady,
             hotplugMsgs, missed, devList, handleDev, callback, enumerating, orphans>>
ifVars == <<bound, alt, config, there, claimed, autoDetach, handleLock, doing, left, lost,
            ops>>
parseVars == <<where, look, seen, expected, ifs, caps, reported, torn>>
all == <<part, eventVars, ctxVars, devVars, ifVars, parseVars>>

Init ==
  /\ part \in {"events", "context", "devices", "interfaces", "descriptors"}
  /\ Events!Init /\ Context!Init /\ Devices!Init /\ Interfaces!Init /\ Descriptors!Init

ByEvents(A) ==
  part = "events" /\ A /\ UNCHANGED <<part, ctxVars, devVars, ifVars, parseVars>>
ByContext(A) ==
  part = "context" /\ A /\ UNCHANGED <<part, eventVars, devVars, ifVars, parseVars>>
ByDevices(A) ==
  part = "devices" /\ A /\ UNCHANGED <<part, eventVars, ctxVars, ifVars, parseVars>>
ByInterfaces(A) ==
  part = "interfaces" /\ A /\ UNCHANGED <<part, eventVars, ctxVars, devVars, parseVars>>
ByDescriptors(A) ==
  part = "descriptors" /\ A /\ UNCHANGED <<part, eventVars, ctxVars, devVars, ifVars>>

Next ==
  \/ ByEvents(Events!Next) \/ ByContext(Context!Next) \/ ByDevices(Devices!Next)
  \/ ByInterfaces(Interfaces!Next) \/ ByDescriptors(Descriptors!Next)

\* The fairness of EventHandling, and of the calls and the event thread of
\* UsbContext
Fairness ==
  /\ \A t \in Threads :
       WF_all(ByEvents(Events!ThreadStep(t))) /\ SF_all(ByEvents(Events!TakesMutex(t)))
  /\ WF_all(ByEvents(Events!CloserStep)) /\ SF_all(ByEvents(Events!CloserMutex))
  /\ WF_all(ByContext(Context!MonitorStep))
  /\ \A t \in Callers : WF_all(ByContext(Context!CallStep(t)))

Steps == Init /\ [][Next]_all
Spec == Steps /\ Fairness

-----------------------------------------------------------------------------
(* The properties of the parts, which their modules explain, each with the *)
(* type invariant of its part.                                             *)

\* A descriptor is never closed under the thread that polls it.
ClosedNotPolled == part = "events" => Events!TypeOK /\ Events!ClosedNotPolled

\* A context lives as long as anyone may use it, and no longer.
ContextsOutliveUse == part = "context" => Context!TypeOK /\ Context!ContextsOutliveUse

\* Reference counts are exact, and the list of devices follows the bus.
DevicesAccounted ==
  part = "devices" => Devices!TypeOK /\ Devices!RefsExact /\ Devices!ListMatchesBus

\* What the library takes for claimed belongs to the handle.
ClaimedIsOwned == part = "interfaces" => Interfaces!TypeOK /\ Interfaces!ClaimedIsOwned

\* A parsed descriptor has something behind every index it counts.
CountsAreFilled == part = "descriptors" => Descriptors!TypeOK /\ Descriptors!CountsAreFilled

\* Calls end: those that wait for a transfer, that open or close a device, and
\* libusb_init and libusb_exit.
CallsReturn == Events!EventsAreHandled /\ Context!CallsReturn
=============================================================================
