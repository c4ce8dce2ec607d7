----------------------------- MODULE UsbDevices -----------------------------
(***************************************************************************)
(* The devices of one libusb context: how they are found and lost          *)
(* (linux_usbfs.c, linux_netlink.c), counted references (core.c) and told  *)
(* of to a hotplug callback (hotplug.c).  The kernel announces changes in  *)
(* a netlink socket, read by the event monitor's thread or, before a       *)
(* device list is made, by the caller, both under linux_hotplug_lock.  A   *)
(* device object is a number; the objects of an address follow each other. *)
(***************************************************************************)
EXTENDS Naturals, Sequences, FiniteSets, SequencesExt

CONSTANTS
  Addrs,        \* addresses on the bus
  HubOf,        \* the address of a device's hub, "none" for a root hub
  InitialBus,   \* what is plugged in when the program starts
  MaxObjs,      \* bound on the device objects made
  MaxChanges    \* bound on pluggings and unpluggings

Objs == 1..MaxObjs
None == 0

VARIABLES
  bus, uevents, changes,   \* devices there; kernel messages; changes so far
  made,         \* device objects made so far
  addr, parent, refs, attached,   \* fields of the objects
  usbDevs,      \* ctx->usb_devs
  pipeReady, hotplugMsgs,  \* hotplug_pipe exists; the messages in it
  missed,       \* addresses whose enumeration failed for lack of memory
  devList, handleDev,      \* what the program holds: a device list, a handle
  callback, enumerating,   \* the hotplug callback; devices it still has to be told of
  orphans       \* objects whose last reference nobody will drop

busVars == <<bus, uevents, changes>>
objVars == <<made, addr, parent, refs, attached, usbDevs, hotplugMsgs, missed, orphans>>
userVars == <<devList, handleDev, callback, enumerating>>
devVars == <<busVars, objVars, pipeReady, userVars>>

Init ==
  /\ bus = InitialBus /\ uevents = <<>> /\ changes = 0 /\ made = 0
  /\ addr = [o \in Objs |-> "none"] /\ parent = [o \in Objs |-> None]
  /\ refs = [o \in Objs |-> 0] /\ attached = [o \in Objs |-> FALSE]
  /\ usbDevs = {} /\ pipeReady = FALSE /\ hotplugMsgs = <<>> /\ missed = {}
  /\ devList = {} /\ handleDev = None /\ callback = "none" /\ enumerating = {}
  /\ orphans = {}

-----------------------------------------------------------------------------
(* The bus.                                                                *)

Behind(a) == {b \in Addrs : b = a \/ HubOf[b] = a}

Plug(a) ==
  /\ a \notin bus /\ (HubOf[a] \in bus \/ HubOf[a] = "none") /\ changes < MaxChanges
  /\ bus' = bus \union {a} /\ changes' = changes + 1
  /\ uevents' = Append(uevents, <<"add", a>>)
  /\ UNCHANGED <<objVars, pipeReady, userVars>>

\* With a hub everything behind it goes, first.
Unplug(a) ==
  /\ a \in bus /\ changes < MaxChanges /\ changes' = changes + 1
  /\ bus' = bus \ Behind(a)
  /\ uevents' = uevents \o
       SetToSeq({<<"remove", b>> : b \in (Behind(a) \ {a}) \intersect bus})
         \o <<<<"remove", a>>>>
  /\ UNCHANGED <<objVars, pipeReady, userVars>>

\* An event of another subsystem
OtherEvent ==
  /\ changes < MaxChanges /\ changes' = changes + 1
  /\ uevents' = Append(uevents, <<"other", "none">>)
  /\ UNCHANGED <<bus, objVars, pipeReady, userVars>>

-----------------------------------------------------------------------------
(* References.  D is the record of the object variables, so that several   *)
(* devices can be dealt with in one step.                                  *)

Now == [made |-> made, addr |-> addr, parent |-> parent, refs |-> refs,
        attached |-> attached, usbDevs |-> usbDevs, hotplugMsgs |-> hotplugMsgs,
        missed |-> missed, orphans |-> orphans]
Become(D) ==
  /\ made' = D.made /\ addr' = D.addr /\ parent' = D.parent /\ refs' = D.refs
  /\ attached' = D.attached /\ usbDevs' = D.usbDevs /\ missed' = D.missed
  /\ hotplugMsgs' = D.hotplugMsgs /\ orphans' = D.orphans

RefAll(D, S) == [D EXCEPT !.refs = [o \in Objs |-> IF o \in S THEN @[o] + 1 ELSE @[o]]]

\* A device and its hubs, up to the root
Upward(D, o) ==
  LET up[x \in Objs] == {x} \union (IF D.parent[x] = None THEN {} ELSE up[D.parent[x]])
  IN up[o]

\* Mutant: the reference a device has on its hub is kept.
UnrefSelf(D, o) == [D EXCEPT !.refs[o] = @ - 1]
\* libusb_unref_device: the last reference also drops the one on the hub.
Unref(D, o) ==
  LET dropped == {p \in Upward(D, o) :
        \A q \in Upward(D, o) : q # p /\ p \in Upward(D, q) => D.refs[q] = 1}
  IN [D EXCEPT !.refs = [p \in Objs |-> IF p \in dropped THEN @[p] - 1 ELSE @[p]]]
UnrefAll(D, S) == FoldLeft(Unref, D, SetToSeq(S))

ListedAt(D, a) == {o \in D.usbDevs : D.addr[o] = a}

\* usbi_disconnect_device: the first reference now belongs to the message, if
\* the pipe is ready.
Disconnect(D, o) ==
  [D EXCEPT !.attached[o] = FALSE, !.usbDevs = @ \ {o},
            !.hotplugMsgs = IF pipeReady THEN Append(@, <<"left", o>>) ELSE @,
            !.orphans = IF pipeReady THEN @ ELSE @ \union {o}]

\* usbi_alloc_device, initialize_device, usbi_sanitize_device and
\* usbi_connect_device
Connect(D, a, hubs) ==
  LET o == D.made + 1
      E == IF hubs = {} THEN D ELSE RefAll(D, hubs)
  IN [E EXCEPT !.made = o, !.addr[o] = a, !.refs[o] = 1, !.attached[o] = TRUE,
               !.parent[o] = IF hubs = {} THEN None ELSE CHOOSE h \in hubs : TRUE,
               !.usbDevs = @ \union {o},
               !.hotplugMsgs = IF pipeReady THEN Append(@, <<"arrived", o>>) ELSE @]

\* usbi_get_device_by_session_id
Known(D, a) == ListedAt(D, a) # {}

\* linux_enumerate_device of one device whose hub was looked for before: its
\* descriptors cannot be read when it is gone.
Enumerate1(D, a) ==
  IF Known(D, a) \/ a \notin bus \/ D.made = MaxObjs THEN D
  ELSE Connect(D, a, ListedAt(D, HubOf[a]))

\* linux_get_parent_info enumerates the hub first, if need be; short of memory
\* the device is forgotten.
Enumerate(D, a, ok) ==
  IF ~ok THEN [D EXCEPT !.missed = @ \union {a}]
  ELSE IF Known(D, a) \/ a \notin bus \/ HubOf[a] = "none" THEN Enumerate1(D, a)
  ELSE Enumerate1(Enumerate1(D, HubOf[a]), a)

Disconnected(D, a) ==
  IF Known(D, a) THEN Disconnect(D, CHOOSE o \in ListedAt(D, a) : TRUE) ELSE D

\* linux_netlink_read_message
ReadMessage(D, e, ok) ==
  CASE e[1] = "add" -> Enumerate(D, e[2], ok)
    [] e[1] = "remove" -> Disconnected(D, e[2])
    [] e[1] = "other" -> D

-----------------------------------------------------------------------------
(* libusb_init: the monitor is already running when the bus is scanned, and *)
(* the pipe is made after that.                                            *)

ScanDevices ==
  /\ ~pipeReady /\ made = 0
  /\ Become(FoldLeft(LAMBDA D, a : Enumerate(D, a, TRUE), Now, SetToSeq(bus)))
  /\ UNCHANGED <<busVars, pipeReady, userVars>>
IoInit ==
  /\ ~pipeReady /\ (made > 0 \/ bus = {}) /\ pipeReady' = TRUE
  /\ UNCHANGED <<busVars, objVars, userVars>>

\* linux_netlink_event_thread_main; the monitor starts before the scan, which
\* then holds linux_hotplug_lock
EventThread(ok) ==
  /\ uevents # <<>> /\ (made > 0 \/ pipeReady)
  /\ ~ok => Head(uevents)[1] = "add"
  /\ Become(ReadMessage(Now, Head(uevents), ok)) /\ uevents' = Tail(uevents)
  /\ UNCHANGED <<bus, changes, pipeReady, userVars>>

-----------------------------------------------------------------------------
(* The program.                                                            *)

\* linux_netlink_hotplug_poll reads messages until one is not about USB.
Polled ==
  LET stops == {i \in 1..Len(uevents) : uevents[i][1] = "other"}
  IN IF stops = {} THEN Len(uevents) ELSE CHOOSE i \in stops : \A j \in stops : i <= j

\* libusb_get_device_list
GetDeviceList ==
  /\ pipeReady /\ devList = {}
  /\ LET D == FoldLeft(LAMBDA E, e : ReadMessage(E, e, TRUE), Now,
                       SubSeq(uevents, 1, Polled))
     IN Become(RefAll(D, D.usbDevs)) /\ devList' = D.usbDevs
  /\ uevents' = SubSeq(uevents, Polled + 1, Len(uevents))
  /\ UNCHANGED <<bus, changes, pipeReady, handleDev, callback, enumerating>>
FreeDeviceList ==
  /\ devList # {} /\ Become(UnrefAll(Now, devList)) /\ devList' = {}
  /\ UNCHANGED <<busVars, pipeReady, handleDev, callback, enumerating>>

\* libusb_open, op_open: a device that turns out to be gone is disconnected.
OpenDevice(o) ==
  /\ o \in devList /\ handleDev = None /\ attached[o]
  /\ IF addr[o] \in bus
       THEN Become(RefAll(Now, {o})) /\ handleDev' = o
       ELSE Become(Disconnected(Now, addr[o])) /\ UNCHANGED handleDev
  /\ UNCHANGED <<busVars, pipeReady, devList, callback, enumerating>>
CloseDevice ==
  /\ handleDev # None /\ Become(Unref(Now, handleDev)) /\ handleDev' = None
  /\ UNCHANGED <<busVars, pipeReady, devList, callback, enumerating>>

\* libusb_hotplug_register_callback with LIBUSB_HOTPLUG_ENUMERATE: the callback
\* is in the list before the devices there are gone through.
RegisterCallback ==
  /\ pipeReady /\ callback = "none" /\ callback' = "registered"
  /\ Become(RefAll(Now, usbDevs)) /\ enumerating' = usbDevs
  /\ UNCHANGED <<busVars, pipeReady, devList, handleDev>>
EnumerateDone ==
  /\ enumerating # {} /\ Become(UnrefAll(Now, enumerating)) /\ enumerating' = {}
  /\ UNCHANGED <<busVars, pipeReady, devList, handleDev, callback>>

\* libusb_hotplug_deregister_callback only marks it and sends an empty message.
DeregisterCallback ==
  /\ callback = "registered" /\ callback' = "dying"
  /\ Become([Now EXCEPT !.hotplugMsgs = Append(@, <<"none", None>>)])
  /\ UNCHANGED <<busVars, pipeReady, devList, handleDev, enumerating>>

\* if (LIBUSB_HOTPLUG_EVENT_DEVICE_LEFT == message.event) libusb_unref_device
AfterMessage(m) == IF m[1] = "left" THEN Unref(Now, m[2]) ELSE Now

\* handle_events reads a message; usbi_hotplug_match calls the callback, which
\* may ask to be removed, or frees one that is marked.
HandleMessage(remove) ==
  /\ pipeReady /\ hotplugMsgs # <<>>
  /\ remove => callback = "registered" /\ Head(hotplugMsgs)[1] # "none"
  /\ callback' = IF callback = "dying" \/ remove THEN "freed" ELSE callback
  /\ Become([AfterMessage(Head(hotplugMsgs)) EXCEPT !.hotplugMsgs = Tail(@)])
  /\ UNCHANGED <<busVars, pipeReady, devList, handleDev, enumerating>>

Next ==
  \/ \E a \in Addrs : Plug(a) \/ Unplug(a)
  \/ OtherEvent \/ ScanDevices \/ IoInit
  \/ \E ok \in BOOLEAN : EventThread(ok)
  \/ GetDeviceList \/ FreeDeviceList \/ CloseDevice
  \/ \E o \in Objs : OpenDevice(o)
  \/ RegisterCallback \/ EnumerateDone \/ DeregisterCallback
  \/ \E remove \in BOOLEAN : HandleMessage(remove)

Spec == Init /\ [][Next]_devVars

-----------------------------------------------------------------------------
TypeOK ==
  /\ bus \subseteq Addrs /\ made \in 0..MaxObjs /\ refs \in [Objs -> 0..6]
  /\ usbDevs \subseteq 1..made /\ devList \subseteq 1..made /\ handleDev \in 0..made
  /\ callback \in {"none", "registered", "dying", "freed"}

\* The reference count of a device is the number of those that hold one: the
\* list of the context or the message that it left, devices behind it, and the
\* program.  So a device is freed exactly when nobody knows it any more, and an
\* "arrived" message, which holds no reference, never outlives its device.
RefsExact ==
  /\ \A o \in 1..made :
       refs[o] = Cardinality({i \in 1..Len(hotplugMsgs) : hotplugMsgs[i] = <<"left", o>>})
         + Cardinality({p \in 1..made : parent[p] = o /\ refs[p] > 0})
         + (IF o \in usbDevs THEN 1 ELSE 0) + (IF o \in devList THEN 1 ELSE 0)
         + (IF o \in enumerating THEN 1 ELSE 0) + (IF o = handleDev THEN 1 ELSE 0)
         + (IF o \in orphans THEN 1 ELSE 0)
  /\ \A i \in 1..Len(hotplugMsgs) :
       hotplugMsgs[i][1] = "arrived" => refs[hotplugMsgs[i][2]] > 0

\* Once the kernel's messages are read the context lists exactly the devices on
\* the bus, one object for each: nothing is missed between the start of the
\* monitor and the scan, and messages about what the scan, a hub's enumeration
\* or a failed open had dealt with before change nothing.
ListMatchesBus ==
  /\ \A a \in Addrs : Cardinality({o \in usbDevs : addr[o] = a}) <= 1
  /\ uevents = <<>> /\ pipeReady /\ made < MaxObjs =>
       {addr[o] : o \in usbDevs} \subseteq bus
       /\ bus \subseteq {addr[o] : o \in usbDevs} \union missed
=============================================================================
