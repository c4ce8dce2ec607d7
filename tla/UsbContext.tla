----------------------------- MODULE UsbContext -----------------------------
(***************************************************************************)
(* libusb_init and libusb_exit (core.c), called by several threads, with   *)
(* the netlink event monitor they start for the first context and stop     *)
(* after the last (linux_usbfs.c, linux_netlink.c).  A thread asks for the *)
(* default context (NULL) or for one of its own; the first context of any  *)
(* kind becomes the default one.  Every step that can fail may fail.       *)
(***************************************************************************)
EXTENDS Naturals, FiniteSets

CONSTANTS
  Callers,      \* threads of the program
  MaxCtxs,      \* bound on the contexts allocated
  MaxUevents    \* bound on the kernel's messages to the monitor

Ctxs == 1..MaxCtxs
None == 0

VARIABLES
  allocated,    \* contexts allocated so far
  alive,        \* contexts not freed
  listed,       \* active_contexts_list
  defaultCtx, defaultRefcnt, \* usbi_default_context, default_context_refcnt
  initCount,    \* init_count of linux_usbfs.c
  monitor,      \* the event thread: "off", "polling", "walking"
  stopAsked,    \* netlink_control_pipe was written to
  walk,         \* contexts the event thread still has to deal with
  defaultLock, startStopLock,  \* who holds the static mutexes
  pc, mine,     \* a thread's place in its call, and the context it works on
  holds,        \* what the thread's last successful libusb_init gave it
  failed,       \* some libusb_init has failed
  uevented      \* kernel messages so far

ctxVars == <<allocated, alive, listed, defaultCtx, defaultRefcnt, initCount, monitor,
             stopAsked, walk, defaultLock, startStopLock, pc, mine, holds, failed,
             uevented>>

Init ==
  /\ allocated = 0 /\ alive = {} /\ listed = {} /\ defaultCtx = None
  /\ defaultRefcnt = 0 /\ initCount = 0 /\ monitor = "off" /\ stopAsked = FALSE
  /\ walk = {} /\ defaultLock = "free" /\ startStopLock = "free"
  /\ pc = [t \in Callers |-> "idle"] /\ mine = [t \in Callers |-> None]
  /\ holds = [t \in Callers |-> "nothing"] /\ failed = FALSE /\ uevented = 0

Goto(t, l) == pc' = [pc EXCEPT ![t] = l]

-----------------------------------------------------------------------------
(* The event monitor.  active_contexts_lock is held while walk # {}.       *)

KernelMessage ==
  /\ monitor = "polling" /\ uevented < MaxUevents /\ listed # {}
  /\ uevented' = uevented + 1 /\ monitor' = "walking" /\ walk' = listed
  /\ UNCHANGED <<allocated, alive, listed, defaultCtx, defaultRefcnt, initCount,
                 stopAsked, defaultLock, startStopLock, pc, mine, holds, failed>>

\* linux_hotplug_enumerate, linux_device_disconnected: one context after the other
WalkContext(c) ==
  /\ c \in walk /\ walk' = walk \ {c}
  /\ monitor' = IF walk = {c} THEN "polling" ELSE "walking"
  /\ UNCHANGED <<allocated, alive, listed, defaultCtx, defaultRefcnt, initCount,
                 stopAsked, defaultLock, startStopLock, pc, mine, holds, failed, uevented>>

\* The thread ends when it finds the control pipe readable.
MonitorEnds ==
  /\ monitor = "polling" /\ stopAsked /\ monitor' = "off" /\ stopAsked' = FALSE
  /\ UNCHANGED <<allocated, alive, listed, defaultCtx, defaultRefcnt, initCount, walk,
                 defaultLock, startStopLock, pc, mine, holds, failed, uevented>>

-----------------------------------------------------------------------------
(* libusb_init.  default_context_lock is held all the way.                 *)

ShareDefault(t) ==
  /\ pc[t] = "idle" /\ holds[t] = "nothing" /\ defaultLock = "free" /\ defaultCtx # None
  /\ defaultRefcnt' = defaultRefcnt + 1 /\ holds' = [holds EXCEPT ![t] = "default"]
  /\ UNCHANGED <<allocated, alive, listed, defaultCtx, initCount, monitor, stopAsked, walk,
                 defaultLock, startStopLock, pc, mine, failed, uevented>>

\* calloc; the first context is the default one
Allocate(t, own) ==
  /\ pc[t] = "idle" /\ holds[t] = "nothing" /\ defaultLock = "free"
  /\ ~own => defaultCtx = None
  /\ allocated < MaxCtxs /\ allocated' = allocated + 1 /\ defaultLock' = t
  /\ alive' = alive \union {allocated'} /\ mine' = [mine EXCEPT ![t] = allocated']
  /\ IF defaultCtx = None
       THEN defaultCtx' = allocated' /\ defaultRefcnt' = defaultRefcnt + 1
       ELSE UNCHANGED <<defaultCtx, defaultRefcnt>>
  /\ holds' = [holds EXCEPT ![t] = IF own THEN "own" ELSE "default"]
  /\ Goto(t, "list")
  /\ UNCHANGED <<listed, initCount, monitor, stopAsked, walk, startStopLock, failed,
                 uevented>>

ListContext(t) ==
  /\ pc[t] = "list" /\ walk = {} /\ listed' = listed \union {mine[t]}
  /\ Goto(t, "init")
  /\ UNCHANGED <<allocated, alive, defaultCtx, defaultRefcnt, initCount, monitor, stopAsked,
                 walk, defaultLock, startStopLock, mine, holds, failed, uevented>>

\* op_init before the lock: usbfs is not there, or uname fails.
BackendMissing(t) ==
  /\ pc[t] = "init" /\ Goto(t, "clean")
  /\ UNCHANGED <<allocated, alive, listed, defaultCtx, defaultRefcnt, initCount, monitor,
                 stopAsked, walk, defaultLock, startStopLock, mine, holds, failed, uevented>>

\* if (init_count == 0) r = linux_start_event_monitor()
StartMonitor(t, ok) ==
  /\ pc[t] = "init" /\ startStopLock = "free"
  /\ ~ok => initCount = 0
  /\ monitor' = IF initCount = 0 /\ ok THEN "polling" ELSE monitor
  /\ startStopLock' = IF ok THEN t ELSE "free"
  /\ Goto(t, IF ok THEN "scan" ELSE "clean")
  /\ UNCHANGED <<allocated, alive, listed, defaultCtx, defaultRefcnt, initCount, stopAsked,
                 walk, defaultLock, mine, holds, failed, uevented>>

\* linux_scan_devices, under linux_hotplug_lock, which the event thread holds too
ScanDevices(t, ok) ==
  /\ pc[t] = "scan" /\ monitor # "walking"
  /\ initCount' = IF ok THEN initCount + 1 ELSE initCount
  /\ stopAsked' = (~ok /\ initCount = 0)
  /\ startStopLock' = IF stopAsked' THEN t ELSE "free"
  /\ Goto(t, IF ok THEN "io" ELSE IF stopAsked' THEN "join" ELSE "clean")
  /\ UNCHANGED <<allocated, alive, listed, defaultCtx, defaultRefcnt, monitor, walk,
                 defaultLock, mine, holds, failed, uevented>>

IoInit(t, ok) ==
  /\ pc[t] = "io" /\ Goto(t, IF ok THEN "idle" ELSE "opexit")
  /\ defaultLock' = IF ok THEN "free" ELSE defaultLock
  /\ UNCHANGED <<allocated, alive, listed, defaultCtx, defaultRefcnt, initCount, monitor,
                 stopAsked, walk, startStopLock, mine, holds, failed, uevented>>

\* err_free_ctx; default_context_refcnt stays as it is.
Clean(t) ==
  /\ pc[t] = "clean" /\ walk = {} /\ defaultLock = t
  /\ defaultCtx' = IF defaultCtx = mine[t] THEN None ELSE defaultCtx
  /\ listed' = listed \ {mine[t]} /\ alive' = alive \ {mine[t]}
  /\ mine' = [mine EXCEPT ![t] = None] /\ holds' = [holds EXCEPT ![t] = "nothing"]
  /\ defaultLock' = "free" /\ failed' = TRUE /\ Goto(t, "idle")
  /\ UNCHANGED <<allocated, defaultRefcnt, initCount, monitor, stopAsked, walk,
                 startStopLock, uevented>>

-----------------------------------------------------------------------------
(* libusb_exit.                                                            *)

\* Mutant: the context is destroyed whoever else uses it.
Always(c) == TRUE
\* if (ctx == usbi_default_context) if (--default_context_refcnt > 0) return
LastUser(c) == c # defaultCtx \/ defaultRefcnt = 1

Exit(t) ==
  /\ pc[t] = "idle" /\ holds[t] # "nothing" /\ defaultLock = "free"
  /\ LET c == IF holds[t] = "default" THEN defaultCtx ELSE mine[t]
     IN /\ defaultRefcnt' = IF c = defaultCtx THEN defaultRefcnt - 1 ELSE defaultRefcnt
        /\ defaultCtx' = IF LastUser(c) /\ c = defaultCtx THEN None ELSE defaultCtx
        /\ mine' = [mine EXCEPT ![t] = IF LastUser(c) THEN c ELSE None]
        /\ Goto(t, IF LastUser(c) THEN "unlist" ELSE "idle")
  /\ holds' = [holds EXCEPT ![t] = "nothing"]
  /\ UNCHANGED <<allocated, alive, listed, initCount, monitor, stopAsked, walk, defaultLock,
                 startStopLock, failed, uevented>>

ActiveLockFree == walk = {}

\* list_del; usbi_hotplug_deregister_all, the devices and usbi_io_exit follow,
\* which nobody else can reach any more.
Unlist(t) ==
  /\ pc[t] = "unlist" /\ ActiveLockFree
  /\ listed' = listed \ {mine[t]} /\ Goto(t, "opexit")
  /\ UNCHANGED <<allocated, alive, defaultCtx, defaultRefcnt, initCount, monitor, stopAsked,
                 walk, defaultLock, startStopLock, mine, holds, failed, uevented>>

\* op_exit; the last one asks the monitor to stop.
OpExit(t) ==
  /\ pc[t] = "opexit" /\ startStopLock = "free" /\ initCount' = initCount - 1
  /\ stopAsked' = (initCount = 1) /\ startStopLock' = IF initCount = 1 THEN t ELSE "free"
  /\ Goto(t, IF initCount = 1 THEN "join" ELSE IF defaultLock = t THEN "clean" ELSE "free")
  /\ UNCHANGED <<allocated, alive, listed, defaultCtx, defaultRefcnt, monitor, walk,
                 defaultLock, mine, holds, failed, uevented>>

\* linux_netlink_stop_event_monitor: pthread_join and close
JoinMonitor(t) ==
  /\ pc[t] = "join" /\ monitor = "off" /\ startStopLock' = "free"
  /\ Goto(t, IF defaultLock = t THEN "clean" ELSE "free")
  /\ UNCHANGED <<allocated, alive, listed, defaultCtx, defaultRefcnt, initCount, monitor,
                 stopAsked, walk, defaultLock, mine, holds, failed, uevented>>

FreeContext(t) ==
  /\ pc[t] = "free" /\ alive' = alive \ {mine[t]} /\ mine' = [mine EXCEPT ![t] = None]
  /\ Goto(t, "idle")
  /\ UNCHANGED <<allocated, listed, defaultCtx, defaultRefcnt, initCount, monitor, stopAsked,
                 walk, defaultLock, startStopLock, holds, failed, uevented>>

MonitorStep == (\E c \in Ctxs : WalkContext(c)) \/ MonitorEnds
CallStep(t) ==
  \/ ListContext(t) \/ BackendMissing(t) \/ Clean(t) \/ Unlist(t) \/ OpExit(t)
  \/ JoinMonitor(t) \/ FreeContext(t)
  \/ \E ok \in BOOLEAN : StartMonitor(t, ok) \/ ScanDevices(t, ok) \/ IoInit(t, ok)

Next ==
  \/ KernelMessage \/ MonitorStep
  \/ \E t \in Callers : ShareDefault(t) \/ Exit(t) \/ CallStep(t)
  \/ \E t \in Callers, own \in BOOLEAN : Allocate(t, own)

Spec == Init /\ [][Next]_ctxVars

-----------------------------------------------------------------------------
TypeOK ==
  /\ listed \subseteq alive /\ alive \subseteq 1..allocated
  /\ defaultCtx \in alive \union {None} /\ monitor \in {"off", "polling", "walking"}
  /\ defaultRefcnt \in Nat /\ initCount \in 0..MaxCtxs
  /\ \A t \in Callers : mine[t] \in alive \union {None}

Ready(t) == IF holds[t] = "default" THEN defaultCtx ELSE mine[t]

\* Whoever was given a context can use it until it gives it back, whatever other
\* threads open, fail to open or close meanwhile; the event thread never touches
\* a context that was freed; it runs exactly while a backend is initialised; and
\* unless an initialisation failed, the last one to leave leaves nothing behind.
ContextsOutliveUse ==
  /\ \A t \in Callers : pc[t] = "idle" /\ holds[t] # "nothing" =>
       Ready(t) \in alive /\ Ready(t) \in listed
  /\ walk \subseteq alive
  /\ startStopLock = "free" => ((monitor # "off") = (initCount > 0))
  /\ (\A t \in Callers : pc[t] = "idle" /\ holds[t] = "nothing") /\ ~failed =>
       alive = {} /\ monitor = "off" /\ defaultRefcnt = 0

\* A call has a context of its own, which default_context_lock tells apart from
\* those that other calls initialise, and which is in the list until libusb_exit
\* takes it out.
Initialising(t) == defaultLock = t
Exiting(t) == pc[t] # "idle" /\ ~Initialising(t)
PlaceInv ==
  /\ pc \in [Callers -> {"idle", "list", "init", "scan", "io", "clean", "unlist", "opexit",
                         "join", "free"}]
  /\ mine \in [Callers -> Ctxs \union {None}] /\ allocated \in 0..MaxCtxs
  /\ holds \in [Callers -> {"nothing", "own", "default"}]
  /\ defaultLock \in Callers \union {"free"} /\ startStopLock \in Callers \union {"free"}
  /\ failed \in BOOLEAN /\ stopAsked \in BOOLEAN
  /\ \A t \in Callers :
       /\ pc[t] \in {"list", "init", "scan", "io", "clean"} => Initialising(t)
       /\ pc[t] \in {"idle", "unlist", "free"} => ~Initialising(t)
       /\ (startStopLock = t) <=> (pc[t] \in {"scan", "join"})
       /\ Initialising(t) => holds[t] # "nothing"
       /\ Exiting(t) => holds[t] = "nothing"
MineInv ==
  /\ \A t \in Callers :
       /\ pc[t] # "idle" \/ holds[t] = "own" => mine[t] # None
       /\ pc[t] = "idle" /\ holds[t] = "nothing" => mine[t] = None
       /\ pc[t] \in {"init", "scan", "io"} => mine[t] \in listed
       /\ pc[t] = "idle" /\ holds[t] = "own" => mine[t] \in listed
       /\ Exiting(t) /\ pc[t] # "unlist" => mine[t] \notin listed
  /\ \A t, u \in Callers : t # u /\ mine[t] = mine[u] => mine[t] = None
  /\ \A c \in alive : c = defaultCtx \/ \E t \in Callers : c = mine[t]
  /\ walk \subseteq listed

\* default_context_refcnt counts those who use the default context, and more once
\* an initialisation failed.
DefaultUsers ==
  {t \in Callers : holds[t] = "default" \/ (holds[t] = "own" /\ mine[t] = defaultCtx)}
RefcntInv ==
  /\ Cardinality(DefaultUsers) <= defaultRefcnt
  /\ ~failed => Cardinality(DefaultUsers) = defaultRefcnt
DefaultInv ==
  /\ defaultCtx # None => defaultRefcnt > 0 /\
       (defaultCtx \in listed \/ \E t \in Callers : Initialising(t) /\ mine[t] = defaultCtx)
  /\ \A t \in Callers :
       /\ holds[t] = "default" => defaultCtx # None
       /\ holds[t] = "default" /\ (mine[t] # None \/ Initialising(t)) => mine[t] = defaultCtx
       /\ holds[t] = "nothing" /\ mine[t] # None => mine[t] # defaultCtx
       /\ Initialising(t) /\ mine[t] = defaultCtx =>
            \A u \in Callers : u # t => holds[u] # "default"

\* init_count counts the contexts whose backend is initialised, and the event
\* thread runs while there is one, except while it is started or stopped.
Uncounted == {t \in Callers : pc[t] \in {"list", "init", "scan", "join", "clean", "free"}}
Initialised == alive \ {mine[t] : t \in Uncounted}
CountInv == initCount = Cardinality(Initialised)
MonitorInv ==
  /\ (monitor = "walking") <=> (walk # {})
  /\ startStopLock = "free" => (monitor # "off" <=> initCount > 0)
  /\ stopAsked => monitor # "off" /\ \E t \in Callers : pc[t] = "join"
  /\ \A t \in Callers :
       /\ pc[t] = "scan" => monitor # "off"
       /\ pc[t] = "join" => initCount = 0
IndInv ==
  TypeOK /\ PlaceInv /\ MineInv /\ DefaultInv /\ RefcntInv /\ CountInv /\ MonitorInv

\* No call is stuck: the locks, the event thread and whoever joins it never wait
\* for each other in a circle.
CallsReturn == \A t \in Callers : pc[t] # "idle" ~> pc[t] = "idle"
=============================================================================
