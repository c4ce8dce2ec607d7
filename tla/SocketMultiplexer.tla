-------------------------- MODULE SocketMultiplexer --------------------------
(***************************************************************************)
(* SocketReceiveMultiplexer of oscpack (posix/UdpSocket.cpp): the loop     *)
(* that waits in select for packets, timers and a break, and hands them to *)
(* listeners; TuioClient runs it in a thread of its own.  Break only sets  *)
(* a flag; AsynchronousBreak also writes to a pipe that select watches.    *)
(***************************************************************************)
EXTENDS Naturals, Sequences, SequencesExt, FiniteSets

CONSTANTS
  Sockets, Timers,
  Periods,       \* of a timer, in milliseconds, and initial delays
  MaxTime, MaxPackets, MaxBreaks

VARIABLES
  attached,      \* timerListeners_: the initial delay and the period of each timer
  break_, breakPipe,
  run,           \* where Run is
  timerQueue,    \* sequence of [due, timer]
  deadline,      \* when select times out; 0 for never
  ready,         \* sockets that select found readable and that are still to be read
  called,        \* timers called in this turn, the first ones of the queue
  now,           \* GetCurrentTimeMs
  currentTimeMs,
  inbox, packets,
  breaker,       \* the thread in AsynchronousBreak: "idle" or "write"
  breaks,
  asked          \* AsynchronousBreak has returned for the Run in progress

muxVars == <<attached, break_, breakPipe, run, timerQueue, deadline, ready, called, now,
             currentTimeMs, inbox, packets, breaker, breaks, asked>>
outside == <<attached, inbox, packets, breaker, breaks>>

NoTimers == [t \in {} |-> 0]

Init ==
  /\ attached = NoTimers /\ break_ = FALSE /\ breakPipe = 0
  /\ run = "idle" /\ timerQueue = <<>> /\ deadline = 0 /\ ready = {} /\ called = 0
  /\ now = 0 /\ currentTimeMs = 0 /\ inbox = [s \in Sockets |-> 0] /\ packets = 0
  /\ breaker = "idle" /\ breaks = 0 /\ asked = FALSE

\* Before Run only: AttachPeriodicTimerListener, which takes the period for the initial
\* delay unless it is given one, and DetachPeriodicTimerListener
Attach(t, delay, ms) ==
  /\ run = "idle" /\ t \notin DOMAIN attached
  /\ attached' = [u \in DOMAIN attached \cup {t} |->
                    IF u = t THEN [delay |-> delay, period |-> ms] ELSE attached[u]]
  /\ UNCHANGED <<break_, breakPipe, run, timerQueue, deadline, ready, called, now,
                 currentTimeMs, inbox, packets, breaker, breaks, asked>>
Detach(t) ==
  /\ run = "idle" /\ t \in DOMAIN attached
  /\ attached' = [u \in DOMAIN attached \ {t} |-> attached[u]]
  /\ UNCHANGED <<break_, breakPipe, run, timerQueue, deadline, ready, called, now,
                 currentTimeMs, inbox, packets, breaker, breaks, asked>>

-----------------------------------------------------------------------------
(* Run.                                                                    *)

\* std::sort by the time that is due: entries with the same time may come in any order.
Sorted(entries) ==
  {q \in [1..Cardinality(entries) -> entries] :
     IsInjective(q) /\ \A i, j \in DOMAIN q : i < j => q[i].due <= q[j].due}

\* The queue of timers is set up, and a break from before is forgotten.
RunBegins ==
  /\ run = "idle" /\ run' = "loop" /\ break_' = FALSE /\ asked' = FALSE
  /\ timerQueue' \in Sorted({[due |-> now + attached[t].delay, timer |-> t] : t \in DOMAIN attached})
  /\ deadline' = 0 /\ ready' = {} /\ called' = 0
  /\ UNCHANGED <<outside, breakPipe, now, currentTimeMs>>

\* while (!break_), and the timeout for select
BeforeSelect ==
  /\ run = "loop" /\ run' = IF break_ THEN "idle" ELSE "select"
  /\ deadline' = IF timerQueue = <<>> THEN 0 ELSE Head(timerQueue).due
  /\ UNCHANGED <<outside, break_, breakPipe, timerQueue, ready, called, now, currentTimeMs,
                 asked>>

Readable == {s \in Sockets : inbox[s] > 0}

\* Mutant: the pipe is not among the descriptors.
WithoutPipe == Readable # {} \/ (deadline # 0 /\ now >= deadline)
\* A packet, a byte in the pipe, or the timeout
SelectReady == WithoutPipe \/ breakPipe > 0

\* select returns, one byte of the pipe is read, and break_ is tested.
AfterSelect ==
  /\ run = "select" /\ SelectReady
  /\ breakPipe' = IF breakPipe > 0 THEN breakPipe - 1 ELSE 0
  /\ ready' = IF break_ THEN {} ELSE Readable
  /\ run' = IF break_ THEN "idle" ELSE "sockets"
  /\ UNCHANGED <<outside, break_, timerQueue, deadline, called, now, currentTimeMs, asked>>

\* EINTR: the descriptor sets are as before the call, so that the pipe and every socket
\* seem readable, and reading them blocks.
Interrupted ==
  /\ run = "select" /\ run' = "interrupted"
  /\ UNCHANGED <<outside, break_, breakPipe, timerQueue, deadline, ready, called, now,
                 currentTimeMs, asked>>
AfterInterrupt ==
  /\ run = "interrupted" /\ breakPipe > 0 /\ breakPipe' = breakPipe - 1
  /\ ready' = IF break_ THEN {} ELSE Sockets
  /\ run' = IF break_ THEN "idle" ELSE "sockets"
  /\ UNCHANGED <<outside, break_, timerQueue, deadline, called, now, currentTimeMs, asked>>

\* ReceiveFrom and ProcessPacket, whose listener may call Break
ProcessPacket(s, breaking) ==
  /\ run = "sockets" /\ s \in ready /\ inbox[s] > 0
  /\ inbox' = [inbox EXCEPT ![s] = @ - 1]
  /\ break_' = (break_ \/ breaking)
  /\ ready' = IF break_' THEN {} ELSE ready \ {s}
  /\ UNCHANGED <<attached, breakPipe, run, timerQueue, deadline, called, now, currentTimeMs,
                 packets, breaker, breaks, asked>>

SocketsDone ==
  /\ run = "sockets" /\ ready = {}
  /\ run' = "timers" /\ currentTimeMs' = now /\ called' = 0
  /\ UNCHANGED <<outside, break_, breakPipe, timerQueue, deadline, ready, now, asked>>

TimerDue == called < Len(timerQueue) /\ timerQueue[called + 1].due <= currentTimeMs

\* TimerExpired for the next timer of the queue; its time is moved on, unless a break
\* ends the loop.
TimerExpired(breaking) ==
  /\ run = "timers" /\ TimerDue
  /\ break_' = (break_ \/ breaking)
  /\ IF break_' THEN run' = "resort" /\ UNCHANGED <<called, timerQueue>>
     ELSE /\ called' = called + 1 /\ UNCHANGED run
          /\ timerQueue' = [timerQueue EXCEPT ![called + 1].due =
                              @ + attached[timerQueue[called + 1].timer].period]
  /\ UNCHANGED <<outside, breakPipe, deadline, ready, now, currentTimeMs, asked>>

TimersDone ==
  /\ run = "timers" /\ ~TimerDue
  /\ run' = "resort"
  /\ UNCHANGED <<outside, break_, breakPipe, timerQueue, deadline, ready, called, now,
                 currentTimeMs, asked>>

\* Mutant: the order of the timers is kept.
AsTheyAre == {timerQueue}
\* What the queue may be after the timers were called
Resorted == IF called > 0 THEN Sorted(Range(timerQueue)) ELSE {timerQueue}

Resort ==
  /\ run = "resort"
  /\ timerQueue' \in Resorted
  /\ run' = "loop"
  /\ UNCHANGED <<outside, break_, breakPipe, deadline, ready, called, now, currentTimeMs,
                 asked>>

RunStep ==
  \/ BeforeSelect \/ AfterSelect \/ AfterInterrupt \/ SocketsDone \/ TimersDone \/ Resort
  \/ \E b \in BOOLEAN : TimerExpired(b) \/ \E s \in Sockets : ProcessPacket(s, b)

-----------------------------------------------------------------------------
(* The others.                                                             *)

PacketArrives(s) ==
  /\ packets < MaxPackets /\ packets' = packets + 1
  /\ inbox' = [inbox EXCEPT ![s] = @ + 1]
  /\ UNCHANGED <<attached, break_, breakPipe, run, timerQueue, deadline, ready, called, now,
                 currentTimeMs, breaker, breaks, asked>>

Tick ==
  /\ now < MaxTime /\ now' = now + 1
  /\ UNCHANGED <<outside, break_, breakPipe, run, timerQueue, deadline, ready, called,
                 currentTimeMs, asked>>

\* Break, as TuioClient::disconnect calls it from another thread: select is not told.
Break ==
  /\ breaks < MaxBreaks /\ breaks' = breaks + 1 /\ break_' = TRUE
  /\ UNCHANGED <<attached, breakPipe, run, timerQueue, deadline, ready, called, now,
                 currentTimeMs, inbox, packets, breaker, asked>>

\* AsynchronousBreak: the flag, then the pipe
AsynchronousBreak ==
  /\ breaker = "idle" /\ breaks < MaxBreaks /\ breaks' = breaks + 1
  /\ break_' = TRUE /\ breaker' = "write"
  /\ UNCHANGED <<attached, breakPipe, run, timerQueue, deadline, ready, called, now,
                 currentTimeMs, inbox, packets, asked>>
WriteBreakPipe ==
  /\ breaker = "write" /\ breaker' = "idle"
  /\ breakPipe' = breakPipe + 1 /\ asked' = (run # "idle" /\ break_)
  /\ UNCHANGED <<attached, break_, run, timerQueue, deadline, ready, called, now,
                 currentTimeMs, inbox, packets, breaks>>

Next ==
  \/ RunBegins \/ RunStep \/ Interrupted
  \/ \E t \in Timers : Detach(t) \/ \E delay, ms \in Periods : Attach(t, delay, ms)
  \/ \E s \in Sockets : PacketArrives(s)
  \/ Tick \/ Break \/ AsynchronousBreak \/ WriteBreakPipe

Spec == Init /\ [][Next]_muxVars

\* The thread in Run runs, and select returns when it may.
FairSpec == Spec /\ WF_muxVars(RunStep)

\* select never sleeps longer than until the timer that is due first, whatever timers
\* were called in the last turn (UdpSocket.cpp:469).
NotOverslept ==
  run = "select" => \A k \in DOMAIN timerQueue : deadline <= timerQueue[k].due

\* recvfrom of sockets without a packet, after an interrupted select and a byte that an
\* earlier break left in the pipe
BlockedInReceive == run = "sockets" /\ ready # {} /\ \A s \in ready : inbox[s] = 0

\* AsynchronousBreak, once it has returned during Run, ends Run even if no packet and no
\* timer ever comes (UdpSocket.cpp:431), after other breaks, and after an interrupted
\* select unless that has led to a blocking read.
BreakEndsRun == asked ~> run = "idle" \/ BlockedInReceive

-----------------------------------------------------------------------------
(* The inductive invariant: the queue is in order except while its timers  *)
(* are called, and the timeout of select is the time of its first entry.   *)
QueueTypes ==
  /\ DOMAIN attached \subseteq Timers
  /\ \A t \in DOMAIN attached : attached[t] \in [delay : Periods, period : Periods]
  /\ now \in Nat /\ called \in Nat
  /\ run # "idle" => timerQueue \in Seq([due : Nat, timer : DOMAIN attached])

OrderInv ==
  (IF run \in {"timers", "resort"} THEN called = 0 ELSE run # "idle") =>
    \A i, j \in 1..Len(timerQueue) : i < j => timerQueue[i].due <= timerQueue[j].due

DeadlineInv ==
  run = "select" => deadline = IF timerQueue = <<>> THEN 0 ELSE Head(timerQueue).due

IndInv == QueueTypes /\ OrderInv /\ DeadlineInv
=============================================================================
