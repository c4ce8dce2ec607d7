------------------------------- MODULE MCTuio -------------------------------
(***************************************************************************)
(* The TUIO library and the oscpack library below it, explored side by     *)
(* side: writing and reading OSC packets, their size in a frame, the       *)
(* numbers of cursors, server and client over UDP, and the loop of the     *)
(* client's thread.  A behaviour is one of one part, chosen at the         *)
(* beginning.                                                              *)
(***************************************************************************)
EXTENDS Integers, Sequences, FiniteSets

CONSTANTS
  Capacity, AddrLens, StrLens, BlobSizes, MaxArgs, MaxMsgs,
  Capacities, MaxAlive,
  MaxCursors, MaxFrames, Speeds,
  Positions, MaxSessions, MaxCommits, PerPacket, LateWindow, MaxNet, MaxFaults,
  Sockets, Timers, Periods, MaxTime, MaxPackets, MaxBreaks

ASSUME SizesAssumption ==
  /\ Capacity \in Nat /\ AddrLens \subseteq Nat /\ StrLens \subseteq Nat /\ BlobSizes \subseteq Nat
  /\ Capacities \subseteq Nat
\* Cursors have numbers and speeds, sessions and their positions are numbers, and a packet
\* has room for at least one of them.
ASSUME CursorsAssumption == MaxCursors \in Nat /\ Speeds \subseteq Nat
ASSUME SessionsAssumption ==
  MaxSessions \in Nat /\ Positions \in Nat \ {0} /\ PerPacket \in Nat \ {0}
ASSUME TimersAssumption == IsFiniteSet(Timers) /\ Periods \subseteq Nat

VARIABLES
  part,
  messageCursor, argumentCurrent, elementSizePtr, inProgress, addr, tags, slot, content,
  written, received,
  profile, capacity, alive, size, next, sending,
  cursorList, freeCursorList, maxCursorID, cursorFrame, step,
  list, pos, touched, update, sessionID, currentFrame, inFrame, periodic, net, faults, known,
  frameSeen, behind,
  attached, break_, breakPipe, run, timerQueue, deadline, ready, called, now, currentTimeMs,
  inbox, packets, breaker, breaks, asked

Osc == INSTANCE OscStream
Bundles == INSTANCE TuioBundles
Cursors == INSTANCE TuioCursors WITH currentFrame <- cursorFrame
Session == INSTANCE TuioSession WITH MaxFrames <- MaxCommits
Mux == INSTANCE SocketMultiplexer

oscVars == <<messageCursor, argumentCurrent, elementSizePtr, inProgress, addr, tags, slot,
             content, written, received>>
sizeVars == <<profile, capacity, alive, size, next, sending>>
cursorVars == <<cursorList, freeCursorList, maxCursorID, cursorFrame, step>>
tuioVars == <<list, pos, touched, update, sessionID, currentFrame, inFrame, periodic, net,
              faults, known, frameSeen, behind>>
muxVars == <<attached, break_, breakPipe, run, timerQueue, deadline, ready, called, now,
             currentTimeMs, inbox, packets, breaker, breaks, asked>>
all == <<part, oscVars, sizeVars, cursorVars, tuioVars, muxVars>>

Init ==
  /\ part \in {"osc", "bundles", "cursors", "session", "mux"}
  /\ Osc!Init /\ Bundles!Init /\ Cursors!Init /\ Session!Init /\ Mux!Init

ByOsc(A) == part = "osc" /\ A /\ UNCHANGED <<part, sizeVars, cursorVars, tuioVars, muxVars>>
ByBundles(A) ==
  part = "bundles" /\ A /\ UNCHANGED <<part, oscVars, cursorVars, tuioVars, muxVars>>
ByCursors(A) ==
  part = "cursors" /\ A /\ UNCHANGED <<part, oscVars, sizeVars, tuioVars, muxVars>>
BySession(A) ==
  part = "session" /\ A /\ UNCHANGED <<part, oscVars, sizeVars, cursorVars, muxVars>>
ByMux(A) == part = "mux" /\ A /\ UNCHANGED <<part, oscVars, sizeVars, cursorVars, tuioVars>>

Next ==
  \/ ByOsc(Osc!Next) \/ ByBundles(Bundles!Next) \/ ByCursors(Cursors!Next)
  \/ BySession(Session!Next) \/ ByMux(Mux!Next)

\* The threads run, and the network delivers what it does not lose.
Fairness ==
  /\ WF_all(BySession(Session!SendFullMessages)) /\ WF_all(BySession(Session!Receive))
  /\ WF_all(ByMux(Mux!RunStep))

Steps == Init /\ [][Next]_all
Spec == Steps /\ Fairness

-----------------------------------------------------------------------------
(* The properties of the parts, which their modules explain.               *)

\* Messages fit in the buffer they are written to, and so do the bundles of a frame.
BuffersHold ==
  /\ part = "osc" => Osc!FitsInBuffer
  /\ part = "bundles" => Bundles!PacketsFit

\* Besides, OSC packets are read back as they were written.
PacketsReadBack == BuffersHold /\ (part = "osc" => Osc!ReadAsWritten)

\* The cursors have the numbers up to their greatest one and go when they are no longer
\* touched, and the client has what the server has once every packet has come in order and
\* was not dropped as late.
ListsAgree ==
  /\ part = "cursors" => Cursors!NumbersAreDense
  /\ part = "session" => Session!FollowsServer

\* select never sleeps past a timer.
NotOverslept == part = "mux" => Mux!NotOverslept

\* After faults, periodic messages bring the client back in step, and an asynchronous
\* break ends the client's loop.
ClientRecovers ==
  /\ (<>[](part = "session" /\ periodic)) => <>[]Session!InStep
  /\ Mux!BreakEndsRun
=============================================================================
