---------------------------- MODULE TuioSession -----------------------------
(***************************************************************************)
(* TuioServer and TuioClient over UDP.  The server lists its cursors and   *)
(* objects and sends, per frame and profile, what changed, each packet     *)
(* with the list of those alive and the number of the frame; a thread may  *)
(* send everything again without a number, and the server may be           *)
(* restarted.  Packets are lost, duplicated and reordered.  The client     *)
(* handles a packet in one thread.  A position stands for where a set      *)
(* message puts a cursor or an object; an update takes the next one.       *)
(* Speeds are not followed: the client leaves them out when it adds a      *)
(* cursor or an object (TuioClient.cpp:211, 391).                          *)
(***************************************************************************)
EXTENDS Integers, Sequences, SequencesExt, FiniteSets

CONSTANTS
  Positions,    \* how many there are
  MaxSessions,  \* bound on the cursors and objects of a server
  MaxFrames,
  PerPacket,    \* set messages that fit in a packet
  LateWindow,   \* 100 frames
  MaxNet,       \* bound on the packets under way
  MaxFaults     \* bound on those lost, duplicated and overtaken, and on restarts

Profiles == {"2Dcur", "2Dobj"}
Sessions == 0..(MaxSessions - 1)

VARIABLES
  \* TuioServer
  list,         \* cursorList and objectList, in the order of the session numbers
  pos,          \* of each session
  touched,      \* within a frame, those whose time is that of the frame
  update,       \* updateCursor and updateObject
  sessionID, currentFrame, inFrame,
  periodic,     \* periodic_update
  \* the network
  net, faults,
  \* TuioClient
  known,        \* its lists: the position of each session in them
  frameSeen,    \* its currentFrame
  behind        \* a packet was lost, overtaken, or dropped as late, as packets in order
                \* are too when a restarted server counts from 0 again

serverVars == <<list, pos, touched, update, sessionID, currentFrame, inFrame, periodic>>
clientVars == <<known, frameSeen, behind>>
tuioVars == <<serverVars, net, faults, clientVars>>

Nothing == [s \in {} |-> 0]

\* After a first frame, number 0, in which nothing happened; a restarted server has none.
Init ==
  /\ list = [p \in Profiles |-> {}] /\ pos = [s \in Sessions |-> 0]
  /\ touched = {} /\ update = [p \in Profiles |-> FALSE]
  /\ sessionID = -1 /\ currentFrame = 0 /\ inFrame = FALSE
  /\ periodic = FALSE /\ net = <<>> /\ faults = 0
  /\ known = [p \in Profiles |-> Nothing] /\ frameSeen = -1 /\ behind = FALSE

-----------------------------------------------------------------------------
(* The server.                                                             *)

\* The packets with set messages for some members of the list: each has the whole alive
\* list and a part of the members.
Packets(p, members, fseq) ==
  LET n == Cardinality(members)
      count == IF n = 0 THEN 1 ELSE (n + PerPacket - 1) \div PerPacket
      before(s) == Cardinality({t \in members : t < s})
      part(k) == {s \in members : before(s) \div PerPacket = k - 1}
  IN [k \in 1..count |->
        [profile |-> p, alive |-> list[p], fseq |-> fseq,
         sets |-> [s \in part(k) |-> pos[s]]]]

Send(packets) == /\ Len(net) + Len(packets) <= MaxNet
                 /\ net' = net \o packets

InitFrame ==
  /\ ~inFrame /\ currentFrame < MaxFrames
  /\ inFrame' = TRUE /\ currentFrame' = currentFrame + 1
  /\ UNCHANGED <<list, pos, touched, update, sessionID, periodic, net, faults,
                 clientVars>>

\* addTuioCursor, addTuioObject
Add(p) ==
  /\ inFrame /\ sessionID < MaxSessions - 1
  /\ sessionID' = sessionID + 1
  /\ list' = [list EXCEPT ![p] = @ \cup {sessionID + 1}]
  /\ pos' = [pos EXCEPT ![sessionID + 1] = 0]
  /\ touched' = touched \cup {sessionID + 1}
  /\ update' = [update EXCEPT ![p] = TRUE]
  /\ UNCHANGED <<currentFrame, inFrame, periodic, net, faults, clientVars>>

\* updateTuioCursor, updateTuioObject: once per frame
Update(p, s) ==
  /\ inFrame /\ s \in list[p] /\ s \notin touched
  /\ pos' = [pos EXCEPT ![s] = (@ + 1) % Positions] /\ touched' = touched \cup {s}
  /\ update' = [update EXCEPT ![p] = TRUE]
  /\ UNCHANGED <<list, sessionID, currentFrame, inFrame, periodic, net, faults,
                 clientVars>>

\* removeTuioCursor, removeTuioObject
RemoveSession(p, s) ==
  /\ inFrame /\ s \in list[p]
  /\ list' = [list EXCEPT ![p] = @ \ {s}]
  /\ update' = [update EXCEPT ![p] = TRUE]
  /\ pos' = [pos EXCEPT ![s] = 0]
  /\ UNCHANGED <<touched, sessionID, currentFrame, inFrame, periodic, net, faults,
                 clientVars>>

\* commitFrame for one profile: what changed in this frame, or everything with
\* full_update; or, without a change and when a second has passed, the alive list alone
CommitOf(p, second, full) ==
  IF update[p]
    THEN Packets(p, {s \in list[p] : full \/ s \in touched}, currentFrame)
    ELSE IF second /\ ~periodic THEN Packets(p, {}, currentFrame) ELSE <<>>

CommitFrame(second, full) ==
  /\ inFrame /\ inFrame' = FALSE
  /\ Send(CommitOf("2Dcur", second, full) \o CommitOf("2Dobj", second, full))
  /\ update' = [p \in Profiles |-> FALSE] /\ touched' = {}
  /\ UNCHANGED <<list, pos, sessionID, currentFrame, periodic, faults, clientVars>>

\* enablePeriodicMessages, disablePeriodicMessages
SetPeriodic(on) ==
  /\ periodic # on /\ periodic' = on
  /\ UNCHANGED <<list, pos, touched, update, sessionID, currentFrame, inFrame, net,
                 faults, clientVars>>

\* Mutant: only what the current frame changed is sent again.
ChangedAgain(p) == Packets(p, list[p] \cap touched, -1)
\* sendFullMessages for one profile: everything, with fseq -1
Full(p) == Packets(p, list[p], -1)

\* The periodic thread, every second or more: what was sent before has come or is lost.
SendFullMessages ==
  /\ periodic /\ net = <<>> /\ Send(Full("2Dcur") \o Full("2Dobj"))
  /\ UNCHANGED <<serverVars, faults, clientVars>>

\* ~TuioServer, or the process is killed, and a new TuioServer: sendEmptyCursorBundle
\* and sendEmptyObjectBundle
Restart ==
  /\ ~inFrame /\ faults < MaxFaults /\ faults' = faults + 1
  /\ list' = [p \in Profiles |-> {}] /\ touched' = {} /\ pos' = [s \in Sessions |-> 0]
  /\ update' = [p \in Profiles |-> FALSE] /\ sessionID' = -1 /\ currentFrame' = -1
  /\ periodic' = FALSE
  /\ Send([k \in 1..2 |-> [profile |-> <<"2Dcur", "2Dobj">>[k], alive |-> {}, fseq |-> -1,
                           sets |-> Nothing]])
  /\ UNCHANGED <<inFrame, clientVars>>

-----------------------------------------------------------------------------
(* The network.                                                            *)

Lose(k) ==
  /\ faults < MaxFaults /\ faults' = faults + 1
  /\ net' = RemoveAt(net, k) /\ behind' = TRUE
  /\ UNCHANGED <<serverVars, known, frameSeen>>

Duplicate(k) ==
  /\ faults < MaxFaults /\ faults' = faults + 1 /\ Len(net) < MaxNet
  /\ net' = InsertAt(net, k, net[k])
  /\ UNCHANGED <<serverVars, clientVars>>

\* The packet at the head is overtaken by all others.
Delay ==
  /\ faults < MaxFaults /\ faults' = faults + 1 /\ Len(net) > 1
  /\ net' = Append(Tail(net), Head(net)) /\ behind' = TRUE
  /\ UNCHANGED <<serverVars, known, frameSeen>>

-----------------------------------------------------------------------------
(* The client.                                                             *)

\* lateFrame; numbers up to zero are not compared, and old ones are those of a new
\* server.
Late(fseq) == fseq > 0 /\ fseq < frameSeen /\ frameSeen - fseq <= LateWindow

\* fseq, for the lists: set messages add and update, here the position, and what was known
\* before and is not alive is removed.
Applied(old, m) ==
  [s \in (DOMAIN old \cup DOMAIN m.sets) \ (DOMAIN old \ m.alive) |->
     IF s \in DOMAIN m.sets THEN m.sets[s] ELSE old[s]]

\* ProcessPacket, ProcessBundle, and ProcessMessage for alive, set and fseq
Receive ==
  /\ net # <<>>
  /\ LET m == Head(net) IN
     /\ net' = Tail(net)
     /\ IF Late(m.fseq)
          THEN behind' = TRUE /\ UNCHANGED <<known, frameSeen>>
          ELSE /\ known' = [known EXCEPT ![m.profile] = Applied(@, m)]
               /\ frameSeen' = IF m.fseq > 0 THEN m.fseq ELSE frameSeen
               /\ UNCHANGED behind
  /\ UNCHANGED <<serverVars, faults>>

-----------------------------------------------------------------------------
Next ==
  \/ InitFrame \/ \E b \in BOOLEAN : SetPeriodic(b) \/ \E full \in BOOLEAN : CommitFrame(b, full)
  \/ \E p \in Profiles :
       Add(p) \/ \E s \in Sessions : Update(p, s) \/ RemoveSession(p, s)
  \/ SendFullMessages \/ Restart \/ Delay \/ Receive
  \/ \E k \in DOMAIN net : Lose(k) \/ Duplicate(k)

Spec == Init /\ [][Next]_tuioVars

\* The periodic thread runs, and the network delivers what it does not lose.
FairSpec == Spec /\ WF_tuioVars(SendFullMessages) /\ WF_tuioVars(Receive)

InStep == \A p \in Profiles : known[p] = [s \in list[p] |-> pos[s]]

\* When a frame is committed, every packet has come in order, even twice, and the client
\* has dropped none as late, it has the cursors and objects of the server at their
\* positions: neither the split into packets nor the frame number that two profiles share
\* loses anything (TuioClient.cpp:168, TuioServer.cpp:449).  Packets of a restarted server
\* that are dropped because the old one was further on (TuioClient.cpp:166) are made up
\* for by CatchesUp only.
FollowsServer == ~behind /\ ~inFrame /\ net = <<>> => InStep

\* After lost, late and overtaken packets and after a restart, periodic messages bring
\* the client back in step with the server (TuioServer.cpp:80).
CatchesUp == <>[]periodic => <>[]InStep

-----------------------------------------------------------------------------
(* The inductive invariant behind FollowsServer.                           *)

ServerInv ==
  /\ list \in [Profiles -> SUBSET Sessions] /\ pos \in [Sessions -> 0..(Positions - 1)]
  /\ touched \subseteq Sessions /\ update \in [Profiles -> BOOLEAN]
  /\ sessionID \in Int /\ sessionID >= -1 /\ currentFrame \in Int /\ inFrame \in BOOLEAN
  /\ \A p \in Profiles : \A s \in list[p] : s <= sessionID /\ (s \in touched => update[p])
  /\ list["2Dcur"] \cap list["2Dobj"] = {}
  /\ ~inFrame => touched = {} /\ \A p \in Profiles : ~update[p]

Views == UNION {[S -> 0..(Positions - 1)] : S \in SUBSET Sessions}
PacketInv ==
  /\ net \in Seq([profile : Profiles, alive : SUBSET Sessions, fseq : Int, sets : Views])
  /\ \A k \in 1..Len(net) : DOMAIN net[k].sets \subseteq net[k].alive
  /\ known \in [Profiles -> Views]

\* The client knows a session at its position, or a packet will tell it, and the packets
\* behind that one do not say otherwise.
Right(view, s) == s \in DOMAIN view /\ view[s] = pos[s]
Keeps(m, s) == s \in m.alive /\ (s \in DOMAIN m.sets => m.sets[s] = pos[s])
WillKnow(p, s) ==
  \E k \in 0..Len(net) :
    /\ IF k = 0 THEN Right(known[p], s) ELSE net[k].profile = p /\ Right(net[k].sets, s)
    /\ \A j \in (k + 1)..Len(net) : net[j].profile = p => Keeps(net[j], s)

\* The client does not know a session, or a packet will remove it, and none behind that
\* one brings it back.
Removes(m, s) == s \notin m.alive /\ s \notin DOMAIN m.sets
WillForget(p, s) ==
  \E k \in 0..Len(net) :
    /\ IF k = 0 THEN s \notin DOMAIN known[p] ELSE net[k].profile = p /\ Removes(net[k], s)
    /\ \A j \in (k + 1)..Len(net) : net[j].profile = p => s \notin DOMAIN net[j].sets

\* What the frame being made has not changed is on its way or known.
FollowInv ==
  ~behind => \A p \in Profiles, s \in Sessions :
    /\ s \in list[p] \ touched => WillKnow(p, s)
    /\ s \notin list[p] /\ ~update[p] => WillForget(p, s)

IndInv == ServerInv /\ PacketInv /\ FollowInv
=============================================================================
