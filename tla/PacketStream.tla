----------------------------- MODULE PacketStream -----------------------------
(***************************************************************************)
(* stream_process (libfreenect/cameras.c): reassembly of a frame from the  *)
(* isochronous packets of one camera stream, with loss detection by an     *)
(* 8-bit sequence number.  The environment is the camera, which sends      *)
(* PktsPerFrame packets per frame, and a link that loses packets and       *)
(* damages headers and lengths.  Both streams of this program use fixed    *)
(* length packets (variable_length is 0) and no chunk callback.  The       *)
(* counters lost_pkts and valid_frames, which only choose log levels, are  *)
(* left out.                                                               *)
(***************************************************************************)
EXTENDS Integers, FiniteSets

CONSTANTS PktsPerFrame,  \* pkts_per_frame
          LostLimit,     \* losses tolerated without a resync; 5 in the code
          SeqMod,        \* range of the sequence number; 256 in the code
          PktSize,       \* pkt_size
          LastPktSize,   \* last_pkt_size
          DataLens,      \* payload lengths a packet may arrive with
          MaxFrame       \* bound: frames the camera sends

ASSUME StreamAssumption ==
  /\ PktsPerFrame \in Nat /\ LostLimit \in Nat /\ SeqMod \in Nat
  /\ LostLimit + 1 < PktsPerFrame /\ LostLimit + 1 < SeqMod
  /\ PktSize \in Nat /\ LastPktSize \in 1 .. PktSize
  /\ DataLens \subseteq Nat
  /\ MaxFrame \in Nat

VARIABLES
  camFrm, camIdx, camSeq,  \* the packet the camera sends next
  synced, seq, pktNum, gotPkts, validPkts, lastTimestamp, timestamp,
                           \* the packet_stream fields of the same names
  rawBuf,   \* [slot -> <<frame, index, slip>>]: whose packet each slot holds
  curFrm,   \* history: the frame being assembled, counted from the SOF of the sync
  gap,      \* history: packets sent since the one the stream expects, but for ...
  slip,     \* history: ... those lost since the sync that the sequence number hides
  out,      \* the last frame returned; its size is what the last call returned
  wrote     \* history: end of the last memcpy, in bytes from raw_buf

camVars == <<camFrm, camIdx, camSeq>>
vars == <<camVars, synced, seq, pktNum, gotPkts, validPkts, lastTimestamp,
          timestamp, rawBuf, curFrm, gap, slip, out, wrote>>

Slots == 0 .. PktsPerFrame - 1
Empty == <<0, 0, 0>>
NoFrame == [out EXCEPT !.size = 0]

\* uint8_t arithmetic on sequence numbers
SeqInc(a) == IF a + 1 = SeqMod THEN 0 ELSE a + 1
SeqSub(a, b) == IF a >= b THEN a - b ELSE (a + SeqMod) - b

\* stream_init: frame_size = (pkts_per_frame - 1) * pkt_size + last_pkt_size
FrameSize == (PktsPerFrame - 1) * PktSize + LastPktSize

\* stream_init leaves the stream unsynced; frames are numbered from 1.
Init ==
  /\ camFrm = 1 /\ camIdx = 0 /\ camSeq \in 0 .. SeqMod - 1
  /\ synced = FALSE /\ seq = 0 /\ pktNum = 0 /\ gotPkts = 0 /\ validPkts = 0
  /\ lastTimestamp = 0 /\ timestamp = 0
  /\ rawBuf = [i \in Slots |-> Empty]
  /\ curFrm = 0 /\ gap = 0 /\ slip = 0
  /\ out = [frame |-> 0, size |-> 0, slip |-> 0] /\ wrote = 0

\* The camera moves on to its next packet.
CamAdvance ==
  /\ camFrm <= MaxFrame
  /\ camSeq' = SeqInc(camSeq)
  /\ IF camIdx = PktsPerFrame - 1
     THEN camIdx' = 0 /\ camFrm' = camFrm + 1
     ELSE camIdx' = camIdx + 1 /\ UNCHANGED camFrm

\* hdr->flag the camera puts on a packet: sof, mof or eof
Flag(i) == IF i = 0 THEN "sof"
           ELSE IF i = PktsPerFrame - 1 THEN "eof" ELSE "mof"

-----------------------------------------------------------------------------
(* stream_process on the packet at the camera's position.                  *)

\* Expected sequence number and slot, after the sync on a SOF packet.
ExpSeq == IF synced THEN seq ELSE camSeq
ExpNum == IF synced THEN pktNum ELSE 0
ExpGot == IF synced THEN gotPkts ELSE 0
ExpFrm == IF synced THEN curFrm ELSE camFrm
ExpSlip == IF synced THEN slip ELSE 0

Lost == SeqSub(camSeq, ExpSeq)

\* The loss reaches past the end of the frame: left <= lost
Closes == Lost > 0 /\ PktsPerFrame - ExpNum <= Lost

\* Mutant: the slots the loss skipped are not skipped.
NumNotAdvanced == IF Closes THEN 0 ELSE ExpNum
\* pkt_num after loss handling
Num == IF Closes THEN (ExpNum + Lost) - PktsPerFrame ELSE ExpNum + Lost

\* Mutant: the last packet may be as long as the others.
ExpectedAlwaysFull == PktSize
\* expected_pkt_size
ExpectedSize == IF Num = PktsPerFrame - 1 THEN LastPktSize ELSE PktSize

FlagFits(flag) ==
  \/ Num = 0 /\ flag = "sof"
  \/ Num = PktsPerFrame - 1 /\ flag = "eof"
  \/ Num > 0 /\ Num < PktsPerFrame - 1 /\ flag = "mof"

\* Usable(flag): past the sync check and the loss check
Usable(flag) == (synced \/ flag = "sof") /\ Lost <= LostLimit

\* Mutant: a frame closed by loss keeps counting the packets of the last one.
GotNotReset == ExpGot
GotAfterLoss == IF Closes THEN 0 ELSE ExpGot

\* The frame being assembled, returned with its size
Returned(size) == [frame |-> ExpFrm, size |-> size, slip |-> ExpSlip]

\* Mutant: any loss returns the frame.
FrameOnAnyLoss ==
  /\ validPkts' = ExpGot /\ timestamp' = lastTimestamp
  /\ out' = IF Lost > 0 THEN Returned(FrameSize) ELSE NoFrame
\* The frame a loss closed: valid_pkts, timestamp and the return value.
FrameClosedByLoss ==
  /\ validPkts' = IF Closes THEN ExpGot ELSE IF synced THEN validPkts ELSE 0
  /\ timestamp' = IF Closes THEN lastTimestamp ELSE timestamp
  /\ out' = IF Closes THEN Returned(FrameSize) ELSE NoFrame

\* A packet that is lost, shorter than its header or without the RB magic
\* changes nothing.  When SeqMod packets in a row are lost, the camera's number is
\* again the one expected, and that burst cannot be seen any more.
LosePacket ==
  /\ CamAdvance
  /\ gap' = IF synced THEN SeqInc(gap) ELSE 0
  /\ slip' = IF synced /\ gap' = 0 THEN slip + SeqMod ELSE slip
  /\ out' = NoFrame
  /\ UNCHANGED <<synced, seq, pktNum, gotPkts, validPkts, lastTimestamp,
                 timestamp, rawBuf, curFrm, wrote>>

SkipUntilSof(flag) ==
  /\ CamAdvance
  /\ ~synced /\ flag # "sof"
  /\ out' = NoFrame
  /\ UNCHANGED <<synced, seq, pktNum, gotPkts, validPkts, lastTimestamp,
                 timestamp, rawBuf, curFrm, gap, slip, wrote>>

ResyncAfterLoss ==
  /\ CamAdvance
  /\ synced /\ Lost > LostLimit
  /\ synced' = FALSE /\ gap' = 0 /\ slip' = 0 /\ out' = NoFrame
  /\ UNCHANGED <<seq, pktNum, gotPkts, validPkts, lastTimestamp, timestamp,
                 rawBuf, curFrm, wrote>>

RejectFlag(flag) ==
  /\ CamAdvance
  /\ Usable(flag) /\ ~FlagFits(flag)
  /\ FrameClosedByLoss
  /\ synced' = FALSE /\ gap' = 0 /\ slip' = 0
  /\ seq' = camSeq /\ pktNum' = Num /\ gotPkts' = GotAfterLoss
  /\ curFrm' = IF Closes THEN ExpFrm + 1 ELSE ExpFrm
  /\ UNCHANGED <<lastTimestamp, rawBuf, wrote>>

\* The packet is dropped but stays the one expected next: seq and pkt_num
\* are not advanced past it, so the next packet counts it as lost.
DropOversize(flag, datalen) ==
  /\ CamAdvance
  /\ Usable(flag) /\ FlagFits(flag) /\ datalen > ExpectedSize
  /\ FrameClosedByLoss
  /\ synced' = TRUE /\ gap' = 1 /\ slip' = ExpSlip
  /\ seq' = camSeq /\ pktNum' = Num /\ gotPkts' = GotAfterLoss
  /\ curFrm' = IF Closes THEN ExpFrm + 1 ELSE ExpFrm
  /\ UNCHANGED <<lastTimestamp, rawBuf, wrote>>

\* memcpy into slot Num; an EOF packet closes the frame.
AcceptPacket(flag, datalen) ==
  /\ CamAdvance
  /\ Usable(flag) /\ FlagFits(flag) /\ datalen <= ExpectedSize
  /\ rawBuf' = [rawBuf EXCEPT ![Num] = <<camFrm, camIdx, ExpSlip>>]
  /\ wrote' = Num * PktSize + datalen
  /\ synced' = TRUE /\ gap' = 0 /\ slip' = ExpSlip
  /\ seq' = SeqInc(camSeq)
  /\ lastTimestamp' = camFrm
  /\ IF flag = "eof"
     THEN /\ pktNum' = 0 /\ gotPkts' = 0
          /\ validPkts' = GotAfterLoss + 1
          /\ timestamp' = camFrm
          /\ out' = Returned(Num * PktSize + LastPktSize)
          /\ curFrm' = ExpFrm + 1
     ELSE /\ pktNum' = Num + 1 /\ gotPkts' = GotAfterLoss + 1
          /\ FrameClosedByLoss
          /\ curFrm' = IF Closes THEN ExpFrm + 1 ELSE ExpFrm

\* The link may replace the flag by one that is none of the three.
Receive(flag, datalen) ==
  \/ SkipUntilSof(flag)
  \/ RejectFlag(flag)
  \/ DropOversize(flag, datalen)
  \/ AcceptPacket(flag, datalen)

Next ==
  \/ LosePacket
  \/ ResyncAfterLoss
  \/ \E flag \in {Flag(camIdx), "other"}, datalen \in DataLens :
       Receive(flag, datalen)
  \/ camFrm > MaxFrame /\ UNCHANGED vars

Spec == Init /\ [][Next]_vars

-----------------------------------------------------------------------------
\* Type correctness; pkt_num is always a slot of the frame.
TypeOK ==
  /\ camFrm \in Nat
  /\ camIdx \in Slots
  /\ camSeq \in 0 .. SeqMod - 1
  /\ synced \in BOOLEAN
  /\ seq \in 0 .. SeqMod - 1
  /\ pktNum \in Slots
  /\ gotPkts \in Nat
  /\ validPkts \in Nat
  /\ lastTimestamp \in Nat
  /\ timestamp \in Nat
  /\ rawBuf \in [Slots -> Nat \X Nat \X Nat]
  /\ curFrm \in Nat
  /\ gap \in 0 .. SeqMod - 1
  /\ slip \in Nat
  /\ out \in [frame : Nat, size : Nat, slip : Nat]
  /\ wrote \in Nat

\* Every packet is copied to the slot of its own index, however many packets around
\* it were lost, dropped or rejected, as long as fewer than SeqMod are lost in a row:
\* loss counting, closing a frame early and resynchronising agree with the camera.
\* Behind a longer burst, of which cameras.c:130 sees the remainder modulo 256 only,
\* packets may be misplaced until the next resync, and then by exactly the packets
\* that were lost unseen.
PacketsInPlace ==
  \A i \in Slots :
    rawBuf[i] # Empty => rawBuf[i][2] = (i + rawBuf[i][3]) % PktsPerFrame

\* memcpy stays inside the frame buffer that stream_init allocated, at the
\* short last packet too.
WritesInBounds == wrote <= FrameSize

\* A frame is returned with its full size.
WholeFrames == out.size \in {0, FrameSize}

Newer(f) == {i \in Slots : rawBuf[i][1] > f}
Own(f)   == {i \in Slots : rawBuf[i][1] = f}

\* The buffer a returned frame is converted from holds at most one packet of a
\* later frame (the packet whose arrival revealed the loss is copied before
\* stream_process returns), and valid_pkts is the number of its own packets
\* that arrived; unless a burst of SeqMod packets or more was lost unseen, which
\* makes one frame of the packets before and after it.
ReturnedFrameIsAssembled ==
  out.size > 0 /\ out.slip = 0 =>
    /\ Cardinality(Newer(out.frame)) <= 1
    /\ Cardinality(Own(out.frame)) <= validPkts
    /\ validPkts <= Cardinality(Own(out.frame)) + Cardinality(Newer(out.frame))
    /\ validPkts > 0 => timestamp = out.frame

\* Frames are returned in the camera's order and none is returned twice.
FramesInOrder == [][out'.size > 0 => out'.frame > out.frame]_vars

-----------------------------------------------------------------------------
(* The inductive invariant: while synced, the stream's position (curFrm,   *)
(* pktNum) is gap and slip packets behind the camera's, and seq is gap     *)
(* behind.                                                                 *)
SeqInv ==
  synced => camSeq = IF seq + gap < SeqMod THEN seq + gap
                     ELSE (seq + gap) - SeqMod

PosInv ==
  synced => camFrm * PktsPerFrame + camIdx
              = (curFrm * PktsPerFrame + pktNum) + gap + slip

OrderInv ==
  /\ out.frame < camFrm
  /\ synced => out.frame < curFrm

IndInv ==
  /\ TypeOK /\ SeqInv /\ PosInv /\ OrderInv
  /\ PacketsInPlace /\ WritesInBounds /\ WholeFrames

(* What the buffer holds of the frame being assembled, for valid_pkts: the *)
(* packets of a frame fill it from below, so gotPkts counts those of the   *)
(* current frame, and nothing in the buffer is newer than the camera.      *)
FreshInv ==
  /\ \A i \in Slots :
       rawBuf[i][1] <= camFrm /\ (rawBuf[i][1] = camFrm => rawBuf[i][2] < camIdx)
  /\ synced /\ slip = 0 =>
       \A i \in Slots : rawBuf[i][1] <= curFrm /\ (rawBuf[i][1] = curFrm => i < pktNum)

CountedInv ==
  synced /\ slip = 0 => /\ Cardinality(Own(curFrm)) = gotPkts
                        /\ gotPkts > 0 => lastTimestamp = curFrm

AssemblyInv == IndInv /\ FreshInv /\ CountedInv /\ ReturnedFrameIsAssembled
=============================================================================
