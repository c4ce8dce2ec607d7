-------------------------- MODULE PacketStreamProofs --------------------------
(* Proofs about PacketStream for every frame geometry, loss limit and range *)
(* of the sequence number (the code's are 242 or 162 packets, 5 and 256).   *)
EXTENDS PacketStream, FiniteSetTheorems, TLAPS

\* What the constants' assumption says of the range of slots.
LEMMA ConstFacts ==
  /\ PktsPerFrame \in Nat /\ PktsPerFrame > 1 /\ SeqMod \in Nat /\ SeqMod > 1
  /\ 0 \in Slots /\ 0 \in 0 .. SeqMod - 1 /\ 1 \in 0 .. SeqMod - 1
  BY StreamAssumption DEF Slots

\* Whole frames are at least one frame length apart.
LEMMA FrameDistance ==
  ASSUME NEW P \in Nat \ {0}, NEW a \in Nat, NEW b \in Nat,
         NEW x \in 0 .. P - 1, NEW y \in 0 .. 2 * P - 1,
         a * P + x = b * P + y
  PROVE  IF y < P THEN a = b /\ x = y ELSE a = b + 1 /\ x = y - P
<1>1. \A c \in Nat, d \in Nat : c > d => c * P >= d * P + P
  <2> SUFFICES ASSUME NEW c \in Nat, NEW d \in Nat, c > d
               PROVE c * P >= d * P + P
    OBVIOUS
  <2>1. PICK k \in Nat : c = d + 1 + k
    <3>1. c - d - 1 \in Nat
      OBVIOUS
    <3>. QED
      BY <3>1
  <2>2. c * P = d * P + P + k * P
    BY <2>1
  <2>3. k * P \in Nat
    OBVIOUS
  <2>. QED
    BY <2>2, <2>3
<1>2. a * P \in Nat /\ b * P \in Nat /\ (b + 1) * P = b * P + P
  OBVIOUS
<1>3. ~(a < b)
  BY <1>1, <1>2
<1>4. ~(a > b + 1)
  BY <1>1, <1>2
<1>5. a = b \/ a = b + 1
  BY <1>3, <1>4
<1>. QED
  BY <1>2, <1>5

\* The same for any distance: what is left of it beside whole frames.
LEMMA FrameRemainder ==
  ASSUME NEW P \in Nat \ {0}, NEW a \in Nat, NEW b \in Nat,
         NEW x \in 0 .. P - 1, NEW z \in Nat,
         a * P + x = b * P + z
  PROVE  x = z % P /\ b <= a
<1> DEFINE q == z \div P
           y == z % P
<1>1. q \in Nat /\ y \in 0 .. P - 1 /\ z = P * q + y
  OBVIOUS
<1> HIDE DEF q, y
<1>2. b + q \in Nat /\ y \in 0 .. 2 * P - 1 /\ y < P
  BY <1>1
<1>3. (b + q) * P = b * P + P * q
  BY <1>1
<1>4. b * P \in Nat /\ P * q \in Nat
  BY <1>1
<1>5. a * P + x = (b + q) * P + y
  BY <1>1, <1>3, <1>4
<1>6. a = b + q /\ x = y
  BY <1>2, <1>5, FrameDistance, SMTT(30)
<1>. QED
  BY <1>1, <1>6 DEF y

\* The 8-bit difference recovers the number of packets missed, but for those that
\* the sequence number hides.
LEMMA LostIsGap ==
  ASSUME TypeOK, SeqInv, synced
  PROVE  Lost = gap
  BY StreamAssumption DEF TypeOK, SeqInv, Lost, SeqSub, ExpSeq

\* The frame that a packet is taken for once the loss before it is handled
SlotFrm == IF Closes THEN ExpFrm + 1 ELSE ExpFrm

\* A packet that passes the loss check is given a slot that is ExpSlip packets
\* before its own.
LEMMA SlotIsBehind ==
  ASSUME IndInv, NEW flag, Usable(flag), flag = "sof" => camIdx = 0
  PROVE  /\ Num \in Slots /\ ExpSlip \in Nat /\ SlotFrm \in Nat
         /\ camFrm * PktsPerFrame + camIdx
              = (SlotFrm * PktsPerFrame + Num) + ExpSlip
<1>1. CASE synced
  <2>1. Lost = gap /\ gap <= LostLimit
    BY <1>1, LostIsGap DEF IndInv, Usable
  <2>2. /\ curFrm \in Nat /\ pktNum \in 0 .. PktsPerFrame - 1 /\ gap \in Nat /\ slip \in Nat
        /\ PktsPerFrame \in Nat /\ gap < PktsPerFrame
    BY <2>1, StreamAssumption DEF IndInv, TypeOK, Slots
  <2>3. camFrm * PktsPerFrame + camIdx
          = (curFrm * PktsPerFrame + pktNum) + gap + slip
    BY <1>1 DEF IndInv, PosInv
  <2>4. curFrm * PktsPerFrame \in Nat
        /\ (curFrm + 1) * PktsPerFrame = curFrm * PktsPerFrame + PktsPerFrame
    BY <2>2
  <2>5. CASE Closes
    <3>1. /\ Num = (pktNum + gap) - PktsPerFrame /\ pktNum + gap >= PktsPerFrame
          /\ SlotFrm = curFrm + 1 /\ ExpSlip = slip
      BY <1>1, <2>1, <2>2, <2>5 DEF Num, Closes, ExpNum, ExpFrm, ExpSlip, SlotFrm
    <3>. QED
      BY <2>2, <2>3, <2>4, <3>1 DEF Slots
  <2>6. CASE ~Closes
    <3>1. /\ Num = pktNum + gap /\ pktNum + gap < PktsPerFrame
          /\ SlotFrm = curFrm /\ ExpSlip = slip
      BY <1>1, <2>1, <2>2, <2>6 DEF Num, Closes, ExpNum, ExpFrm, ExpSlip, SlotFrm
    <3>. QED
      BY <2>2, <2>3, <2>4, <3>1 DEF Slots
  <2>. QED
    BY <2>5, <2>6
<1>2. CASE ~synced
  <2>1. /\ Num = 0 /\ camIdx = 0 /\ SlotFrm = camFrm /\ ExpSlip = 0
        /\ camFrm \in Nat /\ PktsPerFrame \in Nat \ {0}
    BY <1>2, StreamAssumption
    DEF IndInv, TypeOK, Slots, Usable, Num, Closes, ExpNum, ExpFrm, ExpSlip, SlotFrm,
        Lost, SeqSub, ExpSeq
  <2>2. camFrm * PktsPerFrame \in Nat
    BY <2>1
  <2>. QED
    BY <2>1, <2>2 DEF Slots
<1>. QED
  BY <1>1, <1>2

\* Its index follows from the slot; it is not older than the frame it is taken for,
\* and where nothing was lost unseen the slot is its own.
LEMMA SlotIsIndex ==
  ASSUME IndInv, NEW flag, Usable(flag), flag = "sof" => camIdx = 0
  PROVE  /\ Num \in Slots /\ ExpSlip \in Nat /\ SlotFrm \in Nat
         /\ camIdx = (Num + ExpSlip) % PktsPerFrame
         /\ SlotFrm <= camFrm
         /\ ExpSlip = 0 => Num = camIdx /\ SlotFrm = camFrm
<1>1. /\ Num \in Slots /\ ExpSlip \in Nat /\ SlotFrm \in Nat
      /\ camFrm * PktsPerFrame + camIdx
           = (SlotFrm * PktsPerFrame + Num) + ExpSlip
  BY SlotIsBehind
<1>2. /\ PktsPerFrame \in Nat \ {0} /\ camFrm \in Nat /\ camIdx \in 0 .. PktsPerFrame - 1
      /\ Num \in 0 .. PktsPerFrame - 1
  BY <1>1, StreamAssumption DEF IndInv, TypeOK, Slots
<1>3. SlotFrm * PktsPerFrame \in Nat /\ Num + ExpSlip \in Nat
  BY <1>1, <1>2
<1>4. camFrm * PktsPerFrame + camIdx = SlotFrm * PktsPerFrame + (Num + ExpSlip)
  BY <1>1, <1>2, <1>3
<1>5. camIdx = (Num + ExpSlip) % PktsPerFrame /\ SlotFrm <= camFrm
  <2> DEFINE z == Num + ExpSlip
             f == SlotFrm
  <2>1. /\ PktsPerFrame \in Nat \ {0} /\ camFrm \in Nat /\ f \in Nat /\ z \in Nat
        /\ camIdx \in 0 .. PktsPerFrame - 1
        /\ camFrm * PktsPerFrame + camIdx = f * PktsPerFrame + z
    BY <1>1, <1>2, <1>3, <1>4
  <2> HIDE DEF z, f
  <2>2. camIdx = z % PktsPerFrame /\ f <= camFrm
    BY ONLY <2>1, FrameRemainder
  <2>. QED
    BY <2>2 DEF z, f
<1>6. ASSUME ExpSlip = 0 PROVE Num = camIdx /\ SlotFrm = camFrm
  <2>1. camFrm * PktsPerFrame + camIdx = SlotFrm * PktsPerFrame + Num
    BY <1>2, <1>3, <1>4, <1>6
  <2>2. Num \in 0 .. 2 * PktsPerFrame - 1 /\ Num < PktsPerFrame
    BY <1>2
  <2>. QED
    BY <1>1, <1>2, <2>1, <2>2, FrameDistance
<1>. QED
  BY <1>1, <1>5, <1>6

\* The camera's position advances by one packet.
LEMMA CamStep ==
  ASSUME TypeOK, CamAdvance
  PROVE  /\ camFrm' \in Nat /\ camIdx' \in Slots /\ camSeq' \in 0 .. SeqMod - 1
         /\ camFrm' >= camFrm
         /\ camFrm' * PktsPerFrame + camIdx'
              = (camFrm * PktsPerFrame + camIdx) + 1
<1>1. (camFrm + 1) * PktsPerFrame = camFrm * PktsPerFrame + PktsPerFrame
  BY StreamAssumption DEF TypeOK
<1>2. camFrm * PktsPerFrame \in Nat
  BY StreamAssumption DEF TypeOK
<1>3. camFrm' \in Nat /\ camIdx' \in Slots /\ camFrm' >= camFrm
  <2>1. camFrm' \in {camFrm, camFrm + 1} /\ camIdx' \in {0, camIdx + 1}
    BY DEF CamAdvance
  <2>2. camIdx # PktsPerFrame - 1 => camIdx + 1 \in Slots
    BY ConstFacts DEF TypeOK, Slots
  <2>3. camIdx' \in Slots
    BY <2>2, ConstFacts DEF CamAdvance
  <2>. QED
    BY <2>1, <2>3 DEF TypeOK
<1>4. camSeq' \in 0 .. SeqMod - 1
  BY ConstFacts DEF TypeOK, CamAdvance, SeqInc
<1>5. CASE camIdx = PktsPerFrame - 1
  <2>1. camFrm' = camFrm + 1 /\ camIdx' = 0
    BY <1>5 DEF CamAdvance
  <2>. QED
    BY <1>1, <1>2, <1>3, <1>4, <1>5, <2>1, ConstFacts
<1>6. CASE camIdx # PktsPerFrame - 1
  <2>1. camFrm' = camFrm /\ camIdx' = camIdx + 1 /\ camIdx \in Nat
    BY <1>6, ConstFacts DEF TypeOK, CamAdvance, Slots
  <2>. QED
    BY <1>2, <1>3, <1>4, <2>1
<1>. QED
  BY <1>5, <1>6

\* A payload no longer than expected ends inside the frame buffer.
LEMMA PayloadFits ==
  ASSUME NEW n \in Slots, NEW len \in Nat,
         len <= IF n = PktsPerFrame - 1 THEN LastPktSize ELSE PktSize
  PROVE  n * PktSize + len \in Nat /\ n * PktSize + len <= FrameSize
<1>1. n * PktSize \in Nat /\ (PktsPerFrame - 1) * PktSize \in Nat
  BY StreamAssumption DEF Slots
<1>2. CASE n = PktsPerFrame - 1
  BY <1>1, <1>2, StreamAssumption DEF Slots, FrameSize
<1>3. CASE n # PktsPerFrame - 1
  <2>1. PICK k \in Nat : PktsPerFrame - 1 = n + 1 + k
    <3>1. PktsPerFrame - 1 - n - 1 \in Nat
      BY <1>3, StreamAssumption DEF Slots
    <3>. QED
      BY <3>1, StreamAssumption DEF Slots
  <2>2. (PktsPerFrame - 1) * PktSize = n * PktSize + PktSize + k * PktSize
    BY <2>1, StreamAssumption DEF Slots
  <2>3. k * PktSize \in Nat
    BY <2>1, StreamAssumption
  <2>. QED
    BY <1>1, <1>3, <2>2, <2>3, StreamAssumption DEF FrameSize
<1>. QED
  BY <1>2, <1>3

\* The size of a frame is a natural number of bytes.
LEMMA FrameSizeType == FrameSize \in Nat
<1>1. (PktsPerFrame - 1) * PktSize \in Nat
  BY StreamAssumption
<1>. QED
  BY <1>1, StreamAssumption DEF FrameSize

\* stream_init establishes the invariant.
LEMMA InitIndInv == Init => IndInv
<1> SUFFICES ASSUME Init PROVE IndInv
  OBVIOUS
<1>1. rawBuf \in [Slots -> Nat \X Nat \X Nat]
  BY DEF Init, Empty
<1>2. TypeOK
  BY <1>1, ConstFacts DEF Init, TypeOK
<1>3. SeqInv /\ PosInv /\ OrderInv /\ PacketsInPlace
  BY DEF Init, SeqInv, PosInv, OrderInv, PacketsInPlace
<1>4. WritesInBounds /\ WholeFrames
  BY FrameSizeType DEF Init, WritesInBounds, WholeFrames
<1>. QED
  BY <1>2, <1>3, <1>4 DEF IndInv

\* A lost packet only widens the gap to the camera.
LEMMA LosePacketStep == IndInv /\ LosePacket => IndInv'
<1> SUFFICES ASSUME IndInv, LosePacket PROVE IndInv'
  OBVIOUS
<1>1. /\ camFrm' \in Nat /\ camIdx' \in Slots /\ camSeq' \in 0 .. SeqMod - 1
      /\ camFrm' >= camFrm
      /\ camFrm' * PktsPerFrame + camIdx'
           = (camFrm * PktsPerFrame + camIdx) + 1
  BY CamStep DEF IndInv, LosePacket
<1>2. TypeOK'
  BY <1>1, StreamAssumption DEF IndInv, LosePacket, SeqInc, NoFrame, TypeOK
<1>3. SeqInv'
  BY StreamAssumption DEF IndInv, LosePacket, CamAdvance, SeqInc, SeqInv, TypeOK
<1>4. PosInv'
  <2>1. /\ curFrm * PktsPerFrame \in Nat /\ camFrm * PktsPerFrame \in Nat
        /\ pktNum \in Nat /\ gap \in Nat /\ slip \in Nat /\ camIdx \in Nat
    BY ConstFacts DEF IndInv, TypeOK, Slots
  <2>2. synced => gap' + slip' = gap + slip + 1 /\ gap' \in Nat /\ slip' \in Nat
    BY <2>1, StreamAssumption DEF IndInv, TypeOK, LosePacket, SeqInc
  <2>3. SUFFICES ASSUME synced
                 PROVE camFrm' * PktsPerFrame + camIdx'
                         = (curFrm * PktsPerFrame + pktNum) + gap' + slip'
    BY DEF LosePacket, PosInv
  <2>. QED
    BY <1>1, <2>1, <2>2, <2>3 DEF IndInv, PosInv
<1>5. OrderInv' /\ PacketsInPlace' /\ WritesInBounds' /\ WholeFrames'
  BY <1>1 DEF IndInv, LosePacket, NoFrame, OrderInv, PacketsInPlace,
              WritesInBounds, WholeFrames, TypeOK
<1>. QED
  BY <1>2, <1>3, <1>4, <1>5 DEF IndInv

\* Giving up the synchronisation keeps what is in the buffer.
LEMMA ResyncStep == IndInv /\ ResyncAfterLoss => IndInv'
<1> SUFFICES ASSUME IndInv, ResyncAfterLoss PROVE IndInv'
  OBVIOUS
<1>1. /\ camFrm' \in Nat /\ camIdx' \in Slots /\ camSeq' \in 0 .. SeqMod - 1
      /\ camFrm' >= camFrm
  BY CamStep DEF IndInv, ResyncAfterLoss
<1>2. TypeOK'
  BY <1>1, ConstFacts DEF IndInv, ResyncAfterLoss, NoFrame, TypeOK
<1>. QED
  BY <1>1, <1>2
  DEF IndInv, ResyncAfterLoss, NoFrame, TypeOK, SeqInv, PosInv, OrderInv,
      PacketsInPlace, WritesInBounds, WholeFrames

\* Packets skipped until the next SOF change nothing.
LEMMA SkipStep ==
  ASSUME IndInv, NEW flag, SkipUntilSof(flag) PROVE IndInv'
<1>1. /\ camFrm' \in Nat /\ camIdx' \in Slots /\ camSeq' \in 0 .. SeqMod - 1
      /\ camFrm' >= camFrm
  BY CamStep DEF IndInv, SkipUntilSof
<1>. QED
  BY <1>1, StreamAssumption
  DEF IndInv, SkipUntilSof, NoFrame, TypeOK, SeqInv, PosInv, OrderInv,
      PacketsInPlace, WritesInBounds, WholeFrames

\* What closing a frame after a loss does to the fields it touches.
LEMMA ClosedByLoss ==
  ASSUME IndInv, NEW flag, Usable(flag), flag = "sof" => camIdx = 0,
         FrameClosedByLoss
  PROVE  /\ validPkts' \in Nat /\ timestamp' \in Nat
         /\ out' \in [frame : Nat, size : Nat, slip : Nat]
         /\ out'.size \in {0, FrameSize}
         /\ out'.frame < camFrm /\ out'.frame < SlotFrm
         /\ GotAfterLoss \in Nat
<1>1. SlotFrm <= camFrm /\ ExpSlip \in Nat
  BY SlotIsIndex
<1>. QED
  BY <1>1, FrameSizeType
  DEF IndInv, TypeOK, FrameClosedByLoss, Returned, NoFrame, ExpGot, ExpFrm, OrderInv,
      WholeFrames, GotAfterLoss, SlotFrm

\* A packet with an inconsistent flag may close a frame, then unsyncs.
LEMMA RejectStep ==
  ASSUME IndInv, NEW flag, flag = "sof" => camIdx = 0, RejectFlag(flag)
  PROVE  IndInv'
<1>1. /\ camFrm' \in Nat /\ camIdx' \in Slots /\ camSeq' \in 0 .. SeqMod - 1
      /\ camFrm' >= camFrm
  BY CamStep DEF IndInv, RejectFlag
<1>2. Num \in Slots /\ curFrm' = SlotFrm /\ SlotFrm \in Nat
  BY SlotIsIndex DEF RejectFlag, SlotFrm
<1>3. /\ validPkts' \in Nat /\ timestamp' \in Nat
      /\ out' \in [frame : Nat, size : Nat, slip : Nat]
      /\ out'.size \in {0, FrameSize}
      /\ out'.frame < camFrm
      /\ GotAfterLoss \in Nat
  BY ClosedByLoss DEF RejectFlag
<1>4. TypeOK'
  BY <1>1, <1>2, <1>3, ConstFacts DEF IndInv, RejectFlag, TypeOK
<1>. QED
  BY <1>1, <1>3, <1>4
  DEF IndInv, RejectFlag, TypeOK, SeqInv, PosInv, OrderInv, PacketsInPlace,
      WritesInBounds, WholeFrames

\* A dropped packet stays the one expected next: the gap is one.
LEMMA DropOversizeStep ==
  ASSUME IndInv, NEW flag, flag = "sof" => camIdx = 0, NEW len \in DataLens,
         DropOversize(flag, len)
  PROVE  IndInv'
<1>1. /\ camFrm' \in Nat /\ camIdx' \in Slots /\ camSeq' \in 0 .. SeqMod - 1
      /\ camFrm' >= camFrm
      /\ camFrm' * PktsPerFrame + camIdx'
           = (camFrm * PktsPerFrame + camIdx) + 1
  BY CamStep DEF IndInv, DropOversize
<1>2. /\ Num \in Slots /\ ExpSlip \in Nat /\ SlotFrm \in Nat
      /\ camFrm * PktsPerFrame + camIdx
           = (SlotFrm * PktsPerFrame + Num) + ExpSlip
  BY SlotIsBehind DEF DropOversize
<1>3. /\ validPkts' \in Nat /\ timestamp' \in Nat
      /\ out' \in [frame : Nat, size : Nat, slip : Nat]
      /\ out'.size \in {0, FrameSize}
      /\ out'.frame < camFrm /\ out'.frame < SlotFrm
      /\ GotAfterLoss \in Nat
  BY ClosedByLoss DEF DropOversize
<1>4. /\ curFrm' = SlotFrm /\ pktNum' = Num /\ seq' = camSeq /\ gap' = 1
      /\ slip' = ExpSlip /\ synced'
  BY DEF DropOversize, SlotFrm
<1>5. TypeOK'
  BY <1>1, <1>2, <1>3, <1>4, StreamAssumption DEF IndInv, DropOversize, TypeOK
<1>6. SeqInv'
  BY <1>4, StreamAssumption
  DEF IndInv, DropOversize, TypeOK, CamAdvance, SeqInc, SeqInv
<1>7. PosInv'
  <2>1. SlotFrm * PktsPerFrame \in Nat /\ Num \in Nat
    BY <1>2, ConstFacts DEF Slots
  <2>2. camFrm' * PktsPerFrame + camIdx'
          = (SlotFrm * PktsPerFrame + Num) + 1 + ExpSlip
    BY <1>1, <1>2, <2>1
  <2>. QED
    BY <1>4, <2>2 DEF PosInv
<1>8. OrderInv'
  <2>1. camFrm' \in Nat /\ camFrm' >= camFrm /\ camFrm \in Nat /\ out'.frame \in Nat
        /\ out'.frame < camFrm /\ out'.frame < curFrm'
    <3>1. camFrm' \in Nat /\ camFrm' >= camFrm
      BY <1>1
    <3>2. camFrm \in Nat
      BY DEF IndInv, TypeOK
    <3>3. out'.frame \in Nat
      BY ONLY <1>3
    <3>4. out'.frame < camFrm /\ out'.frame < curFrm'
      BY ONLY <1>3, <1>4
    <3>. QED
      BY ONLY <3>1, <3>2, <3>3, <3>4
  <2>. QED
    BY ONLY <2>1 DEF OrderInv
<1>9. PacketsInPlace' /\ WritesInBounds' /\ WholeFrames'
  BY <1>3 DEF IndInv, DropOversize, PacketsInPlace, WritesInBounds, WholeFrames
<1>. QED
  BY <1>5, <1>6, <1>7, <1>8, <1>9 DEF IndInv

\* Nothing outstanding: the expected number is the camera's.
LEMMA NoGap ==
  \A a, b, c \in Nat :
    c < SeqMod /\ a = c /\ b = 0 =>
      c = IF a + b < SeqMod THEN a + b ELSE (a + b) - SeqMod
OBVIOUS

\* An accepted packet is copied in place and the position follows the camera.
LEMMA AcceptStep ==
  ASSUME IndInv, NEW flag, flag = "sof" => camIdx = 0, NEW len \in DataLens,
         AcceptPacket(flag, len)
  PROVE  IndInv'
<1>1. /\ camFrm' \in Nat /\ camIdx' \in Slots /\ camSeq' \in 0 .. SeqMod - 1
      /\ camFrm' >= camFrm
      /\ camFrm' * PktsPerFrame + camIdx'
           = (camFrm * PktsPerFrame + camIdx) + 1
  BY CamStep DEF IndInv, AcceptPacket
<1>2. /\ Num \in Slots /\ ExpSlip \in Nat /\ SlotFrm \in Nat
      /\ camIdx = (Num + ExpSlip) % PktsPerFrame
      /\ SlotFrm <= camFrm
      /\ camFrm * PktsPerFrame + camIdx
           = (SlotFrm * PktsPerFrame + Num) + ExpSlip
  BY SlotIsIndex, SlotIsBehind DEF AcceptPacket
<1>3. rawBuf' \in [Slots -> Nat \X Nat \X Nat] /\ PacketsInPlace'
  <2>1. rawBuf' = [rawBuf EXCEPT ![Num] = <<camFrm, camIdx, ExpSlip>>]
    BY DEF AcceptPacket
  <2>2. <<camFrm, camIdx, ExpSlip>> \in Nat \X Nat \X Nat
    BY <1>2 DEF IndInv, TypeOK, Slots
  <2>3. rawBuf' \in [Slots -> Nat \X Nat \X Nat]
    BY <2>1, <2>2 DEF IndInv, TypeOK
  <2>4. PacketsInPlace'
    <3> SUFFICES ASSUME NEW i \in Slots, rawBuf'[i] # Empty
                 PROVE  rawBuf'[i][2] = (i + rawBuf'[i][3]) % PktsPerFrame
      BY DEF PacketsInPlace
    <3>1. CASE i = Num
      <4>1. rawBuf'[i] = <<camFrm, camIdx, ExpSlip>>
        BY <1>2, <2>1, <3>1 DEF IndInv, TypeOK
      <4>. QED
        BY <1>2, <3>1, <4>1
    <3>2. CASE i # Num
      <4>1. rawBuf'[i] = rawBuf[i]
        BY <1>2, <2>1, <3>2 DEF IndInv, TypeOK
      <4>. QED
        BY <4>1 DEF IndInv, PacketsInPlace
    <3>. QED
      BY <3>1, <3>2
  <2>. QED
    BY <2>3, <2>4
<1>seq. seq' = camSeq' /\ gap' = 0 /\ synced' /\ slip' = ExpSlip
  BY DEF AcceptPacket, CamAdvance
<1>4. wrote' \in Nat /\ WritesInBounds'
  BY <1>2, PayloadFits, StreamAssumption
  DEF IndInv, TypeOK, AcceptPacket, ExpectedSize, WritesInBounds
<1>5. GotAfterLoss \in Nat
  BY DEF IndInv, TypeOK, GotAfterLoss, ExpGot
<1>seqInv. SeqInv'
  <2>1. camSeq' \in Nat /\ camSeq' < SeqMod
    BY <1>1, ConstFacts
  <2>. QED
    BY <1>seq, <2>1, NoGap DEF SeqInv
<1>pos. SlotFrm * PktsPerFrame \in Nat /\ Num \in Nat /\ Num < PktsPerFrame
        /\ (SlotFrm + 1) * PktsPerFrame = SlotFrm * PktsPerFrame + PktsPerFrame
  BY <1>2, ConstFacts DEF Slots
<1>6. CASE flag = "eof"
  <2>1. Num = PktsPerFrame - 1
    BY <1>6 DEF AcceptPacket, FlagFits
  <2>2. ~Closes
    <3>1. Lost \in Nat /\ ExpNum \in Slots /\ Lost <= LostLimit
      BY ConstFacts
      DEF IndInv, TypeOK, Lost, SeqSub, ExpSeq, ExpNum, AcceptPacket, Usable
    <3>. QED
      BY <2>1, <3>1, StreamAssumption DEF Num, Closes, Slots
  <2>3. SlotFrm = ExpFrm /\ ExpFrm \in Nat
    BY <1>2, <2>2 DEF SlotFrm
  <2>4. /\ curFrm' = SlotFrm + 1 /\ pktNum' = 0
        /\ out' = [frame |-> SlotFrm, size |-> FrameSize, slip |-> ExpSlip]
    BY <1>6, <2>1, <2>3 DEF AcceptPacket, Returned, FrameSize
  <2>5. TypeOK'
    <3>1. camFrm' \in Nat /\ camIdx' \in Slots /\ camSeq' \in 0 .. SeqMod - 1
      BY <1>1
    <3>2. /\ synced' \in BOOLEAN /\ seq' \in 0 .. SeqMod - 1 /\ gap' \in 0 .. SeqMod - 1
          /\ slip' \in Nat /\ wrote' \in Nat /\ rawBuf' \in [Slots -> Nat \X Nat \X Nat]
      BY <1>1, <1>2, <1>3, <1>4, <1>seq, ConstFacts DEF AcceptPacket
    <3>3. /\ pktNum' \in Slots /\ gotPkts' \in Nat /\ validPkts' \in Nat
          /\ lastTimestamp' \in Nat /\ timestamp' \in Nat
      BY <1>5, <1>6, <2>4, ConstFacts DEF IndInv, TypeOK, AcceptPacket
    <3>4. curFrm' \in Nat /\ out' \in [frame : Nat, size : Nat, slip : Nat]
      BY <1>2, <2>4, FrameSizeType
    <3>. QED
      BY <3>1, <3>2, <3>3, <3>4 DEF TypeOK
  <2> DEFINE pos == camFrm' * PktsPerFrame + camIdx'
             next == (SlotFrm + 1) * PktsPerFrame
  <2>6. next \in Nat /\ ExpSlip \in Nat /\ pos = next + ExpSlip
    <3>1. Num + 1 = PktsPerFrame
      BY <2>1, ConstFacts
    <3>2. next = SlotFrm * PktsPerFrame + PktsPerFrame
      BY <1>pos
    <3>3. pos = ((SlotFrm * PktsPerFrame + Num) + ExpSlip) + 1
      <4>1. /\ pos = (camFrm * PktsPerFrame + camIdx) + 1
            /\ camFrm * PktsPerFrame + camIdx
                 = (SlotFrm * PktsPerFrame + Num) + ExpSlip
        BY <1>1, <1>2
      <4>. QED
        BY ONLY <4>1
    <3> HIDE DEF pos, next
    <3>. QED
      BY <1>2, <1>pos, <3>1, <3>2, <3>3
  <2>7. SlotFrm < camFrm'
    <3> DEFINE f == SlotFrm + 1
    <3>1. /\ PktsPerFrame \in Nat \ {0} /\ camFrm' \in Nat /\ f \in Nat /\ ExpSlip \in Nat
          /\ camIdx' \in 0 .. PktsPerFrame - 1
          /\ camFrm' * PktsPerFrame + camIdx' = f * PktsPerFrame + ExpSlip
      <4>1. PktsPerFrame \in Nat \ {0} /\ camIdx' \in 0 .. PktsPerFrame - 1
        BY <1>1, ConstFacts DEF Slots
      <4>2. camFrm' \in Nat /\ f \in Nat /\ ExpSlip \in Nat
        BY <1>1, <1>2
      <4>3. camFrm' * PktsPerFrame + camIdx' = f * PktsPerFrame + ExpSlip
        BY ONLY <2>6
      <4>. QED
        BY ONLY <4>1, <4>2, <4>3
    <3> HIDE DEF f
    <3>2. f <= camFrm'
      BY ONLY <3>1, FrameRemainder
    <3>. QED
      BY <1>1, <1>2, <3>2 DEF f
  <2>9. PosInv'
    <3>1. curFrm' * PktsPerFrame = next /\ pktNum' = 0 /\ gap' = 0 /\ slip' = ExpSlip
      BY <1>seq, <2>4
    <3> HIDE DEF next
    <3>. QED
      BY <2>6, <3>1 DEF PosInv
  <2>8. OrderInv' /\ WholeFrames'
    BY <1>2, <2>4, <2>7 DEF OrderInv, WholeFrames
  <2>. QED
    BY <1>3, <1>4, <1>seqInv, <2>5, <2>8, <2>9 DEF IndInv
<1>7. CASE flag # "eof"
  <2>1. /\ validPkts' \in Nat /\ timestamp' \in Nat
        /\ out' \in [frame : Nat, size : Nat, slip : Nat]
        /\ out'.size \in {0, FrameSize}
        /\ out'.frame < camFrm /\ out'.frame < SlotFrm
    BY <1>7, ClosedByLoss DEF AcceptPacket
  <2>2. Num + 1 \in Slots
    BY <1>2, <1>7, ConstFacts DEF AcceptPacket, FlagFits, Slots
  <2>3. curFrm' = SlotFrm /\ pktNum' = Num + 1
    BY <1>7 DEF AcceptPacket, SlotFrm
  <2>4. TypeOK'
    BY <1>1, <1>2, <1>3, <1>4, <1>5, <1>7, <1>seq, <2>1, <2>2, <2>3, StreamAssumption
    DEF IndInv, TypeOK, AcceptPacket
  <2>6. PosInv'
    BY <1>1, <1>2, <1>seq, <1>pos, <2>3 DEF PosInv
  <2>7. OrderInv' /\ WholeFrames'
    BY <1>1, <2>1, <2>3 DEF IndInv, TypeOK, OrderInv, WholeFrames
  <2>. QED
    BY <1>3, <1>4, <1>seqInv, <2>4, <2>6, <2>7 DEF IndInv
<1>. QED
  BY <1>6, <1>7

\* Every step of the camera, the link and stream_process preserves the
\* invariant.
LEMMA NextIndInv == IndInv /\ [Next]_vars => IndInv'
<1> SUFFICES ASSUME IndInv, [Next]_vars PROVE IndInv'
  OBVIOUS
<1>1. CASE LosePacket
  BY <1>1, LosePacketStep
<1>2. CASE ResyncAfterLoss
  BY <1>2, ResyncStep
<1>3. ASSUME NEW flag \in {Flag(camIdx), "other"}, NEW len \in DataLens,
             Receive(flag, len)
      PROVE  IndInv'
  <2>1. flag = "sof" => camIdx = 0
    BY <1>3 DEF Flag
  <2>. QED
    BY <1>3, <2>1, SkipStep, RejectStep, DropOversizeStep, AcceptStep
    DEF Receive
<1>4. CASE UNCHANGED vars
  BY <1>4
  DEF vars, camVars, IndInv, TypeOK, SeqInv, PosInv, OrderInv, PacketsInPlace,
      WritesInBounds, WholeFrames
<1>. QED
  BY <1>1, <1>2, <1>3, <1>4 DEF Next

-----------------------------------------------------------------------------
\* The inductive invariant holds in every reachable state.
THEOREM SpecIndInv == Spec => []IndInv
  BY InitIndInv, NextIndInv, PTL DEF Spec

\* pkt_num never leaves the frame, whatever is lost or damaged.
THEOREM TypeCorrect == Spec => []TypeOK
<1>1. IndInv => TypeOK
  BY DEF IndInv
<1>. QED
  BY <1>1, SpecIndInv, PTL

\* Every accepted packet is copied to the slot of its own index, whatever was lost before
\* it in bursts of fewer than SeqMod packets; behind a longer burst it is off by exactly
\* the packets that were lost unseen, until the next resync.
THEOREM Placement == Spec => []PacketsInPlace
<1>1. IndInv => PacketsInPlace
  BY DEF IndInv
<1>. QED
  BY <1>1, SpecIndInv, PTL

\* No packet is copied beyond the end of the frame buffer.
THEOREM MemorySafety == Spec => []WritesInBounds
<1>1. IndInv => WritesInBounds
  BY DEF IndInv
<1>. QED
  BY <1>1, SpecIndInv, PTL

\* Every returned frame has its full size.
THEOREM FullSize == Spec => []WholeFrames
<1>1. IndInv => WholeFrames
  BY DEF IndInv
<1>. QED
  BY <1>1, SpecIndInv, PTL

\* Frames are returned in the camera's order, none twice.
THEOREM InOrder == Spec => FramesInOrder
<1>1. IndInv /\ [Next]_vars => [out'.size > 0 => out'.frame > out.frame]_vars
  <2> SUFFICES ASSUME IndInv, Next, out'.size > 0, vars' # vars
               PROVE  out'.frame > out.frame
    OBVIOUS
  <2>0. /\ out.frame \in Nat /\ ExpFrm \in Nat /\ out.frame < ExpFrm
        /\ NoFrame.size = 0
    BY DEF IndInv, TypeOK, OrderInv, ExpFrm, NoFrame
  <2>1. ~LosePacket /\ ~ResyncAfterLoss
    BY <2>0 DEF LosePacket, ResyncAfterLoss
  <2>2. PICK flag \in {Flag(camIdx), "other"}, len \in DataLens :
          Receive(flag, len)
    BY <2>1 DEF Next
  <2>3. FrameClosedByLoss => out'.frame = ExpFrm
    BY <2>0 DEF FrameClosedByLoss, Returned
  <2>4. ~SkipUntilSof(flag)
    BY <2>0 DEF SkipUntilSof
  <2>5. out'.frame = ExpFrm
    BY <2>2, <2>3, <2>4 DEF Receive, RejectFlag, DropOversize, AcceptPacket, Returned
  <2>. QED
    BY <2>0, <2>5
<1>. QED
  BY <1>1, SpecIndInv, PTL DEF Spec, FramesInOrder
-----------------------------------------------------------------------------
\* The buffer's slots are finitely many, and so are those of any one frame.
LEMMA SlotsFinite ==
  /\ IsFiniteSet(Slots)
  /\ \A f : IsFiniteSet(Own(f)) /\ IsFiniteSet(Newer(f))
<1>1. IsFiniteSet(Slots)
  BY StreamAssumption, FS_Interval DEF Slots
<1>2. \A f : Own(f) \subseteq Slots /\ Newer(f) \subseteq Slots
  BY DEF Own, Newer
<1>. QED
  BY <1>1, <1>2, FS_Subset

\* The camera moves past every packet that it has sent.
LEMMA CamFresh ==
  ASSUME IndInv, FreshInv, CamAdvance, NEW i \in Slots,
         \/ rawBuf'[i] = rawBuf[i]
         \/ rawBuf'[i][1] = camFrm /\ rawBuf'[i][2] = camIdx
  PROVE  rawBuf'[i][1] <= camFrm' /\ (rawBuf'[i][1] = camFrm' => rawBuf'[i][2] < camIdx')
<1>1. /\ camFrm \in Nat /\ camIdx \in 0 .. PktsPerFrame - 1 /\ PktsPerFrame \in Nat
      /\ rawBuf[i][1] \in Nat /\ rawBuf[i][2] \in Nat
  BY StreamAssumption DEF IndInv, TypeOK, Slots
<1>2. rawBuf[i][1] <= camFrm /\ (rawBuf[i][1] = camFrm => rawBuf[i][2] < camIdx)
  BY DEF FreshInv
<1>3. /\ rawBuf'[i][1] \in Nat /\ rawBuf'[i][2] \in Nat /\ rawBuf'[i][1] <= camFrm
      /\ rawBuf'[i][1] = camFrm => rawBuf'[i][2] <= camIdx
  BY <1>1, <1>2
<1>4. CASE camIdx = PktsPerFrame - 1
  <2>1. camFrm' = camFrm + 1
    BY <1>4 DEF CamAdvance
  <2>. QED
    BY <1>1, <1>3, <2>1
<1>5. CASE camIdx # PktsPerFrame - 1
  <2>1. camFrm' = camFrm /\ camIdx' = camIdx + 1
    BY <1>5 DEF CamAdvance
  <2>. QED
    BY <1>1, <1>3, <2>1
<1>. QED
  BY <1>4, <1>5

\* When a usable packet arrives and nothing was lost unseen, got_pkts counts the
\* packets of the frame being assembled that the buffer holds, before and after a loss
\* closes it.
LEMMA Counted ==
  ASSUME AssemblyInv, NEW flag, Usable(flag), flag = "sof" => camIdx = 0, ExpSlip = 0
  PROVE  /\ Cardinality(Own(ExpFrm)) = ExpGot
         /\ ExpGot > 0 => lastTimestamp = ExpFrm
         /\ \A i \in Slots : rawBuf[i][1] <= ExpFrm
         /\ \A i \in Slots : rawBuf[i][1] <= camFrm /\ (rawBuf[i][1] = camFrm => i < camIdx)
         /\ Cardinality(Own(camFrm)) = GotAfterLoss
         /\ GotAfterLoss > 0 => lastTimestamp = camFrm
         /\ camIdx \notin Own(camFrm)
<1>1. IndInv /\ FreshInv /\ CountedInv
  BY DEF AssemblyInv
<1>2. /\ \A i \in Slots : rawBuf[i][1] \in Nat /\ rawBuf[i][2] \in Nat /\ i \in Nat
      /\ camFrm \in Nat /\ curFrm \in Nat /\ camIdx \in Nat
  BY <1>1, SMTT(30) DEF IndInv, TypeOK, Slots
<1>s. Num = camIdx /\ SlotFrm = camFrm
  BY <1>1, SlotIsIndex
<1>4. /\ Cardinality(Own(ExpFrm)) = ExpGot
      /\ ExpGot > 0 => lastTimestamp = ExpFrm
      /\ \A i \in Slots : rawBuf[i][1] <= ExpFrm /\ (rawBuf[i][1] = ExpFrm => i < ExpNum)
  <2>1. CASE synced
    BY <1>1, <2>1 DEF FreshInv, CountedInv, ExpFrm, ExpGot, ExpNum, ExpSlip
  <2>2. CASE ~synced
    <3>1. camIdx = 0 /\ ExpFrm = camFrm /\ ExpGot = 0
      BY <2>2 DEF Usable, ExpFrm, ExpGot
    <3>2. \A i \in Slots : rawBuf[i][1] < camFrm
      BY <1>1, <1>2, <3>1 DEF FreshInv
    <3>3. Own(camFrm) = {}
      BY <1>2, <3>2 DEF Own
    <3>4. Cardinality(Own(camFrm)) = 0
      BY <3>3, FS_EmptySet
    <3>. QED
      BY <1>2, <3>1, <3>2, <3>4
  <2>. QED
    BY <2>1, <2>2
<1>5. CASE Closes
  <2>1. camFrm = ExpFrm + 1 /\ GotAfterLoss = 0 /\ ExpFrm \in Nat
    BY <1>2, <1>5, <1>s DEF GotAfterLoss, ExpFrm, SlotFrm
  <2>2. Own(camFrm) = {} /\ \A i \in Slots : rawBuf[i][1] < camFrm
    BY <1>2, <1>4, <2>1 DEF Own
  <2>3. Cardinality(Own(camFrm)) = 0
    BY <2>2, FS_EmptySet
  <2>. QED
    BY <1>2, <1>4, <2>1, <2>2, <2>3
<1>6. CASE ~Closes
  <2>1. camFrm = ExpFrm /\ GotAfterLoss = ExpGot
    BY <1>6, <1>s DEF GotAfterLoss, SlotFrm
  <2>2. ExpNum \in Nat /\ Lost \in Nat /\ camIdx = ExpNum + Lost
    <3>1. ExpNum \in Nat /\ Lost \in Nat
      BY <1>1, ConstFacts DEF IndInv, TypeOK, Slots, Lost, SeqSub, ExpSeq, ExpNum
    <3>. QED
      BY <1>6, <1>s, <3>1 DEF Num
  <2>3. \A i \in Slots : rawBuf[i][1] <= camFrm /\ (rawBuf[i][1] = camFrm => i < camIdx)
    BY <1>2, <1>4, <2>1, <2>2
  <2>. QED
    BY <1>2, <1>4, <2>1, <2>3 DEF Own
<1>. QED
  BY <1>5, <1>6

\* A frame that a loss closes is returned as it was assembled, but for the
\* one slot the arriving packet may already have been copied to.
LEMMA ClosedIsAssembled ==
  ASSUME AssemblyInv, NEW flag, Usable(flag), flag = "sof" => camIdx = 0,
         FrameClosedByLoss,
         \/ UNCHANGED rawBuf
         \/ rawBuf' = [rawBuf EXCEPT ![Num] = <<camFrm, camIdx, ExpSlip>>]
  PROVE  ReturnedFrameIsAssembled'
<1> SUFFICES ASSUME out'.size > 0, out'.slip = 0
             PROVE  /\ Cardinality(Newer(out.frame)') <= 1
                    /\ Cardinality(Own(out.frame)') <= validPkts'
                    /\ validPkts' <= Cardinality(Own(out.frame)') + Cardinality(Newer(out.frame)')
                    /\ validPkts' > 0 => timestamp' = out'.frame
  BY DEF ReturnedFrameIsAssembled
<1>1. IndInv
  BY DEF AssemblyInv
<1>2. Closes
  <2>1. NoFrame.size = 0
    BY <1>1 DEF IndInv, TypeOK, NoFrame
  <2>. QED
    BY <2>1 DEF FrameClosedByLoss
<1>s. ExpSlip = 0
  BY <1>2 DEF FrameClosedByLoss, Returned
<1>3. /\ out'.frame = ExpFrm /\ validPkts' = ExpGot /\ timestamp' = lastTimestamp
      /\ camFrm = ExpFrm + 1 /\ Num = camIdx
  BY <1>1, <1>2, <1>s, SlotIsIndex DEF FrameClosedByLoss, Returned, SlotFrm
<1>4. /\ Cardinality(Own(ExpFrm)) = ExpGot
      /\ ExpGot > 0 => lastTimestamp = ExpFrm
      /\ \A i \in Slots : rawBuf[i][1] <= ExpFrm
  BY <1>s, Counted
<1>5. /\ rawBuf \in [Slots -> Nat \X Nat \X Nat] /\ camIdx \in Slots /\ ExpFrm \in Nat
      /\ \A i \in Slots : rawBuf[i][1] \in Nat
      /\ ExpGot \in Nat
  BY <1>1 DEF IndInv, TypeOK, ExpFrm, ExpGot
<1>6. CASE UNCHANGED rawBuf
  <2>1. Newer(out.frame)' = {}
    BY <1>3, <1>4, <1>5, <1>6 DEF Newer
  <2>2. Own(out.frame)' = Own(ExpFrm)
    BY <1>3, <1>6 DEF Own
  <2>3. Cardinality(Newer(out.frame)') = 0
    BY <2>1, FS_EmptySet
  <2>. QED
    BY <1>3, <1>4, <1>5, <2>2, <2>3
<1>7. CASE rawBuf' = [rawBuf EXCEPT ![camIdx] = <<camFrm, camIdx, ExpSlip>>]
  <2>1. \A i \in Slots : rawBuf'[i][1] = IF i = camIdx THEN ExpFrm + 1 ELSE rawBuf[i][1]
    BY <1>3, <1>5, <1>7
  <2>2. Newer(out.frame)' = {camIdx}
    <3>1. \A i \in Slots : rawBuf'[i][1] > ExpFrm <=> i = camIdx
      BY <1>4, <1>5, <2>1
    <3>. QED
      BY <1>3, <1>5, <3>1 DEF Newer
  <2>3. Own(out.frame)' = Own(ExpFrm) \ {camIdx}
    <3>1. \A i \in Slots : rawBuf'[i][1] = ExpFrm <=> i # camIdx /\ rawBuf[i][1] = ExpFrm
      BY <1>5, <2>1
    <3>. QED
      BY <1>3, <3>1 DEF Own
  <2>4. Cardinality(Newer(out.frame)') = 1
    BY <2>2, FS_Singleton
  <2>5. Cardinality(Own(out.frame)') = IF camIdx \in Own(ExpFrm) THEN ExpGot - 1 ELSE ExpGot
    <3>1. IsFiniteSet(Own(ExpFrm))
      BY SlotsFinite
    <3>. QED
      BY <1>4, <2>3, <3>1, FS_RemoveElement
  <2>. QED
    BY <1>3, <1>4, <1>5, <2>4, <2>5
<1>. QED
  BY <1>3, <1>6, <1>7

\* While nothing is copied or returned the counts stay as they are.
LEMMA NothingCopied ==
  ASSUME AssemblyInv, IndInv', CamAdvance, UNCHANGED rawBuf,
         \/ ~synced'
         \/ /\ synced /\ synced' /\ (slip' = 0 => slip = 0)
            /\ UNCHANGED <<curFrm, pktNum, gotPkts, lastTimestamp>>
  PROVE  FreshInv' /\ CountedInv'
<1>1. IndInv /\ FreshInv /\ CountedInv
  BY DEF AssemblyInv
<1>2. \A i \in Slots :
        rawBuf'[i][1] <= camFrm' /\ (rawBuf'[i][1] = camFrm' => rawBuf'[i][2] < camIdx')
  BY <1>1, CamFresh
<1>3. CASE ~synced'
  BY <1>2, <1>3 DEF FreshInv, CountedInv
<1>4. CASE /\ synced /\ synced' /\ (slip' = 0 => slip = 0)
           /\ UNCHANGED <<curFrm, pktNum, gotPkts, lastTimestamp>>
  <2>1. Own(curFrm)' = Own(curFrm)
    BY <1>4 DEF Own
  <2>. QED
    BY <1>1, <1>2, <1>4, <2>1 DEF FreshInv, CountedInv
<1>. QED
  BY <1>3, <1>4

\* Losing, skipping and resynchronising return no frame.
LEMMA QuietStep ==
  ASSUME AssemblyInv, IndInv',
         LosePacket \/ ResyncAfterLoss \/ \E flag \in {Flag(camIdx), "other"} : SkipUntilSof(flag)
  PROVE  AssemblyInv'
<1>1. /\ out'.size = 0 /\ CamAdvance
      /\ UNCHANGED <<rawBuf, curFrm, pktNum, gotPkts, lastTimestamp>>
  BY DEF AssemblyInv, IndInv, TypeOK, LosePacket, ResyncAfterLoss, SkipUntilSof, NoFrame
<1>2. UNCHANGED synced \/ synced' = FALSE
  BY DEF LosePacket, ResyncAfterLoss, SkipUntilSof
<1>3. synced \in BOOLEAN /\ slip \in Nat
  BY DEF AssemblyInv, IndInv, TypeOK
<1>4. ~synced' \/ (synced /\ synced')
  BY <1>2, <1>3
<1>s. synced' => (slip' = 0 => slip = 0)
  <2>1. CASE LosePacket
    BY <1>3, <2>1, StreamAssumption DEF LosePacket
  <2>2. CASE ResyncAfterLoss
    BY <2>2 DEF ResyncAfterLoss
  <2>3. CASE \E flag \in {Flag(camIdx), "other"} : SkipUntilSof(flag)
    BY <2>3 DEF SkipUntilSof
  <2>. QED
    BY <2>1, <2>2, <2>3
<1>5. FreshInv' /\ CountedInv'
  BY <1>1, <1>4, <1>s, NothingCopied
<1>6. ReturnedFrameIsAssembled'
  BY <1>1 DEF ReturnedFrameIsAssembled
<1>. QED
  BY <1>5, <1>6 DEF AssemblyInv

\* A rejected packet may close a frame, and leaves the buffer alone.
LEMMA RejectAssembled ==
  ASSUME AssemblyInv, IndInv', NEW flag, flag = "sof" => camIdx = 0, RejectFlag(flag)
  PROVE  AssemblyInv'
<1>1. Usable(flag) /\ FrameClosedByLoss /\ CamAdvance /\ UNCHANGED rawBuf /\ synced' = FALSE
  BY DEF RejectFlag
<1>2. FreshInv' /\ CountedInv'
  BY <1>1, NothingCopied
<1>3. ReturnedFrameIsAssembled'
  BY <1>1, ClosedIsAssembled
<1>. QED
  BY <1>2, <1>3 DEF AssemblyInv

\* A packet that is too long may close a frame; the next frame starts empty.
LEMMA DropAssembled ==
  ASSUME AssemblyInv, IndInv', NEW flag, flag = "sof" => camIdx = 0, NEW len \in DataLens,
         DropOversize(flag, len)
  PROVE  AssemblyInv'
<1>1. /\ Usable(flag) /\ FrameClosedByLoss /\ CamAdvance /\ UNCHANGED <<rawBuf, lastTimestamp>>
      /\ gotPkts' = GotAfterLoss /\ pktNum' = Num /\ slip' = ExpSlip /\ curFrm' = SlotFrm
  BY DEF DropOversize, SlotFrm
<1>2. IndInv /\ FreshInv
  BY DEF AssemblyInv
<1>3. \A i \in Slots :
        rawBuf'[i][1] <= camFrm' /\ (rawBuf'[i][1] = camFrm' => rawBuf'[i][2] < camIdx')
  BY <1>1, <1>2, CamFresh
<1>4. ASSUME slip' = 0
      PROVE  /\ curFrm' = camFrm /\ pktNum' = camIdx
             /\ \A i \in Slots : rawBuf[i][1] <= camFrm /\ (rawBuf[i][1] = camFrm => i < camIdx)
             /\ Cardinality(Own(camFrm)) = GotAfterLoss
             /\ GotAfterLoss > 0 => lastTimestamp = camFrm
  BY <1>1, <1>2, <1>4, SlotIsIndex, Counted
<1>5. FreshInv'
  BY <1>1, <1>3, <1>4 DEF FreshInv
<1>6. CountedInv'
  <2>1. Own(curFrm)' = Own(curFrm')
    BY <1>1 DEF Own
  <2>. QED
    BY <1>1, <1>4, <2>1 DEF CountedInv
<1>7. ReturnedFrameIsAssembled'
  BY <1>1, ClosedIsAssembled
<1>. QED
  BY <1>5, <1>6, <1>7 DEF AssemblyInv

\* An accepted packet fills a slot that held an older frame's, and is counted.
LEMMA AcceptAssembled ==
  ASSUME AssemblyInv, IndInv', NEW flag, flag = "sof" => camIdx = 0, NEW len \in DataLens,
         AcceptPacket(flag, len)
  PROVE  AssemblyInv'
<1>1. IndInv /\ FreshInv
  BY DEF AssemblyInv
<1>2. /\ Usable(flag) /\ CamAdvance /\ lastTimestamp' = camFrm /\ slip' = ExpSlip
      /\ rawBuf' = [rawBuf EXCEPT ![Num] = <<camFrm, camIdx, ExpSlip>>]
  BY DEF AcceptPacket
<1>num. Num \in Slots /\ ExpSlip \in Nat
  BY <1>1, <1>2, SlotIsIndex
<1>3. /\ rawBuf \in [Slots -> Nat \X Nat \X Nat] /\ camIdx \in Slots /\ camFrm \in Nat
      /\ \A i \in Slots : rawBuf[i][1] \in Nat
  BY <1>1 DEF IndInv, TypeOK
<1>4. /\ \A i \in Slots : rawBuf'[i] = IF i = Num THEN <<camFrm, camIdx, ExpSlip>> ELSE rawBuf[i]
      /\ \A i \in Slots : rawBuf'[i][1] = IF i = Num THEN camFrm ELSE rawBuf[i][1]
  BY <1>2, <1>3, <1>num
<1>5. \A i \in Slots :
        rawBuf'[i][1] <= camFrm' /\ (rawBuf'[i][1] = camFrm' => rawBuf'[i][2] < camIdx')
  <2> SUFFICES ASSUME NEW i \in Slots
               PROVE  rawBuf'[i][1] <= camFrm' /\ (rawBuf'[i][1] = camFrm' => rawBuf'[i][2] < camIdx')
    OBVIOUS
  <2>1. \/ rawBuf'[i] = rawBuf[i]
        \/ rawBuf'[i][1] = camFrm /\ rawBuf'[i][2] = camIdx
    BY <1>4
  <2>. QED
    BY <1>1, <1>2, <2>1, CamFresh
<1>8. GotAfterLoss \in Nat
  BY <1>1 DEF IndInv, TypeOK, GotAfterLoss, ExpGot
<1>s. ASSUME ExpSlip = 0
      PROVE  /\ Num = camIdx /\ SlotFrm = camFrm
             /\ \A i \in Slots : rawBuf[i][1] <= camFrm /\ (rawBuf[i][1] = camFrm => i < camIdx)
             /\ Cardinality({i \in Slots : rawBuf'[i][1] = camFrm}) = GotAfterLoss + 1
  <2>1. Num = camIdx /\ SlotFrm = camFrm
    BY <1>1, <1>2, <1>s, SlotIsIndex
  <2>2. {i \in Slots : rawBuf'[i][1] = camFrm} = Own(camFrm) \union {camIdx}
    BY <1>3, <1>4, <2>1 DEF Own
  <2>3. /\ IsFiniteSet(Own(camFrm)) /\ camIdx \notin Own(camFrm)
        /\ Cardinality(Own(camFrm)) = GotAfterLoss
        /\ \A i \in Slots : rawBuf[i][1] <= camFrm /\ (rawBuf[i][1] = camFrm => i < camIdx)
    BY <1>2, <1>s, SlotsFinite, Counted
  <2>. QED
    BY <2>1, <2>2, <2>3, FS_AddElement
<1>9. CASE flag = "eof"
  <2>1. ~Closes
    <3>1. Lost \in Nat /\ ExpNum \in Slots /\ Lost <= LostLimit
      BY <1>1, <1>2, ConstFacts
      DEF IndInv, TypeOK, Lost, SeqSub, ExpSeq, ExpNum, Usable
    <3>2. Num = PktsPerFrame - 1
      BY <1>9 DEF AcceptPacket, FlagFits
    <3>. QED
      BY <3>1, <3>2, StreamAssumption DEF Num, Closes, Slots
  <2>2. /\ curFrm' = SlotFrm + 1 /\ gotPkts' = 0 /\ validPkts' = GotAfterLoss + 1
        /\ timestamp' = camFrm /\ out'.frame = SlotFrm /\ out'.slip = ExpSlip
    BY <1>9, <2>1 DEF AcceptPacket, Returned, SlotFrm
  <2>3. ASSUME ExpSlip = 0
        PROVE  /\ curFrm' = camFrm + 1 /\ out'.frame = camFrm
               /\ \A i \in Slots : rawBuf'[i][1] \in Nat /\ rawBuf'[i][1] <= camFrm
    BY <1>3, <1>4, <1>s, <2>2, <2>3
  <2>4. FreshInv'
    BY <1>2, <1>3, <1>5, <2>3 DEF FreshInv
  <2>5. CountedInv'
    <3> SUFFICES ASSUME slip' = 0
                 PROVE  Cardinality(Own(curFrm)') = 0
      BY <2>2 DEF CountedInv
    <3>1. Own(curFrm)' = {}
      BY <1>2, <1>3, <2>3 DEF Own
    <3>. QED
      BY <3>1, FS_EmptySet
  <2>6. ReturnedFrameIsAssembled'
    <3> SUFFICES ASSUME out'.slip = 0 PROVE ReturnedFrameIsAssembled'
      BY DEF ReturnedFrameIsAssembled
    <3>1. Newer(out.frame)' = {}
      BY <1>3, <2>2, <2>3 DEF Newer
    <3>2. Cardinality(Newer(out.frame)') = 0
      BY <3>1, FS_EmptySet
    <3>3. Cardinality(Own(out.frame)') = GotAfterLoss + 1
      BY <1>s, <2>2, <2>3 DEF Own
    <3>. QED
      BY <1>8, <2>2, <2>3, <3>2, <3>3 DEF ReturnedFrameIsAssembled
  <2>. QED
    BY <2>4, <2>5, <2>6 DEF AssemblyInv
<1>10. CASE flag # "eof"
  <2>1. /\ curFrm' = SlotFrm /\ gotPkts' = GotAfterLoss + 1 /\ pktNum' = Num + 1
        /\ FrameClosedByLoss
    BY <1>10 DEF AcceptPacket, SlotFrm
  <2>2. FreshInv'
    <3> SUFFICES ASSUME slip' = 0, NEW i \in Slots
                 PROVE  rawBuf'[i][1] <= curFrm' /\ (rawBuf'[i][1] = curFrm' => i < pktNum')
      BY <1>5 DEF FreshInv
    <3>1. /\ curFrm' = camFrm /\ pktNum' = camIdx + 1 /\ Num = camIdx
          /\ rawBuf[i][1] <= camFrm /\ (rawBuf[i][1] = camFrm => i < camIdx)
      BY <1>2, <1>s, <2>1
    <3>2. i \in Nat /\ camIdx \in Nat
      BY <1>3 DEF Slots
    <3>. QED
      BY <1>3, <1>4, <3>1, <3>2
  <2>3. CountedInv'
    <3> SUFFICES ASSUME slip' = 0
                 PROVE  /\ Cardinality(Own(curFrm)') = gotPkts'
                        /\ lastTimestamp' = curFrm'
      BY DEF CountedInv
    <3>1. curFrm' = camFrm
      BY <1>2, <1>s, <2>1
    <3>. QED
      BY <1>2, <1>s, <2>1, <3>1 DEF Own
  <2>4. ReturnedFrameIsAssembled'
    BY <1>2, <2>1, ClosedIsAssembled
  <2>. QED
    BY <2>2, <2>3, <2>4 DEF AssemblyInv
<1>. QED
  BY <1>9, <1>10

\* Every step preserves what the buffer holds of the frame being assembled.
LEMMA NextAssemblyInv == AssemblyInv /\ [Next]_vars => AssemblyInv'
<1> SUFFICES ASSUME AssemblyInv, [Next]_vars PROVE AssemblyInv'
  OBVIOUS
<1>1. IndInv'
  BY NextIndInv DEF AssemblyInv
<1>2. CASE LosePacket \/ ResyncAfterLoss
  BY <1>1, <1>2, QuietStep
<1>3. ASSUME NEW flag \in {Flag(camIdx), "other"}, NEW len \in DataLens,
             Receive(flag, len)
      PROVE  AssemblyInv'
  <2>1. flag = "sof" => camIdx = 0
    BY <1>3 DEF Flag
  <2>2. CASE SkipUntilSof(flag)
    BY <1>1, <2>2, QuietStep
  <2>. QED
    BY <1>1, <1>3, <2>1, <2>2, RejectAssembled, DropAssembled, AcceptAssembled
    DEF Receive
<1>4. CASE UNCHANGED vars
  BY <1>1, <1>4
  DEF vars, camVars, AssemblyInv, FreshInv, CountedInv, ReturnedFrameIsAssembled, Own, Newer
<1>. QED
  BY <1>2, <1>3, <1>4 DEF Next

\* The buffer a frame is returned in holds its own packets, valid_pkts of them
\* with at most one slot taken by the next frame, and the frame's timestamp is
\* its own, whatever was lost, dropped or rejected before; unless a burst of SeqMod
\* packets or more was lost unseen since the last sync.
THEOREM Assembled == Spec => []ReturnedFrameIsAssembled
<1>1. Init => AssemblyInv
  <2> SUFFICES ASSUME Init PROVE AssemblyInv
    OBVIOUS
  <2>1. \A i \in Slots : rawBuf[i][1] = 0
    BY DEF Init, Empty
  <2>2. FreshInv
    BY <2>1 DEF Init, FreshInv
  <2>. QED
    BY <2>2, InitIndInv DEF Init, AssemblyInv, CountedInv, ReturnedFrameIsAssembled
<1>2. AssemblyInv => ReturnedFrameIsAssembled
  BY DEF AssemblyInv
<1>. QED
  BY <1>1, <1>2, NextAssemblyInv, PTL DEF Spec
=============================================================================
