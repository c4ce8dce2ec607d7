------------------------------ MODULE TuioProofs ------------------------------
(***************************************************************************)
(* Theorems about the parts of MCTuio, for every value of the constants:   *)
(* what is written stays in its buffer and is read back, the client's      *)
(* thread does not sleep past a timer, cursors have numbers without gaps,  *)
(* and a client that missed nothing lists what its server lists.           *)
(***************************************************************************)
EXTENDS MCTuio, FiniteSetTheorems, FunctionTheorems, SequenceTheorems,
        WellFoundedInduction, TLAPS

\* A step of MCTuio is one of the part that was chosen, or changes nothing.
LEMMA PartSteps ==
  [Next]_all =>
    /\ part' = part
    /\ part = "osc" => Osc!Next \/ UNCHANGED oscVars
    /\ part = "bundles" => Bundles!Next \/ UNCHANGED sizeVars
    /\ part = "cursors" => Cursors!Next \/ UNCHANGED cursorVars
    /\ part = "session" => Session!Next \/ UNCHANGED tuioVars
    /\ part = "mux" => Mux!Next \/ UNCHANGED muxVars
  BY DEF Next, all, ByOsc, ByBundles, ByCursors, BySession, ByMux

-----------------------------------------------------------------------------
(* Writing an OSC packet.                                                  *)

\* Padding to four bytes takes no byte away.
LEMMA Padded == \A x \in Nat : Osc!RoundUp4(x) \in Nat /\ Osc!RoundUp4(x) >= x
  BY DEF Osc!RoundUp4

\* The two small sizes that are written for a message without arguments.
LEMMA PaddedTwo == Osc!RoundUp4(2) = 4
  BY DEF Osc!RoundUp4

\* What an argument takes in the buffer.
LEMMA WidthType == \A x \in Osc!Args : Osc!Width(x) \in Nat
<1> SUFFICES ASSUME NEW x \in Osc!Args PROVE Osc!Width(x) \in Nat
  OBVIOUS
<1>1. x.len \in Nat
  <2>1. CASE x \in [tag : {"T"}, len : {0}]
    BY <2>1
  <2>2. CASE x \in [tag : {"i"}, len : {4}]
    BY <2>2
  <2>3. CASE x \in [tag : {"d"}, len : {8}]
    BY <2>3
  <2>4. CASE x \in [tag : {"s"}, len : StrLens]
    <3>1. x.len \in StrLens
      BY <2>4
    <3> QED
      BY <3>1, SizesAssumption
  <2>5. CASE x \in [tag : {"b"}, len : BlobSizes]
    <3>1. x.len \in BlobSizes
      BY <2>5
    <3> QED
      BY <3>1, SizesAssumption
  <2> QED
    BY <2>1, <2>2, <2>3, <2>4, <2>5 DEF Osc!Args
<1>2. Osc!RoundUp4(x.len) \in Nat /\ Osc!RoundUp4(x.len + 1) \in Nat
  <2>1. x.len + 1 \in Nat
    BY <1>1
  <2> QED
    BY <1>1, <2>1, Padded
<1> QED
  BY <1>1, <1>2 DEF Osc!Width

\* An empty packet is in order.
LEMMA OscEmpty ==
  ASSUME messageCursor = 0, argumentCurrent = 0, inProgress = FALSE, tags = <<>>
  PROVE  Osc!IndInv
<1>1. tags \in Seq(Osc!Args)
  OBVIOUS
<1>2. Osc!Size = 0
  BY DEF Osc!Size
<1>3. 0 \in Nat /\ 0 <= Capacity
  BY SizesAssumption
<1> QED
  BY <1>1, <1>2, <1>3 DEF Osc!IndInv

LEMMA OscInit == Osc!Init => Osc!IndInv
  BY OscEmpty DEF Osc!Init

LEMMA OscStep ==
  ASSUME Osc!IndInv, Osc!Next
  PROVE  Osc!IndInv'
<1>1. /\ messageCursor \in Nat /\ argumentCurrent \in Nat /\ inProgress \in BOOLEAN
      /\ tags \in Seq(Osc!Args) /\ Len(tags) \in Nat /\ Capacity \in Nat
      /\ Osc!Size <= Capacity
      /\ ~inProgress => argumentCurrent = messageCursor
      /\ Osc!SizeSlot \in Nat
  BY SizesAssumption DEF Osc!IndInv, Osc!SizeSlot
<1>2. CASE Osc!BeginBundle
  <2>1. /\ inProgress = FALSE /\ inProgress' = FALSE /\ tags' = tags
        /\ messageCursor' = messageCursor + Osc!SizeSlot + 16 /\ argumentCurrent' = messageCursor'
        /\ Osc!Size + Osc!SizeSlot + 16 <= Capacity
    BY <1>1, <1>2 DEF Osc!BeginBundle
  <2>2. Osc!Size = messageCursor /\ Osc!Size' = argumentCurrent'
    BY <1>1, <2>1 DEF Osc!Size
  <2>3. messageCursor' \in Nat /\ Osc!Size' <= Capacity
    BY <1>1, <2>1, <2>2
  <2> QED
    BY <1>1, <2>1, <2>3 DEF Osc!IndInv
<1>3. CASE Osc!EndBundle
  <2>1. UNCHANGED <<messageCursor, argumentCurrent, inProgress, tags>>
    BY <1>3 DEF Osc!EndBundle
  <2> QED
    BY <1>1, <2>1 DEF Osc!IndInv, Osc!Size
<1>4. CASE Osc!Receive
  <2>1. UNCHANGED <<messageCursor, argumentCurrent, inProgress, tags>>
    BY <1>4 DEF Osc!Receive
  <2> QED
    BY <1>1, <2>1 DEF Osc!IndInv, Osc!Size
<1>5. CASE Osc!Clear
  <2>1. tags' = <<>> /\ messageCursor' = 0 /\ argumentCurrent' = 0 /\ inProgress' = FALSE
    BY <1>5 DEF Osc!Clear
  <2>2. Osc!Size' = 0 /\ tags' \in Seq(Osc!Args)
    BY <2>1 DEF Osc!Size
  <2>3. 0 \in Nat /\ 0 <= Capacity
    BY <1>1
  <2> QED
    BY <2>1, <2>2, <2>3 DEF Osc!IndInv
<1>6. CASE Osc!EndMessage
  <2>1. /\ inProgress = TRUE /\ inProgress' = FALSE /\ tags' = <<>>
        /\ messageCursor' = argumentCurrent + Osc!TagSlot(Len(tags))
        /\ argumentCurrent' = messageCursor'
    BY <1>1, <1>6 DEF Osc!EndMessage
  <2>2. Osc!TagSlot(Len(tags)) \in Nat
    BY <1>1, Padded, SMTT(30) DEF Osc!TagSlot
  <2>3. messageCursor' = Osc!Size /\ Osc!Size' = argumentCurrent' /\ messageCursor' \in Nat
    BY <1>1, <2>1, <2>2 DEF Osc!Size
  <2>4. Osc!Size' <= Capacity /\ tags' \in Seq(Osc!Args)
    BY <1>1, <2>1, <2>3
  <2> QED
    BY <2>1, <2>3, <2>4 DEF Osc!IndInv
<1>7. ASSUME NEW a \in AddrLens, Osc!BeginMessage(a) PROVE Osc!IndInv'
  <2> DEFINE w == Osc!RoundUp4(a + 1)
  <2>1. a + 1 \in Nat /\ w \in Nat
    BY SizesAssumption, Padded
  <2>2. /\ inProgress = FALSE /\ inProgress' = TRUE /\ tags' = <<>> /\ Len(tags') = 0
        /\ messageCursor' = messageCursor + Osc!SizeSlot + w /\ argumentCurrent' = messageCursor'
        /\ Osc!Size + Osc!SizeSlot + w + 4 <= Capacity
    BY <1>1, <1>7 DEF Osc!BeginMessage
  <2> HIDE DEF w
  <2>3. Osc!Size = messageCursor /\ Osc!Size' = argumentCurrent' + 4
    <3>1. Osc!TagSlot(0) = 4
      BY PaddedTwo DEF Osc!TagSlot
    <3> QED
      BY <1>1, <2>2, <3>1 DEF Osc!Size
  <2> QED
    BY <1>1, <2>1, <2>2, <2>3 DEF Osc!IndInv
<1>8. ASSUME NEW x \in Osc!Args, Osc!Argument(x) PROVE Osc!IndInv'
  <2>1. /\ inProgress = TRUE /\ inProgress' = TRUE /\ tags' = Append(tags, x)
        /\ messageCursor' = messageCursor /\ argumentCurrent' = argumentCurrent + Osc!Width(x)
        /\ argumentCurrent + Osc!Width(x) + Osc!RoundUp4(Len(tags) + 3) <= Capacity
    BY <1>1, <1>8 DEF Osc!Argument, Osc!Fits
  <2>2. tags' \in Seq(Osc!Args) /\ Len(tags') = Len(tags) + 1
    BY <1>1, <2>1, AppendProperties
  <2>3. Osc!Width(x) \in Nat
    BY WidthType
  <2>4. Osc!TagSlot(Len(tags')) = Osc!RoundUp4(Len(tags) + 3)
    <3>1. Len(tags) + 1 + 2 = Len(tags) + 3
      BY <1>1
    <3> QED
      BY <2>2, <3>1 DEF Osc!TagSlot
  <2>5. Osc!Size' = argumentCurrent + Osc!Width(x) + Osc!RoundUp4(Len(tags) + 3)
    BY <2>1, <2>4 DEF Osc!Size
  <2> QED
    BY <1>1, <2>1, <2>2, <2>3, <2>5 DEF Osc!IndInv
<1> QED
  BY <1>2, <1>3, <1>4, <1>5, <1>6, <1>7, <1>8 DEF Osc!Next

\* The type tags, which grow from the end of the buffer, leave the arguments alone.
LEMMA OscFits == Osc!IndInv => Osc!FitsInBuffer
<1> SUFFICES ASSUME Osc!IndInv PROVE Osc!FitsInBuffer
  OBVIOUS
<1>1. argumentCurrent \in Nat /\ Len(tags) \in Nat /\ Capacity \in Nat /\ Osc!Size <= Capacity
  BY SizesAssumption DEF Osc!IndInv
<1>2. inProgress => Osc!Size = argumentCurrent + Osc!RoundUp4(Len(tags) + 2)
  BY DEF Osc!Size, Osc!TagSlot
<1>3. Osc!RoundUp4(Len(tags) + 2) \in Nat /\ Osc!RoundUp4(Len(tags) + 2) >= Len(tags) + 2
  BY <1>1, Padded
<1>4. inProgress => argumentCurrent <= Capacity - Len(tags)
  BY <1>1, <1>2, <1>3
<1> QED
  BY <1>1, <1>4 DEF Osc!FitsInBuffer

-----------------------------------------------------------------------------
(* Filling the packets of a frame.                                         *)

\* The reserve is the size of a set and an fseq message.
LEMMA Reserves ==
  ASSUME profile \in {"2Dcur", "3Dcur", "2Dobj"}
  PROVE  /\ Bundles!FseqMessage = 32 /\ Bundles!SetMessage \in Nat
         /\ profile # "3Dcur" => Bundles!SetMessage + 32 = Bundles!Reserved
<1>1. /\ Bundles!Round4(4) = 4 /\ Bundles!Round4(5) = 8 /\ Bundles!Round4(9) = 12
      /\ Bundles!Round4(11) = 12 /\ Bundles!Round4(13) = 16
  BY DEF Bundles!Round4
<1>2. Bundles!FseqMessage = 32
  BY <1>1 DEF Bundles!FseqMessage, Bundles!Message
<1>3. CASE profile = "2Dcur"
  BY <1>1, <1>2, <1>3 DEF Bundles!SetMessage, Bundles!Message, Bundles!Reserved
<1>4. CASE profile = "3Dcur"
  BY <1>1, <1>2, <1>4 DEF Bundles!SetMessage, Bundles!Message, Bundles!Reserved
<1>5. CASE profile = "2Dobj"
  BY <1>1, <1>2, <1>5 DEF Bundles!SetMessage, Bundles!Message, Bundles!Reserved
<1> QED
  BY <1>3, <1>4, <1>5

\* The size of a bundle with an alive list is a number of bytes.
LEMMA HeaderType == \A k \in Nat : Bundles!Header(k) \in Nat
<1>1. \A x \in Nat : Bundles!Round4(x) \in Nat
  BY DEF Bundles!Round4
<1> SUFFICES ASSUME NEW k \in Nat PROVE Bundles!Header(k) \in Nat
  OBVIOUS
<1>2. k + 3 \in Nat /\ 5 + 1 \in Nat /\ 4 * k \in Nat
  OBVIOUS
<1>3. Bundles!Round4(k + 3) \in Nat /\ Bundles!Round4(5 + 1) \in Nat
  BY <1>1, <1>2
<1> QED
  BY <1>2, <1>3 DEF Bundles!Header, Bundles!AliveMessage, Bundles!Message

LEMMA BundlesInit == Bundles!Init => Bundles!IndInv
  BY DEF Bundles!Init, Bundles!IndInv, Bundles!PacketsFit

LEMMA BundlesStep ==
  ASSUME Bundles!IndInv, Bundles!Next
  PROVE  Bundles!IndInv'
<1> DEFINE H == Bundles!Header(alive)
           S == Bundles!SetMessage
           F == Bundles!FseqMessage
<1>1. /\ profile \in {"2Dcur", "3Dcur", "2Dobj"} /\ capacity \in Nat /\ alive \in Nat /\ size \in Nat
      /\ size <= capacity
      /\ sending = "thrown" => profile = "3Dcur" \/ H + S + F > capacity
      /\ sending = "yes" => profile = "3Dcur" \/ H + S + F > capacity \/ size + F <= capacity
  BY DEF Bundles!IndInv, Bundles!PacketsFit
<1>2. H \in Nat /\ S \in Nat /\ F = 32 /\ (profile # "3Dcur" => S + 32 = Bundles!Reserved)
  BY <1>1, HeaderType, Reserves
<1>3. ASSUME NEW p \in {"2Dcur", "3Dcur", "2Dobj"}, NEW c \in Capacities, NEW k \in 0..MaxAlive,
             Bundles!Commit(p, c, k)
      PROVE  Bundles!IndInv'
  <2>1. /\ profile' = p /\ capacity' = c /\ alive' = k /\ size' = Bundles!Header(k)
        /\ sending' = "yes" /\ Bundles!Header(k) + F <= c
    BY <1>3 DEF Bundles!Commit
  <2>2. c \in Nat /\ k \in Nat /\ Bundles!Header(k) \in Nat
    BY SizesAssumption, HeaderType
  <2>3. size' <= capacity' /\ size' + F <= capacity'
    BY <1>2, <2>1, <2>2
  <2>4. F' = F
    BY DEF Bundles!FseqMessage
  <2> HIDE DEF F
  <2>5. size' + Bundles!FseqMessage' <= capacity'
    BY <2>3, <2>4 DEF F
  <2> QED
    BY <2>1, <2>2, <2>3, <2>5 DEF Bundles!IndInv, Bundles!PacketsFit
<1>4. ASSUME UNCHANGED <<profile, capacity, alive>>,
             size' \in Nat, size' <= capacity,
             sending' = "thrown" => profile = "3Dcur" \/ H + S + F > capacity,
             sending' = "yes" => profile = "3Dcur" \/ H + S + F > capacity \/ size' + F <= capacity
      PROVE  Bundles!IndInv'
  <2>1. H' = H /\ S' = S /\ F' = F
    BY <1>4 DEF Bundles!Header, Bundles!AliveMessage, Bundles!Message, Bundles!SetMessage,
                Bundles!FseqMessage
  <2>2. /\ size' <= capacity'
        /\ sending' = "thrown" => profile' = "3Dcur" \/ H' + S' + F' > capacity'
        /\ sending' = "yes" => profile' = "3Dcur" \/ H' + S' + F' > capacity' \/ size' + F' <= capacity'
    BY <1>4, <2>1
  <2> QED
    BY <1>1, <1>4, <2>2 DEF Bundles!IndInv, Bundles!PacketsFit
<1>5. ASSUME NEW b \in BOOLEAN, Bundles!Turn(b) PROVE Bundles!IndInv'
  <2> DEFINE short == capacity - size < Bundles!Reserved
             begin == IF short THEN H ELSE size
             end == IF b THEN begin + S ELSE begin
  <2>1. /\ sending = "yes" /\ UNCHANGED <<profile, capacity, alive>>
        /\ IF (short /\ size + F > capacity) \/ end > capacity
             THEN sending' = "thrown" /\ size' = size
             ELSE size' = end /\ sending' = sending
    BY <1>5 DEF Bundles!Turn
  <2>2. Bundles!Reserved \in Nat
    BY DEF Bundles!Reserved
  <2>3. begin \in Nat /\ end \in Nat
    BY <1>1, <1>2
  <2>4. profile # "3Dcur" /\ ~(H + S + F > capacity) =>
          ~(short /\ size + F > capacity) /\ end + F <= capacity
    <3> HIDE DEF H, S, F
    <3>1. CASE short
      BY <1>1, <1>2, <2>1, <2>2, <3>1
    <3>2. CASE ~short
      BY <1>1, <1>2, <2>1, <2>2, <3>2
    <3> QED
      BY <3>1, <3>2
  <2> HIDE DEF H, S, F, short, begin, end
  <2>5. CASE (short /\ size + F > capacity) \/ end > capacity
    <3>1. sending' = "thrown" /\ size' = size
      BY <2>1, <2>5
    <3>2. profile = "3Dcur" \/ H + S + F > capacity
      BY <1>1, <1>2, <2>3, <2>4, <2>5
    <3> QED
      BY <1>1, <1>4, <2>1, <3>1, <3>2
  <2>6. CASE ~((short /\ size + F > capacity) \/ end > capacity)
    <3>1. sending' = "yes" /\ size' = end
      BY <2>1, <2>6
    <3>2. end <= capacity
      BY <1>1, <2>3, <2>6
    <3> QED
      BY <1>1, <1>4, <2>1, <2>3, <2>4, <3>1, <3>2
  <2> QED
    BY <2>5, <2>6
<1>6. CASE Bundles!Finish
  <2>1. /\ sending = "yes" /\ UNCHANGED <<profile, capacity, alive, size>>
        /\ sending' = IF size + F > capacity THEN "thrown" ELSE "no"
    BY <1>6 DEF Bundles!Finish
  <2> HIDE DEF H, S, F
  <2>2. sending' = "thrown" => profile = "3Dcur" \/ H + S + F > capacity
    BY <1>1, <1>2, <2>1
  <2>3. sending' # "yes"
    BY <2>1
  <2> QED
    BY <1>1, <1>4, <2>1, <2>2, <2>3
<1> QED
  BY <1>3, <1>5, <1>6 DEF Bundles!Next

\* Whatever messages, bundles and arguments an OutboundPacketStream is given, it writes
\* inside its buffer and never lets type tags and arguments meet; and whatever a frame
\* of a TuioServer holds, the reserve it keeps is enough for the message that comes next,
\* except for cursors with three dimensions (OscOutboundPacketStream.cpp, TuioServer.cpp).
THEOREM BuffersSafe == Spec => []BuffersHold
<1> DEFINE I == (part = "osc" => Osc!IndInv) /\ (part = "bundles" => Bundles!IndInv)
<1>1. Init => I
  BY OscInit, BundlesInit DEF Init
<1>2. I /\ [Next]_all => I'
  <2> SUFFICES ASSUME I, [Next]_all PROVE I'
    OBVIOUS
  <2>1. ASSUME part = "osc" PROVE Osc!IndInv'
    <3>1. CASE Osc!Next
      BY <2>1, <3>1, OscStep
    <3>2. CASE UNCHANGED oscVars
      BY <2>1, <3>2 DEF oscVars, Osc!IndInv, Osc!Size
    <3> QED
      BY <2>1, <3>1, <3>2, PartSteps
  <2>2. ASSUME part = "bundles" PROVE Bundles!IndInv'
    <3>1. CASE Bundles!Next
      BY <2>2, <3>1, BundlesStep
    <3>2. CASE UNCHANGED sizeVars
      BY <2>2, <3>2 DEF sizeVars, Bundles!IndInv, Bundles!PacketsFit, Bundles!SetMessage
    <3> QED
      BY <2>2, <3>1, <3>2, PartSteps
  <2> QED
    BY <2>1, <2>2, PartSteps
<1>3. I => BuffersHold
  BY OscFits DEF BuffersHold, Bundles!IndInv
<1> QED
  BY <1>1, <1>2, <1>3, PTL DEF Spec, Steps
-----------------------------------------------------------------------------
(* The loop of the client's thread.                                        *)

\* The values of a function on a finite set are finitely many.
LEMMA ValuesFinite ==
  ASSUME NEW S, IsFiniteSet(S), NEW T, NEW f \in [S -> T], \A t \in T : \E s \in S : f[s] = t
  PROVE  IsFiniteSet(T)
<1>1. f \in Surjection(S, T)
  BY Fun_IsSurj
<1> QED
  BY <1>1, FS_Surjection

\* What std::sort leaves: a queue of the same entries, in the order of their times.
LEMMA SortedQueue ==
  ASSUME NEW T, NEW entries \in SUBSET [due : Nat, timer : T], IsFiniteSet(entries),
         NEW q \in Mux!Sorted(entries)
  PROVE  /\ q \in Seq([due : Nat, timer : T])
         /\ \A i, j \in 1..Len(q) : i < j => q[i].due <= q[j].due
<1> DEFINE R == [due : Nat, timer : T]
           c == Cardinality(entries)
<1>1. Mux!Cardinality(entries) = c
  BY DEF Mux!Cardinality, Cardinality, Mux!IsFiniteSet, IsFiniteSet
<1>2. c \in Nat
  BY FS_CardinalityType
<1>3. /\ q \in [1..c -> entries]
      /\ \A i, j \in DOMAIN q : i < j => q[i].due <= q[j].due
  BY <1>1 DEF Mux!Sorted
<1> HIDE DEF c
<1>4. q \in [1..c -> R]
  BY <1>3
<1> HIDE DEF R
<1>5. q \in Seq(R) /\ Len(q) = c
  BY <1>2, <1>4
<1> QED
  BY <1>3, <1>4, <1>5 DEF R

LEMMA MuxInit == Mux!Init => Mux!IndInv
<1> SUFFICES ASSUME Mux!Init PROVE Mux!IndInv
  OBVIOUS
<1>1. DOMAIN attached = {}
  BY DEF Mux!Init, Mux!NoTimers
<1>2. now = 0 /\ called = 0 /\ run = "idle"
  BY DEF Mux!Init
<1> QED
  BY <1>1, <1>2 DEF Mux!IndInv, Mux!QueueTypes, Mux!OrderInv, Mux!DeadlineInv

\* A step that leaves the queue alone, and does not enter select.
LEMMA QueueKept ==
  ASSUME Mux!IndInv, UNCHANGED <<attached, timerQueue>>, now' \in Nat, called' \in Nat,
         run # "idle" \/ run' = "idle",
         run' = "select" => run = "select" /\ deadline' = deadline,
         run' \in {"loop", "select", "interrupted", "sockets"} =>
           run \in {"loop", "select", "interrupted", "sockets"},
         run' \in {"timers", "resort"} =>
           run \in {"sockets"} \/ (run \in {"timers", "resort"} /\ called' = called),
         run' \in {"idle", "loop", "select", "interrupted", "sockets", "timers", "resort"}
  PROVE  Mux!IndInv'
<1>1. Mux!QueueTypes'
  BY DEF Mux!IndInv, Mux!QueueTypes
<1>2. Mux!DeadlineInv'
  BY DEF Mux!IndInv, Mux!DeadlineInv
<1>3. Mux!OrderInv'
  BY DEF Mux!IndInv, Mux!OrderInv
<1> QED
  BY <1>1, <1>2, <1>3 DEF Mux!IndInv

LEMMA MuxStep ==
  ASSUME Mux!IndInv, Mux!Next
  PROVE  Mux!IndInv'
<1>1. /\ DOMAIN attached \subseteq Timers /\ \A t \in DOMAIN attached : attached[t].delay \in Nat /\ attached[t].period \in Nat
      /\ now \in Nat /\ called \in Nat
      /\ run # "idle" => timerQueue \in Seq([due : Nat, timer : DOMAIN attached])
  BY TimersAssumption DEF Mux!IndInv, Mux!QueueTypes
<1>2. IsFiniteSet(DOMAIN attached)
  BY <1>1, TimersAssumption, FS_Subset
<1>3. CASE Mux!RunBegins
  <2> DEFINE E == {[due |-> now + attached[t].delay, timer |-> t] : t \in DOMAIN attached}
  <2>1. /\ timerQueue' \in Mux!Sorted(E) /\ run' = "loop"
        /\ UNCHANGED <<attached, now>> /\ called' = 0
    BY <1>3 DEF Mux!RunBegins, Mux!outside
  <2>2. IsFiniteSet(E)
    <3> DEFINE f == [t \in DOMAIN attached |-> [due |-> now + attached[t].delay, timer |-> t]]
    <3>1. f \in [DOMAIN attached -> E] /\ \A e \in E : \E t \in DOMAIN attached : f[t] = e
      OBVIOUS
    <3> HIDE DEF f, E
    <3> QED
      BY <1>2, <3>1, ValuesFinite
  <2>3. E \in SUBSET [due : Nat, timer : DOMAIN attached]
    BY <1>1
  <2> HIDE DEF E
  <2>4. /\ timerQueue' \in Seq([due : Nat, timer : DOMAIN attached])
        /\ \A i, j \in 1..Len(timerQueue') : i < j => timerQueue'[i].due <= timerQueue'[j].due
    BY <2>1, <2>2, <2>3, SortedQueue
  <2> QED
    BY <1>1, <2>1, <2>4 DEF Mux!IndInv, Mux!QueueTypes, Mux!OrderInv, Mux!DeadlineInv
<1>4. CASE Mux!BeforeSelect
  <2>1. /\ run = "loop" /\ run' \in {"idle", "select"}
        /\ deadline' = IF timerQueue = <<>> THEN 0 ELSE Head(timerQueue).due
        /\ UNCHANGED <<attached, timerQueue, called, now>>
    BY <1>4 DEF Mux!BeforeSelect, Mux!outside
  <2> QED
    BY <2>1 DEF Mux!IndInv, Mux!QueueTypes, Mux!OrderInv, Mux!DeadlineInv
<1>5. CASE Mux!AfterSelect \/ Mux!AfterInterrupt
  <2>1. /\ run \in {"select", "interrupted"} /\ run' \in {"idle", "sockets"}
        /\ UNCHANGED <<attached, timerQueue, called, now>>
    BY <1>5 DEF Mux!AfterSelect, Mux!AfterInterrupt, Mux!outside
  <2> QED
    BY <1>1, <2>1, QueueKept
<1>6. CASE Mux!Interrupted
  <2>1. run = "select" /\ run' = "interrupted" /\ UNCHANGED <<attached, timerQueue, called, now>>
    BY <1>6 DEF Mux!Interrupted, Mux!outside
  <2> QED
    BY <1>1, <2>1, QueueKept
<1>7. ASSUME NEW s \in Sockets, NEW b \in BOOLEAN, Mux!ProcessPacket(s, b) PROVE Mux!IndInv'
  <2>1. run = "sockets" /\ run' = "sockets" /\ UNCHANGED <<attached, timerQueue, called, now>>
    BY <1>7 DEF Mux!ProcessPacket
  <2> QED
    BY <1>1, <2>1, QueueKept
<1>8. CASE Mux!SocketsDone
  <2>1. run = "sockets" /\ run' = "timers" /\ called' = 0 /\ UNCHANGED <<attached, timerQueue, now>>
    BY <1>8 DEF Mux!SocketsDone, Mux!outside
  <2> QED
    BY <1>1, <2>1, QueueKept
<1>9. ASSUME NEW b \in BOOLEAN, Mux!TimerExpired(b) PROVE Mux!IndInv'
  <2>1. /\ run = "timers" /\ Mux!TimerDue /\ UNCHANGED <<attached, now>>
        /\ \/ run' = "resort" /\ UNCHANGED <<called, timerQueue>>
           \/ /\ called' = called + 1 /\ run' = run
              /\ timerQueue' = [timerQueue EXCEPT ![called + 1].due =
                                  @ + attached[timerQueue[called + 1].timer].period]
    BY <1>9 DEF Mux!TimerExpired, Mux!outside
  <2>2. CASE run' = "resort" /\ UNCHANGED <<called, timerQueue>>
    BY <1>1, <2>1, <2>2, QueueKept
  <2>3. CASE /\ called' = called + 1 /\ run' = run
             /\ timerQueue' = [timerQueue EXCEPT ![called + 1].due =
                                 @ + attached[timerQueue[called + 1].timer].period]
    <3> DEFINE R == [due : Nat, timer : DOMAIN attached]
               e == timerQueue[called + 1]
    <3>1. called + 1 \in 1..Len(timerQueue) /\ timerQueue \in Seq(R)
      BY <1>1, <2>1 DEF Mux!TimerDue
    <3>2. e \in R
      <4> HIDE DEF R
      <4> QED
        BY <3>1, ElementOfSeq
    <3>3. [e EXCEPT !.due = @ + attached[e.timer].period] \in R
      <4>1. e.due \in Nat /\ attached[e.timer].period \in Nat
        BY <1>1, <3>2
      <4>2. e.due + attached[e.timer].period \in Nat
        BY <4>1
      <4> HIDE DEF e
      <4> QED
        BY <3>2, <4>2
    <3>4. timerQueue' = [timerQueue EXCEPT ![called + 1] = [e EXCEPT !.due = @ + attached[e.timer].period]]
      BY <2>3
    <3> HIDE DEF R, e
    <3>5. timerQueue' \in Seq(R)
      BY <3>1, <3>3, <3>4
    <3>6. called' \in Nat /\ called' # 0
      BY <1>1, <2>3
    <3>7. Mux!QueueTypes'
      BY <1>1, <2>1, <3>5, <3>6 DEF R, Mux!QueueTypes, Mux!IndInv
    <3> QED
      BY <2>1, <2>3, <3>6, <3>7 DEF Mux!IndInv, Mux!OrderInv, Mux!DeadlineInv
  <2> QED
    BY <2>1, <2>2, <2>3
<1>10. CASE Mux!TimersDone
  <2>1. run = "timers" /\ run' = "resort" /\ UNCHANGED <<attached, timerQueue, called, now>>
    BY <1>10 DEF Mux!TimersDone, Mux!outside
  <2> QED
    BY <1>1, <2>1, QueueKept
<1>11. CASE Mux!Resort
  <2>1. /\ run = "resort" /\ run' = "loop" /\ UNCHANGED <<attached, called, now>>
        /\ timerQueue' \in IF called > 0 THEN Mux!Sorted(Mux!Range(timerQueue)) ELSE {timerQueue}
    BY <1>11 DEF Mux!Resort, Mux!Resorted, Mux!outside
  <2>2. /\ timerQueue' \in Seq([due : Nat, timer : DOMAIN attached])
        /\ \A i, j \in 1..Len(timerQueue') : i < j => timerQueue'[i].due <= timerQueue'[j].due
    <3>1. CASE called > 0
      <4> DEFINE E == Mux!Range(timerQueue)
      <4>1. timerQueue \in Seq([due : Nat, timer : DOMAIN attached])
        BY <1>1, <2>1
      <4>2. E = {timerQueue[i] : i \in 1..Len(timerQueue)}
        BY <4>1 DEF Mux!Range
      <4>3. IsFiniteSet(1..Len(timerQueue))
        BY <4>1, FS_Interval
      <4>4. IsFiniteSet(E)
        <5>1. timerQueue \in [1..Len(timerQueue) -> E]
          BY <4>1, <4>2
        <5>2. \A e \in E : \E i \in 1..Len(timerQueue) : timerQueue[i] = e
          BY <4>2
        <5> HIDE DEF E
        <5> QED
          BY <4>3, <5>1, <5>2, ValuesFinite
      <4>5. E \in SUBSET [due : Nat, timer : DOMAIN attached]
        <5> DEFINE R == [due : Nat, timer : DOMAIN attached]
        <5>1. timerQueue \in Seq(R)
          BY <4>1
        <5> HIDE DEF R
        <5>2. \A i \in 1..Len(timerQueue) : timerQueue[i] \in R
          BY <5>1, ElementOfSeq
        <5>3. E \in SUBSET R
          BY <4>2, <5>2
        <5> QED
          BY <5>3 DEF R
      <4> HIDE DEF E
      <4>6. timerQueue' \in Mux!Sorted(E)
        BY <2>1, <3>1 DEF E
      <4> QED
        BY <4>4, <4>5, <4>6, SortedQueue
    <3>2. CASE ~(called > 0)
      <4>1. called = 0 /\ timerQueue' = timerQueue
        BY <1>1, <2>1, <3>2
      <4> QED
        BY <1>1, <2>1, <4>1 DEF Mux!IndInv, Mux!OrderInv
    <3> QED
      BY <3>1, <3>2
  <2> QED
    BY <1>1, <2>1, <2>2 DEF Mux!IndInv, Mux!QueueTypes, Mux!OrderInv, Mux!DeadlineInv
<1>12. ASSUME NEW t \in Timers, Mux!Detach(t) \/ \E delay, ms \in Periods : Mux!Attach(t, delay, ms)
       PROVE  Mux!IndInv'
  <2>1. run = "idle" /\ run' = "idle" /\ UNCHANGED <<called, now>>
    BY <1>12 DEF Mux!Detach, Mux!Attach
  <2>2. /\ DOMAIN attached' \subseteq Timers
        /\ \A u \in DOMAIN attached' : attached'[u] \in [delay : Periods, period : Periods]
    BY <1>12 DEF Mux!Detach, Mux!Attach, Mux!IndInv, Mux!QueueTypes
  <2> QED
    BY <1>1, <2>1, <2>2 DEF Mux!IndInv, Mux!QueueTypes, Mux!OrderInv, Mux!DeadlineInv
<1>13. ASSUME UNCHANGED <<attached, timerQueue, called, run, deadline>>, now' \in Nat
       PROVE  Mux!IndInv'
  BY <1>1, <1>13 DEF Mux!IndInv, Mux!QueueTypes, Mux!OrderInv, Mux!DeadlineInv
<1>14. ASSUME NEW s \in Sockets, Mux!PacketArrives(s) PROVE Mux!IndInv'
  BY <1>1, <1>13, <1>14 DEF Mux!PacketArrives
<1>15. CASE Mux!Tick
  BY <1>1, <1>13, <1>15 DEF Mux!Tick, Mux!outside
<1>16. CASE Mux!Break \/ Mux!AsynchronousBreak \/ Mux!WriteBreakPipe
  BY <1>1, <1>13, <1>16 DEF Mux!Break, Mux!AsynchronousBreak, Mux!WriteBreakPipe
<1> QED
  BY <1>3, <1>4, <1>5, <1>6, <1>7, <1>8, <1>9, <1>10, <1>11, <1>12, <1>14, <1>15, <1>16
  DEF Mux!Next, Mux!RunStep

\* However many timers share a time, and whichever of them were called in the last turn
\* or left over by a break, select never sleeps longer than until the timer that is due
\* first (UdpSocket.cpp:403, 469).
THEOREM MuxSafe == Spec => []NotOverslept
<1> DEFINE I == part = "mux" => Mux!IndInv
<1>1. Init => I
  BY MuxInit DEF Init
<1>2. I /\ [Next]_all => I'
  <2> SUFFICES ASSUME I, [Next]_all, part' = "mux" PROVE Mux!IndInv'
    OBVIOUS
  <2>1. part = "mux"
    BY PartSteps
  <2>2. CASE Mux!Next
    BY <2>1, <2>2, MuxStep
  <2>3. CASE UNCHANGED muxVars
    BY <2>1, <2>3 DEF muxVars, Mux!IndInv, Mux!QueueTypes, Mux!OrderInv, Mux!DeadlineInv
  <2> QED
    BY <2>1, <2>2, <2>3, PartSteps
<1>3. I => NotOverslept
  <2> SUFFICES ASSUME Mux!IndInv, run = "select", NEW k \in DOMAIN timerQueue
               PROVE  deadline <= timerQueue[k].due
    BY DEF NotOverslept, Mux!NotOverslept
  <2> DEFINE R == [due : Nat, timer : DOMAIN attached]
  <2>1. timerQueue \in Seq(R)
    BY DEF Mux!IndInv, Mux!QueueTypes
  <2>2. k \in 1..Len(timerQueue) /\ 1 \in 1..Len(timerQueue) /\ Len(timerQueue) \in Nat
    BY <2>1
  <2>3. timerQueue[1].due \in Nat
    <3>1. timerQueue[1] \in R
      <4> HIDE DEF R
      <4> QED
        BY <2>1, <2>2, ElementOfSeq
    <3> QED
      BY <3>1
  <2>4. deadline = timerQueue[1].due
    <3>1. timerQueue # <<>> /\ Head(timerQueue) = timerQueue[1]
      BY <2>1, <2>2
    <3> QED
      BY <3>1 DEF Mux!IndInv, Mux!DeadlineInv
  <2>5. 1 < k => timerQueue[1].due <= timerQueue[k].due
    BY <2>2 DEF Mux!IndInv, Mux!OrderInv
  <2> HIDE DEF R
  <2>6. k = 1 \/ 1 < k
    BY <2>2
  <2> QED
    BY <2>3, <2>4, <2>5, <2>6
<1> QED
  BY <1>1, <1>2, <1>3, PTL DEF Spec, Steps
-----------------------------------------------------------------------------
(* The numbers of the cursors.                                             *)

\* A set of numbers that is not empty has a least one.
LEMMA Least ==
  ASSUME NEW S, S \subseteq Nat, S # {}
  PROVE  \E i \in S : \A j \in S : i <= j
<1>1. PICK x \in S : \A y \in S : ~(<<y, x>> \in OpToRel(<, Nat))
  BY NatLessThanWellFounded, WFMin
<1>2. ASSUME NEW y \in S PROVE x <= y
  <2>1. x \in Nat /\ y \in Nat
    OBVIOUS
  <2>2. ~(y < x)
    BY <1>1, <2>1 DEF OpToRel
  <2> QED
    BY <2>1, <2>2
<1> QED
  BY <1>2

\* What the loop over the cursors makes of maxCursorID
LEMMA Greatest ==
  ASSUME NEW m \in Int, NEW S, S \subseteq 0..m, S # {}
  PROVE  Cursors!Max(S) \in S /\ \A y \in S : y <= Cursors!Max(S)
<1> DEFINE T == {m - x : x \in S}
<1>1. PICK i \in T : \A j \in T : i <= j
  <2>1. T \subseteq Nat
    <3>1. ASSUME NEW x \in S PROVE m - x \in Nat
      OBVIOUS
    <3> QED
      BY <3>1
  <2>2. T # {}
    OBVIOUS
  <2> HIDE DEF T
  <2> QED
    BY <2>1, <2>2, Least
<1>2. PICK x \in S : i = m - x
  BY <1>1
<1>3. \A y \in S : x >= y
  <2> SUFFICES ASSUME NEW y \in S PROVE x >= y
    OBVIOUS
  <2>1. m - y \in T
    OBVIOUS
  <2>2. m - x <= m - y
    BY <1>1, <1>2, <2>1
  <2>3. x \in Int /\ y \in Int
    OBVIOUS
  <2> QED
    BY <2>2, <2>3
<1>4. Cursors!Max(S) \in S /\ \A y \in S : Cursors!Max(S) >= y
  BY <1>3 DEF Cursors!Max
<1>5. \A y \in S : y \in Int
  OBVIOUS
<1> QED
  BY <1>4, <1>5

\* What a list is after the removal of its k-th member
LEMMA Removed ==
  ASSUME NEW S, NEW s \in Seq(S), NEW k \in 1..Len(s)
  PROVE  /\ Cursors!RemoveAt(s, k) \in Seq(S) /\ Len(Cursors!RemoveAt(s, k)) = Len(s) - 1
         /\ \A i \in 1..Len(s) - 1 : Cursors!RemoveAt(s, k)[i] = IF i < k THEN s[i] ELSE s[i + 1]
<1> DEFINE t == Cursors!RemoveAt(s, k)
           a == SubSeq(s, 1, k - 1)
           b == SubSeq(s, k + 1, Len(s))
<1>1. /\ a \in Seq(S) /\ Len(a) = k - 1 /\ \A i \in 1..(k - 1) : a[i] = s[i]
      /\ b \in Seq(S) /\ Len(b) = Len(s) - k /\ \A i \in 1..(Len(s) - k) : b[i] = s[k + i]
  OBVIOUS
<1>2. t = a \o b
  BY DEF Cursors!RemoveAt
<1> HIDE DEF t, a, b
<1>3. /\ t \in Seq(S) /\ Len(t) = Len(a) + Len(b)
      /\ \A i \in 1..Len(t) : t[i] = IF i <= Len(a) THEN a[i] ELSE b[i - Len(a)]
  <2>1. a \in Seq(S) /\ b \in Seq(S)
    BY <1>1
  <2> QED
    BY <1>2, <2>1, ConcatProperties
<1>4. Len(t) = Len(s) - 1
  BY <1>1, <1>3
<1>5. ASSUME NEW i \in 1..(Len(s) - 1) PROVE t[i] = IF i < k THEN s[i] ELSE s[i + 1]
  <2>1. CASE i < k
    <3>1. i \in 1..(k - 1) /\ i <= k - 1 /\ i \in 1..Len(t)
      BY <1>4, <2>1
    <3>2. t[i] = a[i] /\ a[i] = s[i]
      BY <1>1, <1>3, <3>1
    <3> QED
      BY <2>1, <3>2
  <2>2. CASE ~(i < k)
    <3>1. i - (k - 1) \in 1..(Len(s) - k) /\ k + (i - (k - 1)) = i + 1 /\ ~(i <= k - 1)
      BY <2>2
    <3>2. t[i] = b[i - (k - 1)]
      BY <1>1, <1>3, <1>4, <3>1
    <3> QED
      BY <1>1, <2>2, <3>1, <3>2
  <2> QED
    BY <2>1, <2>2
<1> QED
  BY <1>3, <1>4, <1>5 DEF t

\* A cursor leaves the list: numbers that are no longer needed go with the greatest one.
LEMMA CursorRemoved ==
  ASSUME Cursors!CursorTypes, Cursors!NumberInv, NEW k \in 1..Len(cursorList),
         Cursors!Without(k)
  PROVE  /\ cursorList' = Cursors!RemoveAt(cursorList, k)
         /\ maxCursorID' \in Int /\ Cursors!NumberInv'
         /\ Len(cursorList') = Len(cursorList) - 1
         /\ \A i \in 1..Len(cursorList') : \E j \in 1..Len(cursorList) :
              cursorList'[i] = cursorList[j]
<1> DEFINE R == [id : Int, speed : Nat, time : Int, age : Nat,
                 state : {"ADDED", "ACCELERATING", "DECELERATING", "STOPPED"}]
           id == cursorList[k].id
           n == Len(cursorList)
<1>1. cursorList \in Seq(R)
  BY DEF Cursors!CursorTypes
<1> HIDE DEF R
<1>2. n \in Nat /\ k \in 1..n /\ DOMAIN cursorList = 1..n
  BY <1>1
<1>3. /\ cursorList' = Cursors!RemoveAt(cursorList, k)
      /\ cursorList' \in Seq(R) /\ Len(cursorList') = n - 1 /\ DOMAIN cursorList' = 1..(n - 1)
      /\ \A i \in 1..(n - 1) : cursorList'[i] = IF i < k THEN cursorList[i] ELSE cursorList[i + 1]
  <2>1. cursorList' = Cursors!RemoveAt(cursorList, k)
    BY DEF Cursors!Without
  <2>2. /\ cursorList' \in Seq(R) /\ Len(cursorList') = n - 1
        /\ \A i \in 1..(n - 1) : cursorList'[i] = IF i < k THEN cursorList[i] ELSE cursorList[i + 1]
    BY <1>1, <2>1, Removed
  <2>3. DOMAIN cursorList' = 1..(n - 1)
    BY <2>2
  <2> QED
    BY <2>1, <2>2, <2>3
<1> HIDE DEF n
<1>4. \A i \in 1..(n - 1) : \E j \in 1..n : j # k /\ cursorList'[i] = cursorList[j]
  <2> SUFFICES ASSUME NEW i \in 1..(n - 1)
               PROVE  \E j \in 1..n : j # k /\ cursorList'[i] = cursorList[j]
    OBVIOUS
  <2>1. CASE i < k
    BY <1>2, <1>3, <2>1
  <2>2. CASE ~(i < k)
    <3>1. i + 1 \in 1..n /\ i + 1 # k
      BY <1>2, <2>2
    <3> QED
      BY <1>3, <2>2, <3>1
  <2> QED
    BY <2>1, <2>2
<1>5. \A j \in 1..n : j # k => \E i \in 1..(n - 1) : cursorList'[i] = cursorList[j]
  <2> SUFFICES ASSUME NEW j \in 1..n, j # k
               PROVE  \E i \in 1..(n - 1) : cursorList'[i] = cursorList[j]
    OBVIOUS
  <2>1. CASE j < k
    BY <1>2, <1>3, <2>1
  <2>2. CASE j > k
    <3>1. j - 1 \in 1..(n - 1) /\ ~(j - 1 < k) /\ (j - 1) + 1 = j
      BY <1>2, <2>2
    <3> QED
      BY <1>3, <3>1
  <2> QED
    BY <1>2, <2>1, <2>2
<1>6. /\ \A i, j \in 1..n : i # j => cursorList[i].id # cursorList[j].id
      /\ \A i \in 1..n : cursorList[i].id \notin freeCursorList
      /\ Cursors!IdsOf(cursorList) \cup freeCursorList = 0..maxCursorID
      /\ maxCursorID = -1 \/ maxCursorID \in Cursors!IdsOf(cursorList)
      /\ maxCursorID \in Int
  BY DEF Cursors!NumberInv, Cursors!CursorTypes, n
<1> DEFINE ids == Cursors!IdsOf(cursorList)
           rest == Cursors!IdsOf(cursorList')
<1>7. ids = {cursorList[i].id : i \in 1..n} /\ id \in ids /\ id \in 0..maxCursorID
  BY <1>2, <1>6 DEF Cursors!IdsOf
<1>8. rest = {cursorList'[i].id : i \in 1..(n - 1)}
  BY <1>3 DEF Cursors!IdsOf
<1>9. rest = ids \ {id}
  <2>1. ASSUME NEW x \in rest PROVE x \in ids \ {id}
    <3>1. PICK i \in 1..(n - 1) : x = cursorList'[i].id
      BY <1>8
    <3>2. PICK j \in 1..n : j # k /\ cursorList'[i] = cursorList[j]
      BY <1>4
    <3> QED
      BY <1>2, <1>6, <1>7, <3>1, <3>2
  <2>2. ASSUME NEW x \in ids \ {id} PROVE x \in rest
    <3>1. PICK j \in 1..n : x = cursorList[j].id
      BY <1>7
    <3>2. PICK i \in 1..(n - 1) : cursorList'[i] = cursorList[j]
      BY <1>5, <3>1
    <3> QED
      BY <1>8, <3>1, <3>2
  <2> QED
    BY <2>1, <2>2
<1>10. \A i, j \in 1..(n - 1) : i # j => cursorList'[i].id # cursorList'[j].id
  <2> SUFFICES ASSUME NEW i \in 1..(n - 1), NEW j \in 1..(n - 1), i # j
               PROVE  cursorList'[i].id # cursorList'[j].id
    OBVIOUS
  <2> DEFINE a == IF i < k THEN i ELSE i + 1
             b == IF j < k THEN j ELSE j + 1
  <2>1. a \in 1..n /\ b \in 1..n /\ a # b
    BY <1>2
  <2>2. cursorList'[i] = cursorList[a] /\ cursorList'[j] = cursorList[b]
    BY <1>3
  <2> QED
    BY <1>6, <2>1, <2>2
<1> DEFINE m == IF cursorList' = <<>> THEN -1 ELSE Cursors!Max(rest)
<1>11. IF id = maxCursorID
         THEN maxCursorID' = m /\ freeCursorList' = {x \in freeCursorList : x <= m}
         ELSE /\ freeCursorList' = freeCursorList \cup (IF id < maxCursorID THEN {id} ELSE {})
              /\ maxCursorID' = maxCursorID
  BY <1>3 DEF Cursors!Without, Cursors!StillFree
<1> HIDE DEF id, ids, rest, m
<1>12. /\ rest \cup freeCursorList' = 0..maxCursorID' /\ rest \cap freeCursorList' = {}
       /\ maxCursorID' \in Int /\ (maxCursorID' = -1 \/ maxCursorID' \in rest)
  <2>1. ids \cap freeCursorList = {}
    BY <1>6, <1>7
  <2>2. ids \cup freeCursorList = 0..maxCursorID /\ maxCursorID \in Int
    BY <1>6 DEF ids
  <2>3. CASE id # maxCursorID
    <3>1. freeCursorList' = freeCursorList \cup {id} /\ maxCursorID' = maxCursorID
      BY <1>7, <1>11, <2>2, <2>3
    <3>2. maxCursorID = -1 \/ maxCursorID \in rest
      BY <1>6, <1>9, <2>3 DEF ids
    <3> QED
      BY <1>7, <1>9, <2>1, <2>2, <3>1, <3>2
  <2>4. CASE id = maxCursorID /\ rest = {}
    <3>1. cursorList' = <<>>
      <4>1. ~(1 \in 1..(n - 1))
        BY <1>8, <2>4
      <4> QED
        BY <1>2, <1>3, <4>1
    <3>2. maxCursorID' = -1 /\ freeCursorList' = {x \in freeCursorList : x <= -1}
      BY <1>11, <2>4, <3>1 DEF m
    <3>3. freeCursorList' = {}
      BY <2>2, <3>2
    <3> QED
      BY <2>4, <3>2, <3>3
  <2>5. CASE id = maxCursorID /\ rest # {}
    <3>1. cursorList' # <<>>
      BY <1>3, <1>8, <2>5
    <3>2. rest \subseteq 0..maxCursorID
      BY <1>9, <2>2
    <3>3. m \in rest /\ \A y \in rest : y <= m
      BY <2>2, <2>5, <3>1, <3>2, Greatest DEF m
    <3>4. m \in Int /\ 0 <= m /\ m < maxCursorID
      BY <1>9, <2>2, <2>5, <3>2, <3>3
    <3>5. maxCursorID' = m /\ freeCursorList' = {x \in freeCursorList : x <= m}
      BY <1>11, <2>5
    <3>6. \A x \in 0..m : x \in 0..maxCursorID /\ x # maxCursorID
      BY <2>2, <3>4
    <3>7. ASSUME NEW x \in 0..m PROVE x \in rest \cup freeCursorList'
      BY <1>9, <2>2, <2>5, <3>5, <3>6
    <3>8. ASSUME NEW x \in rest \cup freeCursorList' PROVE x \in 0..m
      <4>1. x \in 0..maxCursorID /\ x <= m
        BY <2>2, <3>2, <3>3, <3>5
      <4> QED
        BY <3>4, <4>1
    <3> QED
      BY <1>9, <2>1, <3>3, <3>4, <3>5, <3>7, <3>8
  <2> QED
    BY <2>3, <2>4, <2>5
<1>13. \A i \in 1..(n - 1) : cursorList'[i].id \notin freeCursorList'
  BY <1>8, <1>12
<1>14. Cursors!NumberInv'
  BY <1>3, <1>10, <1>12, <1>13 DEF Cursors!NumberInv, rest
<1> QED
  BY <1>2, <1>3, <1>4, <1>12, <1>14 DEF n

LEMMA CursorsInit == Cursors!Init => Cursors!IndInv
<1> SUFFICES ASSUME Cursors!Init PROVE Cursors!IndInv
  OBVIOUS
<1>1. /\ cursorList = <<>> /\ freeCursorList = {} /\ maxCursorID = -1 /\ cursorFrame = -1
      /\ step = "commit"
  BY DEF Cursors!Init
<1>2. Cursors!IdsOf(cursorList) = {}
  BY <1>1 DEF Cursors!IdsOf
<1>3. Len(cursorList) = 0
  BY <1>1
<1>4. Cursors!CursorTypes
  BY <1>1 DEF Cursors!CursorTypes
<1>5. Cursors!NumberInv
  BY <1>1, <1>2, <1>3 DEF Cursors!NumberInv
<1>6. Cursors!AgeInv
  BY <1>3 DEF Cursors!AgeInv
<1> QED
  BY <1>4, <1>5, <1>6 DEF Cursors!IndInv

\* How many numbers are in use
LEMMA NumbersUsed ==
  ASSUME Cursors!CursorTypes, Cursors!NumberInv
  PROVE  /\ IsFiniteSet(Cursors!IdsOf(cursorList))
         /\ Cardinality(Cursors!IdsOf(cursorList)) = Len(cursorList)
<1> DEFINE n == Len(cursorList)
           ids == Cursors!IdsOf(cursorList)
           f == [i \in 1..n |-> cursorList[i].id]
<1>1. n \in Nat /\ DOMAIN cursorList = 1..n
  BY DEF Cursors!CursorTypes
<1>2. ids = {cursorList[i].id : i \in 1..n}
  BY <1>1 DEF Cursors!IdsOf
<1>3. \A i, j \in 1..n : i # j => cursorList[i].id # cursorList[j].id
  BY DEF Cursors!NumberInv
<1> HIDE DEF n, ids
<1>4. f \in Bijection(1..n, ids)
  <2>1. f \in [1..n -> ids]
    BY <1>2
  <2>2. f \in Injection(1..n, ids)
    BY <1>3, <2>1, Fun_IsInj
  <2>3. f \in Surjection(1..n, ids)
    BY <1>2, <2>1, Fun_IsSurj
  <2> QED
    BY <2>2, <2>3 DEF Bijection
<1>5. IsFiniteSet(1..n) /\ Cardinality(1..n) = n
  BY <1>1, FS_Interval
<1>6. IsFiniteSet(ids) /\ Cardinality(ids) = Cardinality(1..n)
  <2>1. ExistsBijection(1..n, ids)
    BY <1>4 DEF ExistsBijection
  <2> QED
    BY <1>5, <2>1, FS_Bijection
<1> QED
  BY <1>5, <1>6 DEF n, ids

\* A number that is not taken from the free list is the next one: the length of the list
\* tells whether one is free.
LEMMA NextNumber ==
  ASSUME Cursors!CursorTypes, Cursors!NumberInv, ~Cursors!ReusesNumber(Len(cursorList))
  PROVE  Len(cursorList) = maxCursorID + 1 /\ freeCursorList = {}
<1> DEFINE n == Len(cursorList)
           ids == Cursors!IdsOf(cursorList)
<1>1. /\ n \in Nat /\ maxCursorID \in Int /\ maxCursorID >= -1
      /\ ids \cup freeCursorList = 0..maxCursorID /\ ids \cap freeCursorList = {}
  <2>1. n \in Nat /\ maxCursorID \in Int /\ DOMAIN cursorList = 1..n
    BY DEF Cursors!CursorTypes
  <2>2. ids \cup freeCursorList = 0..maxCursorID
    BY DEF Cursors!NumberInv
  <2>3. ids \cap freeCursorList = {}
    BY <2>1 DEF Cursors!NumberInv, Cursors!IdsOf
  <2>4. maxCursorID = -1 \/ maxCursorID \in 0..maxCursorID
    BY <2>2 DEF Cursors!NumberInv
  <2> QED
    BY <2>1, <2>2, <2>3, <2>4
<1>2. IsFiniteSet(ids) /\ Cardinality(ids) = n
  BY NumbersUsed
<1>3. n > maxCursorID \/ freeCursorList = {}
  BY <1>1 DEF Cursors!ReusesNumber
<1> HIDE DEF n, ids
<1>4. IsFiniteSet(0..maxCursorID) /\ Cardinality(0..maxCursorID) = maxCursorID + 1
  BY <1>1, FS_Interval
<1>5. ids \subseteq 0..maxCursorID
  BY <1>1
<1>6. n <= maxCursorID + 1 /\ (n = maxCursorID + 1 => ids = 0..maxCursorID)
  BY <1>2, <1>4, <1>5, FS_Subset
<1>7. CASE freeCursorList = {}
  BY <1>1, <1>2, <1>4, <1>7 DEF n
<1>8. CASE n > maxCursorID
  <2>1. n = maxCursorID + 1
    BY <1>1, <1>6, <1>8
  <2> QED
    BY <1>1, <1>6, <2>1 DEF n
<1> QED
  BY <1>3, <1>7, <1>8

\* The numbers do not change with what else is known of the cursors.
LEMMA NumbersKept ==
  ASSUME Cursors!CursorTypes, Cursors!NumberInv, UNCHANGED <<freeCursorList, maxCursorID>>,
         DOMAIN cursorList' = DOMAIN cursorList, Len(cursorList') = Len(cursorList),
         \A i \in 1..Len(cursorList) : cursorList'[i].id = cursorList[i].id
  PROVE  Cursors!NumberInv'
<1>1. DOMAIN cursorList = 1..Len(cursorList)
  BY DEF Cursors!CursorTypes
<1>2. Cursors!IdsOf(cursorList') = Cursors!IdsOf(cursorList)
  BY <1>1 DEF Cursors!IdsOf
<1> QED
  BY <1>2 DEF Cursors!NumberInv

\* A new cursor takes a free number, or the next one.
LEMMA CursorAdded ==
  ASSUME Cursors!CursorTypes, Cursors!NumberInv, NEW id, Cursors!AddTuioCursor(id)
  PROVE  Cursors!NumberInv' /\ maxCursorID' \in Int /\ id \in Nat
<1> DEFINE R == [id : Int, speed : Nat, time : Int, age : Nat,
                 state : {"ADDED", "ACCELERATING", "DECELERATING", "STOPPED"}]
           n == Len(cursorList)
           c == Cursors!Cursor(id, cursorFrame)
<1>1. cursorList \in Seq(R) /\ maxCursorID \in Int
  BY DEF Cursors!CursorTypes
<1> HIDE DEF R
<1>2. n \in Nat /\ DOMAIN cursorList = 1..n
  BY <1>1
<1>3. cursorList' = Append(cursorList, c)
  BY DEF Cursors!AddTuioCursor
<1>4. /\ Len(cursorList') = n + 1 /\ DOMAIN cursorList' = 1..(n + 1) /\ cursorList'[n + 1] = c
      /\ \A i \in 1..n : cursorList'[i] = cursorList[i]
  BY <1>1, <1>2, <1>3
<1>5. c.id = id
  BY DEF Cursors!Cursor
<1>6. /\ \A i, j \in 1..n : i # j => cursorList[i].id # cursorList[j].id
      /\ \A i \in 1..n : cursorList[i].id \notin freeCursorList
      /\ Cursors!IdsOf(cursorList) \cup freeCursorList = 0..maxCursorID
      /\ maxCursorID = -1 \/ maxCursorID \in Cursors!IdsOf(cursorList)
  BY DEF Cursors!NumberInv
<1>7. IF Cursors!ReusesNumber(n)
        THEN /\ id \in freeCursorList /\ freeCursorList' = freeCursorList \ {id}
             /\ maxCursorID' = maxCursorID
        ELSE id = n /\ maxCursorID' = n /\ freeCursorList' = freeCursorList
  BY DEF Cursors!AddTuioCursor
<1>8. ~Cursors!ReusesNumber(n) => n = maxCursorID + 1 /\ freeCursorList = {}
  BY NextNumber
<1> DEFINE ids == {cursorList[i].id : i \in 1..n}
<1>9. Cursors!IdsOf(cursorList) = ids
  BY <1>2 DEF Cursors!IdsOf
<1> HIDE DEF n, c
<1>10. Cursors!IdsOf(cursorList') = ids \cup {id}
  <2>1. Cursors!IdsOf(cursorList') = {cursorList'[i].id : i \in 1..(n + 1)}
    BY <1>4 DEF Cursors!IdsOf
  <2>2. ASSUME NEW x \in ids \cup {id} PROVE x \in {cursorList'[i].id : i \in 1..(n + 1)}
    <3>1. CASE x = id
      <4>1. n + 1 \in 1..(n + 1) /\ cursorList'[n + 1].id = id
        BY <1>2, <1>4, <1>5
      <4> QED
        BY <3>1, <4>1
    <3>2. CASE x \in ids
      <4>1. PICK i \in 1..n : x = cursorList[i].id
        BY <3>2
      <4>2. i \in 1..(n + 1) /\ x = cursorList'[i].id
        BY <1>2, <1>4, <4>1
      <4> QED
        BY <4>2
    <3> QED
      BY <2>2, <3>1, <3>2
  <2>3. ASSUME NEW i \in 1..(n + 1) PROVE cursorList'[i].id \in ids \cup {id}
    <3>1. i = n + 1 \/ i \in 1..n
      BY <1>2
    <3> QED
      BY <1>4, <1>5, <3>1
  <2> QED
    BY <2>1, <2>2, <2>3
<1>11. id \notin ids
  <2>1. CASE Cursors!ReusesNumber(n)
    BY <1>6, <1>7, <2>1
  <2>2. CASE ~Cursors!ReusesNumber(n)
    <3>1. id = maxCursorID + 1 /\ ids \subseteq 0..maxCursorID
      BY <1>6, <1>7, <1>8, <1>9, <2>2
    <3>2. id \notin 0..maxCursorID
      BY <1>1, <3>1
    <3> HIDE DEF ids
    <3> QED
      BY <3>1, <3>2
  <2> QED
    BY <2>1, <2>2
<1>12. \A i, j \in 1..(n + 1) : i # j => cursorList'[i].id # cursorList'[j].id
  <2> SUFFICES ASSUME NEW i \in 1..(n + 1), NEW j \in 1..(n + 1), i # j
               PROVE  cursorList'[i].id # cursorList'[j].id
    OBVIOUS
  <2>1. CASE i \in 1..n /\ j \in 1..n
    BY <1>4, <1>6, <2>1
  <2>2. CASE i = n + 1 /\ j \in 1..n
    BY <1>4, <1>5, <1>11, <2>2
  <2>3. CASE j = n + 1 /\ i \in 1..n
    BY <1>4, <1>5, <1>11, <2>3
  <2> QED
    BY <1>2, <2>1, <2>2, <2>3
<1>13. \A i \in 1..(n + 1) : cursorList'[i].id \notin freeCursorList'
  <2> SUFFICES ASSUME NEW i \in 1..(n + 1) PROVE cursorList'[i].id \notin freeCursorList'
    OBVIOUS
  <2>1. CASE i \in 1..n
    BY <1>4, <1>6, <1>7, <2>1
  <2>2. CASE i = n + 1
    BY <1>4, <1>5, <1>7, <1>8, <2>2
  <2> QED
    BY <1>2, <2>1, <2>2
<1>14. /\ ids \cup {id} \cup freeCursorList' = 0..maxCursorID' /\ maxCursorID' \in Int
       /\ maxCursorID' \in ids \cup {id} /\ id \in Nat
  <2>1. CASE Cursors!ReusesNumber(n)
    <3>1. maxCursorID # -1
      BY <1>2, <2>1 DEF Cursors!ReusesNumber, n
    <3> QED
      BY <1>1, <1>6, <1>7, <1>9, <2>1, <3>1
  <2>2. CASE ~Cursors!ReusesNumber(n)
    <3>1. id = maxCursorID + 1 /\ maxCursorID' = maxCursorID + 1 /\ freeCursorList' = {}
      BY <1>7, <1>8, <2>2
    <3>2. ids = 0..maxCursorID /\ maxCursorID >= -1
      BY <1>2, <1>6, <1>8, <1>9, <2>2
    <3>3. 0..(maxCursorID + 1) = (0..maxCursorID) \cup {maxCursorID + 1}
      BY <1>1, <3>2
    <3> QED
      BY <1>1, <3>1, <3>2, <3>3
  <2> QED
    BY <2>1, <2>2
<1> QED
  BY <1>4, <1>10, <1>12, <1>13, <1>14 DEF Cursors!NumberInv

\* An update that does not move slows a cursor down, or stops one that was slow.
LEMMA CursorStopped ==
  ASSUME NEW c \in [id : Int, speed : Nat, time : Int, age : Nat,
                    state : {"ADDED", "ACCELERATING", "DECELERATING", "STOPPED"}],
         cursorFrame \in Int
  PROVE  /\ Cursors!Moved(c, 0) \in [id : Int, speed : Nat, time : Int, age : Nat,
              state : {"ADDED", "ACCELERATING", "DECELERATING", "STOPPED"}]
         /\ Cursors!Moved(c, 0).id = c.id /\ Cursors!Moved(c, 0).time = cursorFrame
         /\ Cursors!Moved(c, 0).age = c.age /\ Cursors!Moved(c, 0).speed = 0
         /\ c.speed = 0 => Cursors!Moved(c, 0).state = "STOPPED"
<1> DEFINE new == CASE 0 > c.speed -> "ACCELERATING"
                    [] 0 < c.speed -> "DECELERATING"
                    [] OTHER -> "STOPPED"
<1>1. c.speed \in Nat
  OBVIOUS
<1>2. Cursors!Moved(c, 0) = [c EXCEPT !.speed = 0, !.time = cursorFrame, !.state = new]
  BY DEF Cursors!Moved
<1>3. new \in {"DECELERATING", "STOPPED"} /\ (c.speed = 0 => new = "STOPPED")
  BY <1>1
<1> HIDE DEF new
<1> DEFINE a == [c EXCEPT !.speed = 0]
           b == [a EXCEPT !.time = cursorFrame]
           d == [b EXCEPT !.state = new]
           R == [id : Int, speed : Nat, time : Int, age : Nat,
                 state : {"ADDED", "ACCELERATING", "DECELERATING", "STOPPED"}]
<1>4. a \in R /\ a.id = c.id /\ a.age = c.age /\ a.speed = 0
  OBVIOUS
<1> HIDE DEF a
<1>5. b \in R /\ b.id = c.id /\ b.age = c.age /\ b.speed = 0 /\ b.time = cursorFrame
  BY <1>4
<1> HIDE DEF b
<1>6. /\ d \in R /\ d.id = c.id /\ d.age = c.age /\ d.speed = 0 /\ d.time = cursorFrame
      /\ d.state = new
  BY <1>3, <1>5
<1>7. d = Cursors!Moved(c, 0)
  BY <1>2 DEF a, b
<1> HIDE DEF d
<1> QED
  BY <1>3, <1>6, <1>7

LEMMA CursorsStep ==
  ASSUME Cursors!IndInv, Cursors!Next
  PROVE  Cursors!IndInv'
<1> DEFINE R == [id : Int, speed : Nat, time : Int, age : Nat,
                 state : {"ADDED", "ACCELERATING", "DECELERATING", "STOPPED"}]
           n == Len(cursorList)
<1>1. /\ cursorList \in Seq(R) /\ maxCursorID \in Int /\ cursorFrame \in Int
      /\ step \in {"commit", "touch", "stopped"}
  BY DEF Cursors!IndInv, Cursors!CursorTypes
<1>2. Cursors!CursorTypes /\ Cursors!NumberInv /\ Cursors!AgeInv
  BY DEF Cursors!IndInv
<1>3. /\ n \in Nat /\ DOMAIN cursorList = 1..n /\ \A k \in 1..n : cursorList[k] \in R
      /\ cursorFrame \in Int
  <2> HIDE DEF R
  <2> QED
    BY <1>1
<1>4. /\ cursorList' \in Seq(R) /\ maxCursorID' \in Int /\ cursorFrame' \in Int
      /\ step' \in {"commit", "touch", "stopped"} /\ Cursors!NumberInv' /\ Cursors!AgeInv'
      => Cursors!IndInv'
  BY DEF Cursors!IndInv, Cursors!CursorTypes
<1>5. ASSUME NEW k \in 1..n, Cursors!Without(k), cursorFrame' = cursorFrame, step' = step
      PROVE  /\ cursorList' \in Seq(R) /\ maxCursorID' \in Int
             /\ Cursors!NumberInv' /\ Cursors!AgeInv'
  <2>1. /\ cursorList' = Cursors!RemoveAt(cursorList, k)
        /\ maxCursorID' \in Int /\ Cursors!NumberInv'
        /\ \A i \in 1..Len(cursorList') : \E j \in 1..n : cursorList'[i] = cursorList[j]
    BY <1>2, <1>5, CursorRemoved
  <2>2. cursorList' \in Seq(R)
    BY <1>1, <2>1, Removed
  <2>3. Cursors!AgeInv'
    BY <1>2, <1>5, <2>1, ZenonT(30) DEF Cursors!AgeInv, Cursors!Untouched
  <2> QED
    BY <2>1, <2>2, <2>3
<1>6. CASE Cursors!InitFrame
  <2>1. /\ step = "commit" /\ step' = "touch" /\ cursorFrame' = cursorFrame + 1
        /\ UNCHANGED <<freeCursorList, maxCursorID>>
        /\ cursorList' = [k \in 1..n |-> [cursorList[k] EXCEPT !.age = @ + 1]]
    BY <1>3, <1>6 DEF Cursors!InitFrame
  <2> HIDE DEF n
  <2>2. \A k \in 1..n : [cursorList[k] EXCEPT !.age = @ + 1] \in R
    BY <1>3
  <2>3. cursorList' \in Seq(R) /\ Len(cursorList') = n /\ DOMAIN cursorList' = 1..n
    <3> HIDE DEF R
    <3> QED
      BY <1>3, <2>1, <2>2
  <2>4. \A k \in 1..n : /\ cursorList'[k].id = cursorList[k].id
                        /\ cursorList'[k].time = cursorList[k].time
                        /\ cursorList'[k].speed = cursorList[k].speed
                        /\ cursorList'[k].state = cursorList[k].state
                        /\ cursorList'[k].age = cursorList[k].age + 1
    BY <1>3, <2>1
  <2>5. Cursors!NumberInv'
    BY <1>2, <1>3, <2>1, <2>3, <2>4, NumbersKept DEF n
  <2>6. Cursors!AgeInv'
    <3> SUFFICES ASSUME NEW k \in 1..n
                 PROVE  /\ cursorList'[k].time <= cursorFrame'
                        /\ Cursors!Untouched(cursorList[k])'
                        /\ Cursors!Slower(cursorList[k], 1)'
      BY <2>1, <2>3 DEF Cursors!AgeInv
    <3>1. cursorList[k].time <= cursorFrame /\ Cursors!Slower(cursorList[k], 0)
      BY <1>2, <2>1 DEF Cursors!AgeInv, n
    <3>2. cursorList[k].time \in Int /\ cursorList[k].age \in Nat
      BY <1>3
    <3>3. cursorList'[k].time <= cursorFrame' /\ cursorList'[k].time # cursorFrame'
      BY <1>3, <2>1, <2>4, <3>1, <3>2
    <3> QED
      BY <2>4, <3>1, <3>2, <3>3 DEF Cursors!Untouched, Cursors!Slower
  <2> QED
    BY <1>1, <1>4, <2>1, <2>3, <2>5, <2>6
<1>7. ASSUME NEW id, Cursors!AddTuioCursor(id)
      PROVE  Cursors!IndInv'
  <2> DEFINE c == Cursors!Cursor(id, cursorFrame)
  <2>1. /\ step = "touch" /\ step' = "touch" /\ cursorFrame' = cursorFrame
        /\ cursorList' = Append(cursorList, c)
    BY <1>7 DEF Cursors!AddTuioCursor
  <2>2. Cursors!NumberInv' /\ maxCursorID' \in Int /\ id \in Nat
    BY <1>2, <1>7, CursorAdded
  <2>3. c \in R /\ c.time = cursorFrame /\ c.age = 0
    BY <1>1, <2>2 DEF Cursors!Cursor
  <2> HIDE DEF R, c
  <2>4. /\ cursorList' \in Seq(R) /\ Len(cursorList') = n + 1
        /\ cursorList'[n + 1] = c /\ \A k \in 1..n : cursorList'[k] = cursorList[k]
    BY <1>1, <2>1, <2>3
  <2> HIDE DEF n
  <2>5. Cursors!AgeInv'
    <3> SUFFICES ASSUME NEW k \in 1..(n + 1)
                 PROVE  /\ cursorList'[k].time <= cursorFrame
                        /\ IF Cursors!Untouched(cursorList[k])'
                             THEN Cursors!Slower(cursorList[k], 1)'
                             ELSE cursorList'[k].age = 0
      BY <2>1, <2>4 DEF Cursors!AgeInv
    <3>1. CASE k \in 1..n
      BY <1>2, <2>1, <2>4, <3>1 DEF Cursors!AgeInv, Cursors!Untouched, Cursors!Slower, n
    <3>2. CASE k = n + 1
      BY <1>1, <2>1, <2>3, <2>4, <3>2 DEF Cursors!Untouched
    <3> QED
      BY <1>3, <3>1, <3>2
  <2> QED
    BY <1>1, <1>4, <2>1, <2>2, <2>4, <2>5
<1>8. ASSUME NEW k \in 1..n, NEW v \in Speeds, Cursors!UpdateTuioCursor(k, v)
      PROVE  Cursors!IndInv'
  <2> DEFINE c == [Cursors!Moved(cursorList[k], v) EXCEPT !.age = 0]
  <2>1. /\ step = "touch" /\ step' = "touch" /\ cursorFrame' = cursorFrame
        /\ UNCHANGED <<freeCursorList, maxCursorID>>
        /\ cursorList' = [cursorList EXCEPT ![k] = c]
    BY <1>8 DEF Cursors!UpdateTuioCursor
  <2>2. v \in Nat /\ cursorList[k] \in R
    BY <1>3, CursorsAssumption
  <2>3. c \in R /\ c.time = cursorFrame /\ c.age = 0 /\ c.id = cursorList[k].id
    BY <1>1, <2>2 DEF Cursors!Moved
  <2> HIDE DEF R, c
  <2>4. /\ cursorList' \in Seq(R) /\ Len(cursorList') = n /\ DOMAIN cursorList' = 1..n
        /\ cursorList'[k] = c /\ \A j \in 1..n : j # k => cursorList'[j] = cursorList[j]
    BY <1>1, <1>3, <2>1, <2>3
  <2>5. Cursors!NumberInv'
    BY <1>2, <1>3, <2>1, <2>3, <2>4, NumbersKept
  <2> HIDE DEF n
  <2>6. Cursors!AgeInv'
    <3> SUFFICES ASSUME NEW j \in 1..n
                 PROVE  /\ cursorList'[j].time <= cursorFrame
                        /\ IF Cursors!Untouched(cursorList[j])'
                             THEN Cursors!Slower(cursorList[j], 1)'
                             ELSE cursorList'[j].age = 0
      BY <2>1, <2>4 DEF Cursors!AgeInv
    <3>1. CASE j # k
      BY <1>2, <2>1, <2>4, <3>1 DEF Cursors!AgeInv, Cursors!Untouched, Cursors!Slower, n
    <3>2. CASE j = k
      BY <1>1, <2>1, <2>3, <2>4, <3>2 DEF Cursors!Untouched
    <3> QED
      BY <3>1, <3>2
  <2> QED
    BY <1>1, <1>4, <2>1, <2>4, <2>5, <2>6
<1>9. CASE Cursors!StopUntouchedMovingCursors
  <2> DEFINE d(k) == IF Cursors!ToStop(cursorList[k]) THEN Cursors!Moved(cursorList[k], 0)
                                                      ELSE cursorList[k]
  <2>1. /\ step = "touch" /\ step' = "stopped" /\ cursorFrame' = cursorFrame
        /\ UNCHANGED <<freeCursorList, maxCursorID>>
        /\ cursorList' = [k \in 1..n |-> d(k)]
    BY <1>3, <1>9 DEF Cursors!StopUntouchedMovingCursors
  <2>2. ASSUME NEW k \in 1..n
        PROVE  /\ d(k) \in R /\ d(k).id = cursorList[k].id /\ d(k).time <= cursorFrame
               /\ IF d(k).time # cursorFrame
                    THEN d(k).age <= 3 /\ ~Cursors!IsMoving(d(k)) ELSE Cursors!Slower(d(k), 0)
    <3>1. /\ cursorList[k].time <= cursorFrame
          /\ IF Cursors!Untouched(cursorList[k]) THEN Cursors!Slower(cursorList[k], 1)
                                                 ELSE cursorList[k].age = 0
      BY <1>2, <2>1 DEF Cursors!AgeInv
    <3>2. cursorList[k] \in R
      BY <1>3
    <3>3. CASE Cursors!ToStop(cursorList[k])
      <4>1. /\ d(k) = Cursors!Moved(cursorList[k], 0)
            /\ Cursors!Slower(cursorList[k], 1) /\ Cursors!IsMoving(cursorList[k])
        BY <3>1, <3>3 DEF Cursors!ToStop
      <4>2. /\ Cursors!Moved(cursorList[k], 0) \in R
            /\ Cursors!Moved(cursorList[k], 0).id = cursorList[k].id
            /\ Cursors!Moved(cursorList[k], 0).time = cursorFrame
            /\ Cursors!Moved(cursorList[k], 0).age = cursorList[k].age
            /\ Cursors!Moved(cursorList[k], 0).speed = 0
            /\ cursorList[k].speed = 0 => Cursors!Moved(cursorList[k], 0).state = "STOPPED"
        <5> HIDE DEF R
        <5> QED
          BY <1>3, <3>2, CursorStopped DEF R
      <4>3. cursorList[k].age \in Nat /\ cursorList[k].age # 3
        BY <3>2, <4>1 DEF Cursors!Slower, Cursors!IsMoving
      <4>4. Cursors!Slower(Cursors!Moved(cursorList[k], 0), 0)
        BY <4>1, <4>2, <4>3 DEF Cursors!Slower
      <4> QED
        BY <1>1, <4>1, <4>2, <4>4, SMTT(30)
    <3>4. CASE ~Cursors!ToStop(cursorList[k])
      <4>1. d(k) = cursorList[k]
        BY <3>4
      <4>2. cursorList[k].age \in Nat
        BY <3>2
      <4> QED
        BY <3>1, <3>2, <3>4, <4>1, <4>2
        DEF Cursors!ToStop, Cursors!Slower, Cursors!IsMoving, Cursors!Untouched
    <3> QED
      BY <3>3, <3>4
  <2> HIDE DEF R, d, n
  <2>3. /\ cursorList' \in Seq(R) /\ Len(cursorList') = n /\ DOMAIN cursorList' = 1..n
        /\ \A k \in 1..n : cursorList'[k] = d(k)
    BY <1>3, <2>1, <2>2
  <2>4. Cursors!NumberInv'
    BY <1>2, <1>3, <2>1, <2>2, <2>3, NumbersKept DEF n
  <2>5. Cursors!AgeInv'
    BY <2>1, <2>2, <2>3 DEF Cursors!AgeInv, Cursors!Untouched
  <2> QED
    BY <1>1, <1>4, <2>1, <2>3, <2>4, <2>5
<1>10. CASE Cursors!RemoveUntouchedStoppedCursors
  <2>1. step = "stopped" /\ cursorFrame' = cursorFrame
    BY <1>10 DEF Cursors!RemoveUntouchedStoppedCursors
  <2>2. ASSUME NEW k \in 1..n, Cursors!Without(k), step' = step PROVE Cursors!IndInv'
    BY <1>1, <1>4, <1>5, <2>1, <2>2
  <2>3. ASSUME \A k \in 1..n : ~Cursors!Gone(cursorList[k]), step' = "commit",
               UNCHANGED <<cursorList, freeCursorList, maxCursorID>>
        PROVE  Cursors!IndInv'
    <3>1. Cursors!NumberInv'
      BY <1>2, <2>3 DEF Cursors!NumberInv
    <3>2. Cursors!AgeInv'
      BY <1>2, <2>1, <2>3 DEF Cursors!AgeInv, Cursors!Gone, Cursors!Untouched, Cursors!Slower
    <3> QED
      BY <1>1, <1>4, <2>1, <2>3, <3>1, <3>2
  <2> QED
    BY <1>3, <1>10, <2>2, <2>3 DEF Cursors!RemoveUntouchedStoppedCursors
<1>11. ASSUME NEW k \in 1..n, Cursors!RemoveTuioCursor(k) PROVE Cursors!IndInv'
  <2>1. Cursors!Without(k) /\ cursorFrame' = cursorFrame /\ step' = step
    BY <1>11 DEF Cursors!RemoveTuioCursor
  <2> QED
    BY <1>1, <1>4, <1>5, <2>1
<1> QED
  BY <1>3, <1>4, <1>6, <1>7, <1>8, <1>9, <1>10, <1>11 DEF Cursors!Next

\* The numbers are dense, and no cursor is older than three frames.
LEMMA CursorsDense == Cursors!IndInv => Cursors!NumbersAreDense
<1> SUFFICES ASSUME Cursors!IndInv PROVE Cursors!NumbersAreDense
  OBVIOUS
<1>1. Cursors!CursorTypes /\ Cursors!NumberInv /\ Cursors!AgeInv
  BY DEF Cursors!IndInv
<1> DEFINE n == Len(cursorList)
           R == [id : Int, speed : Nat, time : Int, age : Nat,
                 state : {"ADDED", "ACCELERATING", "DECELERATING", "STOPPED"}]
<1>2. /\ n \in Nat /\ DOMAIN cursorList = 1..n /\ \A k \in 1..n : cursorList[k].age \in Nat
      /\ step \in {"commit", "touch", "stopped"}
  <2>1. cursorList \in Seq(R) /\ step \in {"commit", "touch", "stopped"}
    BY <1>1 DEF Cursors!CursorTypes
  <2>2. \A c \in R : c.age \in Nat
    OBVIOUS
  <2> HIDE DEF R
  <2> QED
    BY <2>1, <2>2
<1>3. Cursors!Cardinality(Cursors!IdsOf(cursorList)) = n
  <2>1. Cursors!Cardinality(Cursors!IdsOf(cursorList)) = Cardinality(Cursors!IdsOf(cursorList))
    BY DEF Cursors!Cardinality, Cardinality, Cursors!IsFiniteSet, IsFiniteSet
  <2> QED
    BY <1>1, <2>1, NumbersUsed
<1> HIDE DEF n
<1>4. Cursors!IdsOf(cursorList) \cap freeCursorList = {}
  BY <1>1, <1>2 DEF Cursors!NumberInv, Cursors!IdsOf, n
<1>5. ASSUME NEW k \in 1..n
      PROVE  cursorList[k].age < (IF step = "commit" THEN 3 ELSE 4)
  BY <1>1, <1>2 DEF Cursors!AgeInv, Cursors!Slower, n
<1> QED
  BY <1>1, <1>2, <1>3, <1>4, <1>5 DEF Cursors!NumbersAreDense, Cursors!NumberInv, n

-----------------------------------------------------------------------------
(* Server and client.                                                      *)

\* Into how many packets members go: the place of each is one of them.
LEMMA PartOf ==
  ASSUME NEW d \in Nat \ {0}, NEW n \in Nat, NEW b \in Nat, b < n
  PROVE  /\ (n + d - 1) \div d \in Nat \ {0}
         /\ b \div d + 1 \in 1..((n + d - 1) \div d)
<1> DEFINE q == b \div d
           c == (n + d - 1) \div d
<1>1. q \in Nat /\ q * d <= b /\ b < q * d + d
  OBVIOUS
<1>2. c \in Nat /\ n + d - 1 < c * d + d
  <2>1. n + d - 1 \in Nat
    OBVIOUS
  <2> QED
    BY <2>1
<1> HIDE DEF q, c
<1>3. q < c
  <2> SUFFICES ASSUME c <= q PROVE FALSE
    BY <1>1, <1>2
  <2>1. c * d <= q * d
    BY <1>1, <1>2
  <2>2. c * d \in Nat /\ q * d \in Nat
    BY <1>1, <1>2
  <2>3. n - 1 < c * d
    BY <1>2, <2>2
  <2> QED
    BY <1>1, <2>1, <2>2, <2>3
<1>4. c \in Nat \ {0} /\ q + 1 \in 1..c
  BY <1>1, <1>2, <1>3
<1> QED
  BY <1>4 DEF q, c

\* A packet that says how the lists of the server are, with the sessions at some positions
Faithful(m, lists, at) ==
  /\ m.alive = lists[m.profile] /\ DOMAIN m.sets \subseteq m.alive
  /\ \A s \in DOMAIN m.sets : m.sets[s] = at[s]

\* Every member is in one of the packets, and there is one.
LEMMA PacketsFaithful ==
  ASSUME Session!ServerInv, NEW p \in Session!Profiles, NEW members \in SUBSET list[p],
         NEW fseq \in Int
  PROVE  /\ Session!Packets(p, members, fseq)
              \in Seq([profile : Session!Profiles, alive : SUBSET Session!Sessions, fseq : Int,
                       sets : Session!Views])
         /\ Len(Session!Packets(p, members, fseq)) > 0
         /\ \A k \in 1..Len(Session!Packets(p, members, fseq)) :
              /\ Session!Packets(p, members, fseq)[k].profile = p
              /\ Faithful(Session!Packets(p, members, fseq)[k], list, pos)
         /\ \A s \in members : \E k \in 1..Len(Session!Packets(p, members, fseq)) :
              Session!Right(Session!Packets(p, members, fseq)[k].sets, s)
<1> DEFINE P == Session!Packets(p, members, fseq)
           R == [profile : Session!Profiles, alive : SUBSET Session!Sessions, fseq : Int,
                 sets : Session!Views]
           n == Session!Cardinality(members)
           count == IF n = 0 THEN 1 ELSE (n + PerPacket - 1) \div PerPacket
           before(s) == Session!Cardinality({t \in members : t < s})
           box(k) == {s \in members : before(s) \div PerPacket = k - 1}
           packet(k) == [profile |-> p, alive |-> list[p], fseq |-> fseq,
                         sets |-> [s \in box(k) |-> pos[s]]]
<1>1. P = [k \in 1..count |-> packet(k)]
  BY DEF Session!Packets
<1>2. /\ list[p] \subseteq Session!Sessions /\ pos \in [Session!Sessions -> 0..(Positions - 1)]
      /\ members \subseteq Session!Sessions
  BY DEF Session!ServerInv
<1>3. PerPacket \in Nat \ {0} /\ MaxSessions \in Nat
  BY SessionsAssumption
<1>4. ASSUME NEW T \in SUBSET members
      PROVE  /\ Session!Cardinality(T) \in Nat /\ (T # members => Session!Cardinality(T) < n)
  <2>1. \A S : Session!Cardinality(S) = Cardinality(S)
    BY DEF Session!Cardinality, Cardinality, Session!IsFiniteSet, IsFiniteSet
  <2>2. IsFiniteSet(members)
    <3>1. 0 \in Int /\ MaxSessions - 1 \in Int
      BY <1>3
    <3>2. IsFiniteSet(0..(MaxSessions - 1))
      BY <3>1, FS_Interval
    <3> QED
      BY <1>2, <3>2, FS_Subset DEF Session!Sessions
  <2>3. IsFiniteSet(T) /\ Cardinality(T) <= Cardinality(members)
        /\ (T # members => Cardinality(T) # Cardinality(members))
    BY <2>2, FS_Subset
  <2>4. Cardinality(T) \in Nat /\ Cardinality(members) \in Nat
    BY <2>2, <2>3, FS_CardinalityType
  <2> QED
    BY <2>1, <2>3, <2>4
<1>5. n \in Nat
  BY <1>4
<1>6. \A s \in members : before(s) \in Nat /\ before(s) < n
  <2> SUFFICES ASSUME NEW s \in members PROVE before(s) \in Nat /\ before(s) < n
    OBVIOUS
  <2> DEFINE T == {t \in members : t < s}
  <2>1. s \in Int
    BY <1>2 DEF Session!Sessions
  <2>2. T \in SUBSET members /\ s \notin T
    BY <2>1
  <2> HIDE DEF T
  <2>3. T # members
    BY <2>2
  <2>4. Session!Cardinality(T) \in Nat /\ Session!Cardinality(T) < n
    BY <1>4, <2>2, <2>3
  <2> QED
    BY <2>4 DEF T
<1> HIDE DEF P, n, before
<1>7. \A s \in members : before(s) \div PerPacket + 1 \in 1..count
  <2> SUFFICES ASSUME NEW s \in members PROVE before(s) \div PerPacket + 1 \in 1..count
    OBVIOUS
  <2>1. before(s) \in Nat /\ before(s) < n
    BY <1>6
  <2>2. n # 0
    BY <1>5, <2>1
  <2>3. before(s) \div PerPacket + 1 \in 1..((n + PerPacket - 1) \div PerPacket)
    BY <1>3, <1>5, <2>1, PartOf
  <2> QED
    BY <2>2, <2>3
<1>8. count \in Nat \ {0}
  <2>1. CASE n = 0
    BY <2>1
  <2>2. CASE n # 0
    <3>1. 0 \in Nat /\ 0 < n
      BY <1>5, <2>2
    <3>2. (n + PerPacket - 1) \div PerPacket \in Nat \ {0}
      BY <1>3, <1>5, <3>1, PartOf
    <3> QED
      BY <2>2, <3>2
  <2> QED
    BY <2>1, <2>2
<1>9. \A k \in 1..count : box(k) \subseteq members
  OBVIOUS
<1>10. \A s \in members : \E k \in 1..count : s \in box(k)
  <2> SUFFICES ASSUME NEW s \in members PROVE \E k \in 1..count : s \in box(k)
    OBVIOUS
  <2> DEFINE q == before(s) \div PerPacket
  <2>1. q + 1 \in 1..count /\ q = (q + 1) - 1
    <3>1. q \in Int
      BY <1>3, <1>6
    <3> QED
      BY <1>7, <3>1
  <2> QED
    BY <2>1
<1> HIDE DEF count, box
<1>11. \A k \in 1..count : packet(k) \in R
  <2> SUFFICES ASSUME NEW k \in 1..count PROVE packet(k) \in R
    OBVIOUS
  <2>1. box(k) \in SUBSET Session!Sessions
    BY <1>2, <1>9
  <2>2. [s \in box(k) |-> pos[s]] \in [box(k) -> 0..(Positions - 1)]
    BY <1>2, <2>1
  <2>3. [s \in box(k) |-> pos[s]] \in Session!Views
    BY <2>1, <2>2 DEF Session!Views
  <2> QED
    BY <1>2, <2>3
<1>12. \A k \in 1..count :
         /\ packet(k).profile = p /\ Faithful(packet(k), list, pos)
         /\ \A s \in box(k) : Session!Right(packet(k).sets, s)
  BY <1>9 DEF Faithful, Session!Right
<1> HIDE DEF packet, R
<1>13. P \in Seq(R) /\ Len(P) = count /\ \A k \in 1..count : P[k] = packet(k)
  BY <1>1, <1>8, <1>11
<1>14. Len(P) > 0
  BY <1>8, <1>13
<1>15. \A s \in members : \E k \in 1..Len(P) : Session!Right(P[k].sets, s)
  BY <1>10, <1>12, <1>13
<1> QED
  BY <1>12, <1>13, <1>14, <1>15 DEF P, R

\* Packets that say how the lists are do no harm behind those under way, and bring the
\* client what they have.
LEMMA PacketsSent ==
  ASSUME NEW R, net \in Seq(R), NEW new \in Seq(R), net' = net \o new, known' = known,
         NEW p, NEW s, s \in list'[p] => pos'[s] = pos[s],
         \A j \in 1..Len(new) : new[j].profile = p => Faithful(new[j], list', pos')
  PROVE  /\ s \in list'[p]
              /\ (Session!WillKnow(p, s)
                  \/ \E k \in 1..Len(new) : /\ new[k].profile = p
                                            /\ s \in DOMAIN new[k].sets)
            => Session!WillKnow(p, s)'
         /\ s \notin list'[p]
              /\ (Session!WillForget(p, s) \/ \E k \in 1..Len(new) : new[k].profile = p)
            => Session!WillForget(p, s)'
<1> DEFINE l == Len(net)
           n == Len(new)
<1>1. /\ l \in Nat /\ n \in Nat /\ Len(net') = l + n
      /\ \A j \in 1..l : net'[j] = net[j]
      /\ \A j \in 1..n : net'[l + j] = new[j]
  OBVIOUS
<1>2. \A j \in (l + 1)..(l + n) : \E i \in 1..n : net'[j] = new[i]
  <2> SUFFICES ASSUME NEW j \in (l + 1)..(l + n) PROVE \E i \in 1..n : net'[j] = new[i]
    OBVIOUS
  <2> HIDE DEF l, n
  <2>1. j - l \in 1..n /\ l + (j - l) = j
    BY <1>1
  <2> QED
    BY <1>1, <2>1
<1> HIDE DEF l, n
<1>3. ASSUME s \in list'[p], NEW j \in (l + 1)..(l + n), net'[j].profile = p
      PROVE  Session!Keeps(net[j], s)'
  <2>1. PICK i \in 1..n : net'[j] = new[i]
    BY <1>2
  <2>2. Faithful(new[i], list', pos') /\ new[i].profile = p
    BY <1>3, <2>1 DEF n
  <2> QED
    BY <1>3, <2>1, <2>2 DEF Faithful, Session!Keeps
<1>4. ASSUME s \notin list'[p], NEW j \in (l + 1)..(l + n), net'[j].profile = p
      PROVE  s \notin DOMAIN net'[j].sets /\ s \notin net'[j].alive
  <2>1. PICK i \in 1..n : net'[j] = new[i]
    BY <1>2
  <2>2. Faithful(new[i], list', pos') /\ new[i].profile = p
    BY <1>4, <2>1 DEF n
  <2> QED
    BY <1>4, <2>1, <2>2 DEF Faithful
<1>5. ASSUME s \in list'[p], Session!WillKnow(p, s) PROVE Session!WillKnow(p, s)'
  <2>1. PICK k \in 0..l :
          /\ IF k = 0 THEN Session!Right(known[p], s)
                      ELSE net[k].profile = p /\ Session!Right(net[k].sets, s)
          /\ \A j \in (k + 1)..l : net[j].profile = p => Session!Keeps(net[j], s)
    BY <1>5 DEF Session!WillKnow, l
  <2>2. pos'[s] = pos[s]
    BY <1>5
  <2>3. k \in 0..(l + n) /\ (k # 0 => k \in 1..l)
    BY <1>1
  <2>4. IF k = 0 THEN Session!Right(known[p], s)'
                 ELSE net'[k].profile = p /\ Session!Right(net[k].sets, s)'
    BY <1>1, <2>1, <2>2, <2>3 DEF Session!Right
  <2>5. ASSUME NEW j \in (k + 1)..(l + n), net'[j].profile = p PROVE Session!Keeps(net[j], s)'
    <3>1. CASE j \in (k + 1)..l
      <4>1. j \in 1..l
        BY <1>1, <3>1
      <4> QED
        BY <1>1, <2>1, <2>2, <2>5, <3>1, <4>1 DEF Session!Keeps
    <3>2. CASE j \in (l + 1)..(l + n)
      BY <1>3, <1>5, <2>5, <3>2
    <3> QED
      BY <1>1, <3>1, <3>2
  <2> QED
    BY <1>1, <2>3, <2>4, <2>5 DEF Session!WillKnow
<1>6. ASSUME s \in list'[p], NEW i \in 1..n, new[i].profile = p, s \in DOMAIN new[i].sets
      PROVE  Session!WillKnow(p, s)'
  <2>1. PICK k : k = l + i
    OBVIOUS
  <2>2. k \in 0..(l + n) /\ k # 0
    BY <1>1, <2>1
  <2>3. Faithful(new[i], list', pos') /\ net'[k] = new[i]
    BY <1>1, <1>6, <2>1 DEF n
  <2>4. net'[k].profile = p /\ Session!Right(net[k].sets, s)'
    BY <1>6, <2>3 DEF Faithful, Session!Right
  <2>5. \A j \in (k + 1)..(l + n) : net'[j].profile = p => Session!Keeps(net[j], s)'
    <3>1. \A j \in (k + 1)..(l + n) : j \in (l + 1)..(l + n)
      BY <1>1, <2>1
    <3> QED
      BY <1>3, <1>6, <3>1
  <2> QED
    BY <1>1, <2>2, <2>4, <2>5 DEF Session!WillKnow
<1>7. ASSUME s \notin list'[p], Session!WillForget(p, s) PROVE Session!WillForget(p, s)'
  <2>1. PICK k \in 0..l :
          /\ IF k = 0 THEN s \notin DOMAIN known[p]
                      ELSE net[k].profile = p /\ Session!Removes(net[k], s)
          /\ \A j \in (k + 1)..l : net[j].profile = p => s \notin DOMAIN net[j].sets
    BY <1>7 DEF Session!WillForget, l
  <2>2. k \in 0..(l + n) /\ (k # 0 => k \in 1..l)
    BY <1>1
  <2>3. IF k = 0 THEN s \notin DOMAIN known'[p]
                 ELSE net'[k].profile = p /\ Session!Removes(net'[k], s)
    BY <1>1, <2>1, <2>2
  <2>4. ASSUME NEW j \in (k + 1)..(l + n), net'[j].profile = p PROVE s \notin DOMAIN net'[j].sets
    <3>1. CASE j \in (k + 1)..l
      <4>1. j \in 1..l
        BY <1>1, <3>1
      <4> QED
        BY <1>1, <2>1, <2>4, <3>1, <4>1
    <3>2. CASE j \in (l + 1)..(l + n)
      BY <1>4, <1>7, <2>4, <3>2
    <3> QED
      BY <1>1, <3>1, <3>2
  <2> QED
    BY <1>1, <2>2, <2>3, <2>4 DEF Session!WillForget
<1>8. ASSUME s \notin list'[p], NEW i \in 1..n, new[i].profile = p
      PROVE  Session!WillForget(p, s)'
  <2>1. PICK k : k = l + i
    OBVIOUS
  <2>2. k \in 0..(l + n) /\ k # 0 /\ k \in (l + 1)..(l + n)
    BY <1>1, <2>1
  <2>3. net'[k] = new[i]
    BY <1>1, <2>1
  <2>4. net'[k].profile = p /\ Session!Removes(net'[k], s)
    BY <1>4, <1>8, <2>2, <2>3 DEF Session!Removes
  <2>5. \A j \in (k + 1)..(l + n) : net'[j].profile = p => s \notin DOMAIN net'[j].sets
    <3>1. \A j \in (k + 1)..(l + n) : j \in (l + 1)..(l + n)
      BY <1>1, <2>1
    <3> QED
      BY <1>4, <1>8, <3>1
  <2> QED
    BY <1>1, <2>2, <2>4, <2>5 DEF Session!WillForget
<1> QED
  BY <1>5, <1>6, <1>7, <1>8 DEF n

\* What is under way after a packet was duplicated
LEMMA Doubled ==
  ASSUME NEW S, NEW s \in Seq(S), NEW k \in 1..Len(s)
  PROVE  /\ Session!InsertAt(s, k, s[k]) \in Seq(S)
         /\ Len(Session!InsertAt(s, k, s[k])) = Len(s) + 1
         /\ \A i \in 1..Len(s) + 1 :
              Session!InsertAt(s, k, s[k])[i] = IF i <= k THEN s[i] ELSE s[i - 1]
<1> DEFINE t == Session!InsertAt(s, k, s[k])
           a == SubSeq(s, 1, k - 1)
           c == <<s[k]>>
           d == a \o c
           b == SubSeq(s, k, Len(s))
<1>1. /\ a \in Seq(S) /\ Len(a) = k - 1 /\ \A i \in 1..(k - 1) : a[i] = s[i]
      /\ b \in Seq(S) /\ Len(b) = Len(s) - k + 1
      /\ \A i \in 1..(Len(s) - k + 1) : b[i] = s[k - 1 + i]
  OBVIOUS
<1>2. c \in Seq(S) /\ Len(c) = 1 /\ c[1] = s[k]
  OBVIOUS
<1>3. t = d \o b
  BY DEF Session!InsertAt
<1> HIDE DEF t, a, b, c
<1>4. d \in Seq(S) /\ Len(d) = k /\ \A i \in 1..k : d[i] = s[i]
  <2>1. a \in Seq(S) /\ c \in Seq(S)
    BY <1>1, <1>2
  <2>2. /\ d \in Seq(S) /\ Len(d) = Len(a) + Len(c)
        /\ \A i \in 1..Len(d) : d[i] = IF i <= Len(a) THEN a[i] ELSE c[i - Len(a)]
    BY <2>1, ConcatProperties
  <2> HIDE DEF d
  <2>3. Len(d) = k
    BY <1>1, <1>2, <2>2
  <2>4. ASSUME NEW i \in 1..k PROVE d[i] = s[i]
    <3>1. CASE i = k
      <4>1. ~(k <= k - 1) /\ k - (k - 1) = 1
        OBVIOUS
      <4> QED
        BY <1>1, <1>2, <2>2, <2>3, <3>1, <4>1
    <3>2. CASE i # k
      <4>1. i \in 1..(k - 1) /\ i <= k - 1
        BY <3>2
      <4> QED
        BY <1>1, <2>2, <2>3, <4>1
    <3> QED
      BY <3>1, <3>2
  <2> QED
    BY <2>2, <2>3, <2>4
<1> HIDE DEF d
<1>5. /\ t \in Seq(S) /\ Len(t) = Len(d) + Len(b)
      /\ \A i \in 1..Len(t) : t[i] = IF i <= Len(d) THEN d[i] ELSE b[i - Len(d)]
  <2>1. d \in Seq(S) /\ b \in Seq(S)
    BY <1>1, <1>4
  <2> QED
    BY <1>3, <2>1, ConcatProperties
<1>6. Len(t) = Len(s) + 1
  BY <1>1, <1>4, <1>5
<1>7. ASSUME NEW i \in 1..(Len(s) + 1) PROVE t[i] = IF i <= k THEN s[i] ELSE s[i - 1]
  <2>1. CASE i <= k
    BY <1>4, <1>5, <1>6, <2>1
  <2>2. CASE i > k
    <3>1. i - k \in 1..(Len(s) - k + 1) /\ k - 1 + (i - k) = i - 1 /\ ~(i <= k)
      BY <2>2
    <3>2. t[i] = b[i - k]
      BY <1>4, <1>5, <1>6, <3>1
    <3>3. b[i - k] = s[i - 1]
      BY <1>1, <3>1
    <3> QED
      BY <3>1, <3>2, <3>3
  <2> QED
    BY <2>1, <2>2
<1> QED
  BY <1>5, <1>6, <1>7 DEF t

\* A packet that comes twice says the same twice.
LEMMA PacketDoubled ==
  ASSUME NEW R, net \in Seq(R), NEW k \in 1..Len(net), net' = Session!InsertAt(net, k, net[k]),
         UNCHANGED <<known, pos>>, NEW p, NEW s
  PROVE  /\ Session!WillKnow(p, s) => Session!WillKnow(p, s)'
         /\ Session!WillForget(p, s) => Session!WillForget(p, s)'
<1> DEFINE n == Len(net)
<1>1. /\ n \in Nat /\ k \in 1..n /\ Len(net') = n + 1
      /\ \A i \in 1..(n + 1) : net'[i] = IF i <= k THEN net[i] ELSE net[i - 1]
  BY Doubled
<1> HIDE DEF n
<1>2. ASSUME NEW i \in 0..n
      PROVE  \E h \in 0..(n + 1) :
               /\ h = 0 <=> i = 0
               /\ h # 0 => net'[h] = net[i]
               /\ \A j \in (h + 1)..(n + 1) : \E l \in (i + 1)..n : net'[j] = net[l]
  <2> DEFINE h == IF i < k THEN i ELSE i + 1
  <2>1. h \in 0..(n + 1) /\ (h = 0 <=> i = 0)
    BY <1>1
  <2>2. h # 0 => net'[h] = net[i]
    <3>1. CASE i < k
      BY <1>1, <3>1
    <3>2. CASE ~(i < k)
      <4>1. i + 1 \in 1..(n + 1) /\ ~(i + 1 <= k) /\ (i + 1) - 1 = i
        BY <1>1, <3>2
      <4> QED
        BY <1>1, <3>2, <4>1
    <3> QED
      BY <3>1, <3>2
  <2>3. ASSUME NEW j \in (h + 1)..(n + 1) PROVE \E l \in (i + 1)..n : net'[j] = net[l]
    <3>1. CASE j <= k
      <4>1. j \in (i + 1)..n /\ j \in 1..(n + 1)
        BY <1>1, <3>1
      <4> QED
        BY <1>1, <3>1, <4>1
    <3>2. CASE ~(j <= k)
      <4>1. j - 1 \in (i + 1)..n /\ j \in 1..(n + 1)
        BY <1>1, <3>2
      <4> QED
        BY <1>1, <3>2, <4>1
    <3> QED
      BY <3>1, <3>2
  <2> HIDE DEF h
  <2> QED
    BY <2>1, <2>2, <2>3
<1>3. ASSUME Session!WillKnow(p, s) PROVE Session!WillKnow(p, s)'
  <2>1. PICK i \in 0..n :
          /\ IF i = 0 THEN Session!Right(known[p], s)
                      ELSE net[i].profile = p /\ Session!Right(net[i].sets, s)
          /\ \A j \in (i + 1)..n : net[j].profile = p => Session!Keeps(net[j], s)
    BY <1>3 DEF Session!WillKnow, n
  <2>2. PICK h \in 0..(n + 1) :
          /\ h = 0 <=> i = 0
          /\ h # 0 => net'[h] = net[i]
          /\ \A j \in (h + 1)..(n + 1) : \E l \in (i + 1)..n : net'[j] = net[l]
    BY <1>2
  <2>3. IF h = 0 THEN Session!Right(known[p], s)'
                 ELSE net'[h].profile = p /\ Session!Right(net[h].sets, s)'
    BY <2>1, <2>2 DEF Session!Right
  <2>4. \A j \in (h + 1)..(n + 1) : net'[j].profile = p => Session!Keeps(net[j], s)'
    BY <2>1, <2>2 DEF Session!Keeps
  <2> QED
    BY <1>1, <2>3, <2>4 DEF Session!WillKnow
<1>4. ASSUME Session!WillForget(p, s) PROVE Session!WillForget(p, s)'
  <2>1. PICK i \in 0..n :
          /\ IF i = 0 THEN s \notin DOMAIN known[p]
                      ELSE net[i].profile = p /\ Session!Removes(net[i], s)
          /\ \A j \in (i + 1)..n : net[j].profile = p => s \notin DOMAIN net[j].sets
    BY <1>4 DEF Session!WillForget, n
  <2>2. PICK h \in 0..(n + 1) :
          /\ h = 0 <=> i = 0
          /\ h # 0 => net'[h] = net[i]
          /\ \A j \in (h + 1)..(n + 1) : \E l \in (i + 1)..n : net'[j] = net[l]
    BY <1>2
  <2>3. IF h = 0 THEN s \notin DOMAIN known'[p]
                 ELSE net'[h].profile = p /\ Session!Removes(net'[h], s)
    BY <2>1, <2>2
  <2>4. \A j \in (h + 1)..(n + 1) : net'[j].profile = p => s \notin DOMAIN net'[j].sets
    BY <2>1, <2>2
  <2> QED
    BY <1>1, <2>3, <2>4 DEF Session!WillForget
<1> QED
  BY <1>3, <1>4

\* What the client makes of a packet: what is said there holds, and the rest is kept or
\* forgotten.
LEMMA AppliedView ==
  ASSUME NEW old \in Session!Views, NEW m, m.sets \in Session!Views
  PROVE  /\ Session!Applied(old, m) \in Session!Views
         /\ \A s : s \in DOMAIN Session!Applied(old, m)
                     <=> (s \in DOMAIN old /\ s \in m.alive)
                         \/ (s \in DOMAIN m.sets /\ (s \in DOMAIN old => s \in m.alive))
         /\ \A s \in DOMAIN Session!Applied(old, m) :
              Session!Applied(old, m)[s] = IF s \in DOMAIN m.sets THEN m.sets[s] ELSE old[s]
<1> DEFINE D == (DOMAIN old \cup DOMAIN m.sets) \ (DOMAIN old \ m.alive)
           new == [s \in D |-> IF s \in DOMAIN m.sets THEN m.sets[s] ELSE old[s]]
           P == 0..(Positions - 1)
<1>1. new = Session!Applied(old, m)
  BY DEF Session!Applied
<1>2. PICK S \in SUBSET Session!Sessions : old \in [S -> P]
  BY DEF Session!Views
<1>3. PICK T \in SUBSET Session!Sessions : m.sets \in [T -> P]
  BY DEF Session!Views
<1> HIDE DEF P
<1>4. D \in SUBSET Session!Sessions
  BY <1>2, <1>3
<1>5. new \in [D -> P]
  BY <1>2, <1>3
<1>6. new \in Session!Views
  BY <1>4, <1>5 DEF Session!Views, P
<1>7. /\ DOMAIN new = D
      /\ \A s \in D : new[s] = IF s \in DOMAIN m.sets THEN m.sets[s] ELSE old[s]
  OBVIOUS
<1> HIDE DEF new
<1> QED
  BY <1>1, <1>6, <1>7

\* The packet at the head is applied: what was to be known or forgotten still is.
LEMMA PacketReceived ==
  ASSUME Session!PacketInv, Session!ServerInv, Session!Receive, ~behind',
         NEW p \in Session!Profiles, NEW s
  PROVE  /\ Session!WillKnow(p, s) => Session!WillKnow(p, s)'
         /\ Session!WillForget(p, s) => Session!WillForget(p, s)'
<1> DEFINE R == [profile : Session!Profiles, alive : SUBSET Session!Sessions, fseq : Int,
                 sets : Session!Views]
           n == Len(net)
           m == net[1]
<1>1. net \in Seq(R) /\ net # <<>> /\ net' = Tail(net) /\ pos' = pos
  BY DEF Session!PacketInv, Session!Receive, Session!serverVars
<1>2. \A x \in R : x.sets \in Session!Views
  OBVIOUS
<1> HIDE DEF R
<1>3. /\ n \in Nat /\ n >= 1 /\ Len(net') = n - 1 /\ m \in R /\ Head(net) = m
      /\ \A j \in 1..(n - 1) : net'[j] = net[j + 1]
  BY <1>1
<1>4. /\ known[p] \in Session!Views /\ m.sets \in Session!Views /\ DOMAIN m.sets \subseteq m.alive
      /\ known \in [Session!Profiles -> Session!Views]
  BY <1>2, <1>3 DEF Session!PacketInv
<1>5. known'[p] = IF m.profile = p THEN Session!Applied(known[p], m) ELSE known[p]
  <2>1. known' = [known EXCEPT ![m.profile] = Session!Applied(@, m)]
    BY <1>3 DEF Session!Receive
  <2> QED
    BY <1>4, <2>1
<1> HIDE DEF n, m
<1>6. ASSUME NEW i \in 2..n
      PROVE  /\ i - 1 \in 0..(n - 1) /\ i - 1 # 0 /\ net'[i - 1] = net[i]
             /\ \A j \in i..(n - 1) : j + 1 \in (i + 1)..n /\ net'[j] = net[j + 1]
  <2>1. i - 1 \in 1..(n - 1) /\ (i - 1) + 1 = i /\ i - 1 \in 0..(n - 1) /\ i - 1 # 0
    BY <1>3
  <2>2. \A j \in i..(n - 1) : j \in 1..(n - 1) /\ j + 1 \in (i + 1)..n
    BY <1>3
  <2> QED
    BY <1>3, <2>1, <2>2
<1>7. \A j \in 1..(n - 1) : j + 1 \in 2..n
  BY <1>3
<1>8. ASSUME Session!WillKnow(p, s) PROVE Session!WillKnow(p, s)'
  <2>1. PICK i \in 0..n :
          /\ IF i = 0 THEN Session!Right(known[p], s)
                      ELSE net[i].profile = p /\ Session!Right(net[i].sets, s)
          /\ \A j \in (i + 1)..n : net[j].profile = p => Session!Keeps(net[j], s)
    BY <1>8 DEF Session!WillKnow, n
  <2>2. CASE i \in 2..n
    <3>1. PICK h : h = i - 1
      OBVIOUS
    <3>2. h \in 0..(n - 1) /\ h # 0 /\ net'[h] = net[i] /\ h + 1 = i
      BY <1>6, <2>2, <3>1
    <3>3. net'[h].profile = p /\ Session!Right(net[h].sets, s)'
      <4>1. net[i].profile = p /\ Session!Right(net[i].sets, s) /\ pos' = pos
        BY <1>1, <2>1, <2>2
      <4> QED
        BY <3>2, <4>1 DEF Session!Right
    <3>4. ASSUME NEW j \in (h + 1)..(n - 1), net'[j].profile = p PROVE Session!Keeps(net[j], s)'
      <4>1. j + 1 \in (i + 1)..n /\ net'[j] = net[j + 1] /\ pos' = pos
        BY <1>1, <1>6, <2>2, <3>2
      <4>2. Session!Keeps(net[j + 1], s)
        BY <2>1, <3>4, <4>1
      <4> QED
        BY <4>1, <4>2 DEF Session!Keeps
    <3> QED
      BY <1>3, <3>2, <3>3, <3>4 DEF Session!WillKnow
  <2>3. CASE i \in {0, 1}
    <3>1. Session!Right(known[p], s)'
      <4>1. CASE m.profile = p
        <5>1. (Session!Right(known[p], s) /\ Session!Keeps(m, s)) \/ Session!Right(m.sets, s)
          BY <1>3, <2>1, <2>3, <4>1 DEF m
        <5>2. known'[p] = Session!Applied(known[p], m) /\ pos' = pos
          BY <1>1, <1>5, <4>1
        <5>3. s \in DOMAIN Session!Applied(known[p], m)
          BY <1>4, <5>1, AppliedView DEF Session!Right, Session!Keeps
        <5>4. Session!Applied(known[p], m)[s] = IF s \in DOMAIN m.sets THEN m.sets[s] ELSE known[p][s]
          BY <1>4, <5>3, AppliedView
        <5> QED
          BY <5>1, <5>2, <5>3, <5>4 DEF Session!Right, Session!Keeps
      <4>2. CASE m.profile # p
        BY <1>1, <1>3, <1>5, <2>1, <2>3, <4>2 DEF m, Session!Right
      <4> QED
        BY <4>1, <4>2
    <3>2. \A j \in 1..(n - 1) : net'[j].profile = p => Session!Keeps(net[j], s)'
      <4>1. \A j \in 1..(n - 1) : j + 1 \in (i + 1)..n
        BY <1>3, <2>3
      <4> QED
        BY <1>1, <1>3, <2>1, <4>1 DEF Session!Keeps
    <3>3. 0 \in 0..(n - 1) /\ 0 + 1 = 1
      BY <1>3
    <3> QED
      BY <1>3, <3>1, <3>2, <3>3 DEF Session!WillKnow
  <2> QED
    BY <1>3, <2>2, <2>3
<1>9. ASSUME Session!WillForget(p, s) PROVE Session!WillForget(p, s)'
  <2>1. PICK i \in 0..n :
          /\ IF i = 0 THEN s \notin DOMAIN known[p]
                      ELSE net[i].profile = p /\ Session!Removes(net[i], s)
          /\ \A j \in (i + 1)..n : net[j].profile = p => s \notin DOMAIN net[j].sets
    BY <1>9 DEF Session!WillForget, n
  <2>2. CASE i \in 2..n
    <3>1. PICK h : h = i - 1
      OBVIOUS
    <3>2. h \in 0..(n - 1) /\ h # 0 /\ net'[h] = net[i] /\ h + 1 = i
      BY <1>6, <2>2, <3>1
    <3>3. net'[h].profile = p /\ Session!Removes(net'[h], s)
      BY <2>1, <2>2, <3>2
    <3>4. \A j \in (h + 1)..(n - 1) : net'[j].profile = p => s \notin DOMAIN net'[j].sets
      BY <1>6, <2>1, <2>2, <3>2
    <3> QED
      BY <1>3, <3>2, <3>3, <3>4 DEF Session!WillForget
  <2>3. CASE i \in {0, 1}
    <3>1. s \notin DOMAIN known'[p]
      <4>1. CASE m.profile = p
        <5>1. (s \notin DOMAIN known[p] /\ s \notin DOMAIN m.sets) \/ Session!Removes(m, s)
          BY <1>3, <2>1, <2>3, <4>1 DEF m
        <5>2. known'[p] = Session!Applied(known[p], m)
          BY <1>5, <4>1
        <5> QED
          BY <1>4, <5>1, <5>2, AppliedView DEF Session!Removes
      <4>2. CASE m.profile # p
        BY <1>3, <1>5, <2>1, <2>3, <4>2 DEF m
      <4> QED
        BY <4>1, <4>2
    <3>2. \A j \in 1..(n - 1) : net'[j].profile = p => s \notin DOMAIN net'[j].sets
      <4>1. \A j \in 1..(n - 1) : j + 1 \in (i + 1)..n
        BY <1>3, <2>3
      <4> QED
        BY <1>3, <2>1, <4>1
    <3>3. 0 \in 0..(n - 1) /\ 0 + 1 = 1
      BY <1>3
    <3> QED
      BY <1>3, <3>1, <3>2, <3>3 DEF Session!WillForget
  <2> QED
    BY <1>3, <2>2, <2>3
<1> QED
  BY <1>8, <1>9

LEMMA SessionInit == Session!Init => Session!IndInv
<1> SUFFICES ASSUME Session!Init PROVE Session!IndInv
  OBVIOUS
<1>1. /\ list = [p \in Session!Profiles |-> {}] /\ pos = [s \in Session!Sessions |-> 0]
      /\ touched = {} /\ update = [p \in Session!Profiles |-> FALSE]
      /\ sessionID = -1 /\ currentFrame = 0 /\ inFrame = FALSE /\ net = <<>>
      /\ known = [p \in Session!Profiles |-> Session!Nothing]
  BY DEF Session!Init
<1>2. 0 \in 0..(Positions - 1)
  BY SessionsAssumption
<1>3. Session!ServerInv
  <2>1. /\ list \in [Session!Profiles -> SUBSET Session!Sessions]
        /\ pos \in [Session!Sessions -> 0..(Positions - 1)]
        /\ update \in [Session!Profiles -> BOOLEAN]
    BY <1>1, <1>2
  <2>2. "2Dcur" \in Session!Profiles /\ "2Dobj" \in Session!Profiles
    BY DEF Session!Profiles
  <2>3. \A p \in Session!Profiles : list[p] = {} /\ update[p] = FALSE
    BY <1>1
  <2> QED
    <3>1. list["2Dcur"] \cap list["2Dobj"] = {}
      BY <2>2, <2>3
    <3>2. /\ \A p \in Session!Profiles : \A s \in list[p] : s <= sessionID /\ (s \in touched => update[p])
          /\ \A p \in Session!Profiles : ~update[p]
      BY <2>3
    <3>3. sessionID \in Int /\ sessionID >= -1 /\ currentFrame \in Int /\ inFrame \in BOOLEAN
      <4>1. sessionID = -1 /\ currentFrame = 0
        BY <1>1
      <4>2. inFrame \in BOOLEAN
        BY <1>1
      <4>3. sessionID \in Int /\ sessionID >= -1 /\ currentFrame \in Int
        BY <4>1
      <4> QED
        BY <4>2, <4>3
    <3> QED
      BY <1>1, <2>1, <3>1, <3>2, <3>3 DEF Session!ServerInv
<1>4. Session!Nothing \in Session!Views /\ DOMAIN Session!Nothing = {}
  BY DEF Session!Nothing, Session!Views
<1>5. Len(net) = 0
  BY <1>1
<1>6. Session!PacketInv
  BY <1>1, <1>4, <1>5 DEF Session!PacketInv
<1>7. ASSUME NEW p \in Session!Profiles, NEW s \in Session!Sessions
      PROVE  s \notin list[p] /\ Session!WillForget(p, s)
  BY <1>1, <1>4, <1>5 DEF Session!WillForget
<1>8. Session!FollowInv
  BY <1>7 DEF Session!FollowInv
<1> QED
  BY <1>3, <1>6, <1>8 DEF Session!IndInv

\* The state of the server
LEMMA ServerStep ==
  ASSUME Session!IndInv, Session!Next
  PROVE  Session!ServerInv'
<1> DEFINE P == Session!Profiles
           S == Session!Sessions
<1>1. Session!ServerInv
  BY DEF Session!IndInv
<1>2. MaxSessions \in Nat /\ Positions \in Nat \ {0}
  BY SessionsAssumption
<1>3. CASE UNCHANGED <<list, pos, touched, update, sessionID, currentFrame, inFrame>>
  BY <1>1, <1>3 DEF Session!ServerInv
<1>4. CASE Session!InitFrame
  BY <1>1, <1>4 DEF Session!ServerInv, Session!InitFrame
<1>5. ASSUME NEW p \in P, Session!Add(p) PROVE Session!ServerInv'
  <2> DEFINE s0 == sessionID + 1
  <2>1. /\ inFrame /\ sessionID < MaxSessions - 1 /\ sessionID' = s0
        /\ list' = [list EXCEPT ![p] = @ \cup {s0}] /\ pos' = [pos EXCEPT ![s0] = 0]
        /\ touched' = touched \cup {s0} /\ update' = [update EXCEPT ![p] = TRUE]
        /\ UNCHANGED <<currentFrame, inFrame>>
    BY <1>5 DEF Session!Add
  <2>2. s0 \in S /\ 0 \in 0..(Positions - 1)
    BY <1>1, <1>2, <2>1 DEF Session!ServerInv, Session!Sessions
  <2>3. \A q \in P : s0 \notin list[q]
    BY <1>1 DEF Session!ServerInv
  <2>4. /\ list' \in [P -> SUBSET S] /\ pos' \in [S -> 0..(Positions - 1)]
        /\ touched' \subseteq S /\ update' \in [P -> BOOLEAN]
    BY <1>1, <2>1, <2>2 DEF Session!ServerInv
  <2>5. sessionID' \in Int /\ sessionID' >= -1 /\ currentFrame' \in Int /\ inFrame' = TRUE
    BY <1>1, <2>1 DEF Session!ServerInv
  <2>6. \A q \in P : list'[q] = IF q = p THEN list[q] \cup {s0} ELSE list[q]
    BY <1>1, <2>1 DEF Session!ServerInv
  <2>7. \A q \in P : update'[q] = IF q = p THEN TRUE ELSE update[q]
    BY <1>1, <2>1 DEF Session!ServerInv
  <2>8. ASSUME NEW q \in P, NEW s \in list'[q]
        PROVE  s <= sessionID' /\ (s \in touched' => update'[q])
    <3>1. CASE s \in list[q]
      <4>1. /\ s <= sessionID /\ (s \in touched => update[q]) /\ s # s0
            /\ s \in Int /\ sessionID \in Int
        BY <1>1, <2>3, <3>1 DEF Session!ServerInv, Session!Sessions
      <4> QED
        BY <2>1, <2>7, <4>1
    <3>2. CASE s = s0 /\ q = p
      <4>1. update'[q]
        BY <2>7, <3>2
      <4>2. s = sessionID' /\ sessionID' \in Int
        BY <2>1, <2>5, <3>2
      <4> QED
        BY <4>1, <4>2
    <3> QED
      BY <2>6, <2>8, <3>1, <3>2
  <2>9. list'["2Dcur"] \cap list'["2Dobj"] = {}
    BY <1>1, <2>3, <2>6 DEF Session!ServerInv, Session!Profiles
  <2> QED
    BY <2>4, <2>5, <2>8, <2>9 DEF Session!ServerInv
<1>6. ASSUME NEW p \in P, NEW s0 \in S, Session!Update(p, s0) PROVE Session!ServerInv'
  <2>1. /\ inFrame /\ s0 \in list[p]
        /\ pos' = [pos EXCEPT ![s0] = (@ + 1) % Positions] /\ touched' = touched \cup {s0}
        /\ update' = [update EXCEPT ![p] = TRUE]
        /\ UNCHANGED <<list, sessionID, currentFrame, inFrame>>
    BY <1>6 DEF Session!Update
  <2>2. \A x \in 0..(Positions - 1) : (x + 1) % Positions \in 0..(Positions - 1)
    BY <1>2
  <2>3. pos' \in [S -> 0..(Positions - 1)]
    BY <1>1, <2>1, <2>2 DEF Session!ServerInv
  <2>4. touched' \subseteq S /\ update' \in [P -> BOOLEAN]
    BY <1>1, <2>1 DEF Session!ServerInv
  <2>5. \A q \in P : update'[q] = IF q = p THEN TRUE ELSE update[q]
    BY <1>1, <2>1 DEF Session!ServerInv
  <2>6. ASSUME NEW q \in P, NEW s \in list[q]
        PROVE  s <= sessionID /\ (s \in touched' => update'[q])
    <3>1. s = s0 => q = p
      BY <1>1, <2>1 DEF Session!ServerInv, Session!Profiles
    <3> QED
      BY <1>1, <2>1, <2>5, <3>1 DEF Session!ServerInv
  <2> QED
    BY <1>1, <2>1, <2>3, <2>4, <2>6 DEF Session!ServerInv
<1>7. ASSUME NEW p \in P, NEW s0 \in S, Session!RemoveSession(p, s0) PROVE Session!ServerInv'
  <2>1. /\ inFrame /\ list' = [list EXCEPT ![p] = @ \ {s0}] /\ pos' = [pos EXCEPT ![s0] = 0]
        /\ update' = [update EXCEPT ![p] = TRUE]
        /\ UNCHANGED <<touched, sessionID, currentFrame, inFrame>>
    BY <1>7 DEF Session!RemoveSession
  <2>2. 0 \in 0..(Positions - 1)
    BY <1>2
  <2>3. /\ list' \in [P -> SUBSET S] /\ pos' \in [S -> 0..(Positions - 1)]
        /\ update' \in [P -> BOOLEAN]
    BY <1>1, <2>1, <2>2 DEF Session!ServerInv
  <2>4. \A q \in P : list'[q] \subseteq list[q] /\ (update[q] => update'[q])
    BY <1>1, <2>1 DEF Session!ServerInv
  <2>5. list'["2Dcur"] \cap list'["2Dobj"] = {}
    BY <1>1, <2>4 DEF Session!ServerInv, Session!Profiles
  <2> QED
    BY <1>1, <2>1, <2>3, <2>4, <2>5 DEF Session!ServerInv
<1>8. ASSUME NEW b, NEW full, Session!CommitFrame(b, full) PROVE Session!ServerInv'
  <2>1. /\ inFrame' = FALSE /\ update' = [p \in P |-> FALSE] /\ touched' = {}
        /\ UNCHANGED <<list, pos, sessionID, currentFrame>>
    BY <1>8 DEF Session!CommitFrame
  <2> QED
    BY <1>1, <2>1 DEF Session!ServerInv
<1>9. CASE Session!Restart
  <2>1. /\ ~inFrame /\ list' = [p \in P |-> {}] /\ touched' = {} /\ pos' = [s \in S |-> 0]
        /\ update' = [p \in P |-> FALSE] /\ sessionID' = -1 /\ currentFrame' = -1
        /\ inFrame' = inFrame
    BY <1>9 DEF Session!Restart
  <2>2. 0 \in 0..(Positions - 1)
    BY <1>2
  <2> QED
    BY <1>1, <2>1, <2>2 DEF Session!ServerInv, Session!Profiles
<1>10. ASSUME NEW b, Session!SetPeriodic(b) PROVE Session!ServerInv'
  BY <1>3, <1>10 DEF Session!SetPeriodic
<1>11. CASE Session!SendFullMessages \/ Session!Delay \/ Session!Receive
  BY <1>3, <1>11
  DEF Session!SendFullMessages, Session!Delay, Session!Receive, Session!serverVars
<1>12. ASSUME NEW k, Session!Lose(k) \/ Session!Duplicate(k) PROVE Session!ServerInv'
  BY <1>3, <1>12 DEF Session!Lose, Session!Duplicate, Session!serverVars
<1> QED
  BY <1>4, <1>5, <1>6, <1>7, <1>8, <1>9, <1>10, <1>11, <1>12 DEF Session!Next

\* The packets of a commit say how the lists are and have what the frame changed.
LEMMA CommitPackets ==
  ASSUME Session!ServerInv, NEW p \in Session!Profiles, NEW second, NEW full
  PROVE  /\ Session!CommitOf(p, second, full)
              \in Seq([profile : Session!Profiles, alive : SUBSET Session!Sessions, fseq : Int,
                       sets : Session!Views])
         /\ \A k \in 1..Len(Session!CommitOf(p, second, full)) :
              /\ Session!CommitOf(p, second, full)[k].profile = p
              /\ Faithful(Session!CommitOf(p, second, full)[k], list, pos)
         /\ update[p] => Len(Session!CommitOf(p, second, full)) > 0
         /\ \A s \in list[p] \cap touched : \E k \in 1..Len(Session!CommitOf(p, second, full)) :
              s \in DOMAIN Session!CommitOf(p, second, full)[k].sets
<1> DEFINE C == Session!CommitOf(p, second, full)
           R == [profile : Session!Profiles, alive : SUBSET Session!Sessions, fseq : Int,
                 sets : Session!Views]
           M == {s \in list[p] : full \/ s \in touched}
<1>1. /\ currentFrame \in Int
      /\ \A s \in list[p] : s \in touched => update[p]
  BY DEF Session!ServerInv
<1>2. C = IF update[p] THEN Session!Packets(p, M, currentFrame)
            ELSE IF second /\ ~periodic THEN Session!Packets(p, {}, currentFrame) ELSE <<>>
  BY DEF Session!CommitOf
<1>3. M \in SUBSET list[p] /\ {} \in SUBSET list[p] /\ list[p] \cap touched \subseteq M
  OBVIOUS
<1> HIDE DEF C, R, M
<1>4. ASSUME NEW members \in SUBSET list[p], C = Session!Packets(p, members, currentFrame)
      PROVE  /\ C \in Seq(R) /\ Len(C) > 0
             /\ \A k \in 1..Len(C) : C[k].profile = p /\ Faithful(C[k], list, pos)
             /\ \A s \in members : \E k \in 1..Len(C) : s \in DOMAIN C[k].sets
  <2>1. \A v, s : Session!Right(v, s) => s \in DOMAIN v
    BY DEF Session!Right
  <2> QED
    <3> DEFINE D == Session!Packets(p, members, currentFrame)
    <3>1. /\ D \in Seq(R) /\ Len(D) > 0
          /\ \A k \in 1..Len(D) : D[k].profile = p /\ Faithful(D[k], list, pos)
          /\ \A s \in members : \E k \in 1..Len(D) : Session!Right(D[k].sets, s)
      BY <1>1, PacketsFaithful DEF R
    <3> HIDE DEF D
    <3>2. C = D
      BY <1>4 DEF D
    <3> QED
      BY <2>1, <3>1, <3>2
<1>5. CASE update[p]
  <2>1. C = Session!Packets(p, M, currentFrame)
    BY <1>2, <1>5
  <2> QED
    BY <1>3, <1>4, <2>1 DEF C, R
<1>6. CASE ~update[p]
  <2>1. list[p] \cap touched = {}
    BY <1>1, <1>6
  <2>2. CASE C = Session!Packets(p, {}, currentFrame)
    BY <1>3, <1>4, <1>6, <2>1, <2>2 DEF C, R
  <2>3. CASE C = <<>>
    <3>1. C \in Seq(R) /\ Len(C) = 0
      BY <2>3
    <3> QED
      BY <1>6, <2>1, <3>1 DEF C, R
  <2> QED
    BY <1>2, <1>6, <2>2, <2>3
<1> QED
  BY <1>5, <1>6

\* Packets of two profiles, one behind the other
LEMMA BothSent ==
  ASSUME NEW R, NEW a \in Seq(R), NEW b \in Seq(R), NEW c, c = a \o b
  PROVE  /\ c \in Seq(R)
         /\ \A j \in 1..Len(c) : (\E i \in 1..Len(a) : c[j] = a[i])
                                 \/ (\E i \in 1..Len(b) : c[j] = b[i])
         /\ \A i \in 1..Len(a) : \E j \in 1..Len(c) : c[j] = a[i]
         /\ \A i \in 1..Len(b) : \E j \in 1..Len(c) : c[j] = b[i]
<1> DEFINE l == Len(a)
           n == Len(b)
<1>1. /\ l \in Nat /\ n \in Nat /\ c \in Seq(R) /\ Len(c) = l + n
      /\ \A i \in 1..(l + n) : c[i] = IF i <= l THEN a[i] ELSE b[i - l]
  <2>1. a \in Seq(R) /\ b \in Seq(R)
    OBVIOUS
  <2> QED
    BY <2>1, ConcatProperties
<1> HIDE DEF l, n
<1>2. ASSUME NEW j \in 1..(l + n)
      PROVE  (\E i \in 1..l : c[j] = a[i]) \/ (\E i \in 1..n : c[j] = b[i])
  <2>1. CASE j <= l
    BY <1>1, <2>1, SMTT(30)
  <2>2. CASE ~(j <= l)
    <3>1. j - l \in 1..n
      BY <1>1, <2>2
    <3> QED
      BY <1>1, <2>2, <3>1
  <2> QED
    BY <2>1, <2>2
<1>3. ASSUME NEW i \in 1..l PROVE \E j \in 1..(l + n) : c[j] = a[i]
  BY <1>1
<1>4. ASSUME NEW i \in 1..n PROVE \E j \in 1..(l + n) : c[j] = b[i]
  <2>1. l + i \in 1..(l + n) /\ ~(l + i <= l) /\ (l + i) - l = i
    BY <1>1
  <2> QED
    BY <1>1, <2>1
<1> QED
  BY <1>1, <1>2, <1>3, <1>4 DEF l, n

\* What the server sends keeps the client on the way to its lists.
LEMMA SessionSent ==
  ASSUME Session!IndInv, UNCHANGED <<known, behind>>,
         NEW new \in Seq([profile : Session!Profiles, alive : SUBSET Session!Sessions,
                          fseq : Int, sets : Session!Views]),
         net' = net \o new,
         \A j \in 1..Len(new) : Faithful(new[j], list', pos'),
         \A p \in Session!Profiles, s \in Session!Sessions :
           /\ s \in list'[p] \ touched' =>
                /\ pos'[s] = pos[s]
                /\ s \in list[p] \ touched
                   \/ \E k \in 1..Len(new) : new[k].profile = p /\ s \in DOMAIN new[k].sets
           /\ s \notin list'[p] /\ ~update'[p] =>
                (s \notin list[p] /\ ~update[p]) \/ \E k \in 1..Len(new) : new[k].profile = p
  PROVE  Session!PacketInv' /\ Session!FollowInv'
<1> DEFINE R == [profile : Session!Profiles, alive : SUBSET Session!Sessions, fseq : Int,
                 sets : Session!Views]
<1>1. Session!ServerInv /\ Session!PacketInv /\ Session!FollowInv
  BY DEF Session!IndInv
<1>2. net \in Seq(R) /\ known \in [Session!Profiles -> Session!Views]
  BY <1>1 DEF Session!PacketInv
<1>3. new \in Seq(R)
  OBVIOUS
<1> HIDE DEF R
<1>4. Session!PacketInv'
  <2>1. /\ net' \in Seq(R)
        /\ \A j \in 1..Len(net') : (\E i \in 1..Len(net) : net'[j] = net[i])
                                   \/ (\E i \in 1..Len(new) : net'[j] = new[i])
    <3>1. net \in Seq(R) /\ new \in Seq(R) /\ net' = net \o new
      BY <1>2, <1>3
    <3> QED
      BY <3>1, BothSent, SMTT(30)
  <2>2. \A j \in 1..Len(net') : DOMAIN net'[j].sets \subseteq net'[j].alive
    BY <1>1, <2>1 DEF Session!PacketInv, Faithful
  <2> QED
    BY <1>2, <2>1, <2>2 DEF Session!PacketInv, R
<1>5. ASSUME ~behind', NEW p \in Session!Profiles, NEW s \in Session!Sessions
      PROVE  /\ s \in list'[p] \ touched' => Session!WillKnow(p, s)'
             /\ s \notin list'[p] /\ ~update'[p] => Session!WillForget(p, s)'
  <2>1. /\ s \in list[p] \ touched => Session!WillKnow(p, s)
        /\ s \notin list[p] /\ ~update[p] => Session!WillForget(p, s)
    BY <1>1, <1>5 DEF Session!FollowInv
  <2>2. \A j \in 1..Len(new) : new[j].profile = p => Faithful(new[j], list', pos')
    OBVIOUS
  <2>3. ASSUME s \in list'[p] \ touched' PROVE Session!WillKnow(p, s)'
    <3>1. s \in list'[p] => pos'[s] = pos[s]
      BY <2>3
    <3>2. s \in list'[p]
          /\ (Session!WillKnow(p, s)
              \/ \E k \in 1..Len(new) : new[k].profile = p /\ s \in DOMAIN new[k].sets)
      BY <2>1, <2>3
    <3> QED
      BY <1>2, <1>3, <2>2, <3>1, <3>2, PacketsSent
  <2>4. ASSUME s \notin list'[p], ~update'[p] PROVE Session!WillForget(p, s)'
    <3>1. s \in list'[p] => pos'[s] = pos[s]
      BY <2>4
    <3>2. s \notin list'[p]
          /\ (Session!WillForget(p, s) \/ \E k \in 1..Len(new) : new[k].profile = p)
      BY <2>1, <2>4
    <3> QED
      BY <1>2, <1>3, <2>2, <3>1, <3>2, PacketsSent, ZenonT(30)
  <2> QED
    BY <2>3, <2>4
<1>6. Session!FollowInv'
  BY <1>5 DEF Session!FollowInv
<1> QED
  BY <1>4, <1>6

\* What is under way and what the client has are packets and lists, and the client knows or
\* will know what no frame has changed since.
LEMMA FollowStep ==
  ASSUME Session!IndInv, Session!Next
  PROVE  Session!PacketInv' /\ Session!FollowInv'
<1> DEFINE P == Session!Profiles
           S == Session!Sessions
           R == [profile : P, alive : SUBSET S, fseq : Int, sets : Session!Views]
<1>1. Session!ServerInv /\ Session!PacketInv /\ Session!FollowInv
  BY DEF Session!IndInv
<1>2. net \in Seq(R) /\ known \in [P -> Session!Views]
  BY <1>1 DEF Session!PacketInv
<1>3. "2Dcur" \in P /\ "2Dobj" \in P /\ \A p \in P : p = "2Dcur" \/ p = "2Dobj"
  BY DEF Session!Profiles
<1>4. /\ list \in [P -> SUBSET S] /\ pos \in [S -> 0..(Positions - 1)]
      /\ list["2Dcur"] \cap list["2Dobj"] = {} /\ update \in [P -> BOOLEAN]
      /\ \A p \in P : \A s \in list[p] : s <= sessionID /\ (s \in touched => update[p])
      /\ sessionID \in Int
  BY <1>1 DEF Session!ServerInv
<1>5. ASSUME UNCHANGED <<net, known, behind>>,
             \A p \in P, s \in S :
               /\ s \in list'[p] \ touched' => s \in list[p] \ touched /\ pos'[s] = pos[s]
               /\ s \notin list'[p] /\ ~update'[p] => s \notin list[p] /\ ~update[p]
      PROVE  Session!PacketInv' /\ Session!FollowInv'
  <2>1. Session!PacketInv'
    BY <1>1, <1>5 DEF Session!PacketInv
  <2>2. ASSUME NEW p \in P, NEW s \in S, pos'[s] = pos[s], Session!WillKnow(p, s)
        PROVE  Session!WillKnow(p, s)'
    BY <1>5, <2>2 DEF Session!WillKnow, Session!Right, Session!Keeps
  <2>3. ASSUME NEW p \in P, NEW s \in S, Session!WillForget(p, s)
        PROVE  Session!WillForget(p, s)'
    BY <1>5, <2>3 DEF Session!WillForget, Session!Removes
  <2>4. Session!FollowInv'
    BY <1>1, <1>5, <2>2, <2>3 DEF Session!FollowInv
  <2> QED
    BY <2>1, <2>4
<1>6. CASE Session!InitFrame
  BY <1>5, <1>6 DEF Session!InitFrame, Session!clientVars
<1>7. ASSUME NEW p \in P, Session!Add(p) PROVE Session!PacketInv' /\ Session!FollowInv'
  <2> DEFINE s0 == sessionID + 1
  <2>1. /\ list' = [list EXCEPT ![p] = @ \cup {s0}] /\ pos' = [pos EXCEPT ![s0] = 0]
        /\ touched' = touched \cup {s0} /\ update' = [update EXCEPT ![p] = TRUE]
        /\ UNCHANGED <<net, known, behind>>
    BY <1>7 DEF Session!Add, Session!clientVars
  <2> HIDE DEF s0
  <2>2. ASSUME NEW q \in P, NEW s \in S
        PROVE  /\ s \in list'[q] \ touched' => s \in list[q] \ touched /\ pos'[s] = pos[s]
               /\ s \notin list'[q] /\ ~update'[q] => s \notin list[q] /\ ~update[q]
    BY <1>4, <2>1
  <2> QED
    BY <1>5, <2>1, <2>2
<1>8. ASSUME NEW p \in P, NEW s0 \in S, Session!Update(p, s0)
      PROVE  Session!PacketInv' /\ Session!FollowInv'
  <2>1. /\ list' = list /\ pos' = [pos EXCEPT ![s0] = (@ + 1) % Positions]
        /\ touched' = touched \cup {s0} /\ update' = [update EXCEPT ![p] = TRUE]
        /\ UNCHANGED <<net, known, behind>>
    BY <1>8 DEF Session!Update, Session!clientVars
  <2>2. ASSUME NEW q \in P, NEW s \in S
        PROVE  /\ s \in list'[q] \ touched' => s \in list[q] \ touched /\ pos'[s] = pos[s]
               /\ s \notin list'[q] /\ ~update'[q] => s \notin list[q] /\ ~update[q]
    BY <1>4, <2>1
  <2> QED
    BY <1>5, <2>1, <2>2
<1>9. ASSUME NEW p \in P, NEW s0 \in S, Session!RemoveSession(p, s0)
      PROVE  Session!PacketInv' /\ Session!FollowInv'
  <2>1. /\ s0 \in list[p] /\ list' = [list EXCEPT ![p] = @ \ {s0}]
        /\ pos' = [pos EXCEPT ![s0] = 0]
        /\ touched' = touched /\ update' = [update EXCEPT ![p] = TRUE]
        /\ UNCHANGED <<net, known, behind>>
    BY <1>9 DEF Session!RemoveSession, Session!clientVars
  <2>2. ASSUME NEW q \in P, NEW s \in S
        PROVE  /\ s \in list'[q] \ touched' => s \in list[q] \ touched /\ pos'[s] = pos[s]
               /\ s \notin list'[q] /\ ~update'[q] => s \notin list[q] /\ ~update[q]
    <3>1. list'[q] = IF q = p THEN list[q] \ {s0} ELSE list[q]
      BY <1>4, <2>1
    <3>2. q # p => s0 \notin list[q]
      BY <1>3, <1>4, <2>1
    <3>3. update'[q] = IF q = p THEN TRUE ELSE update[q]
      BY <1>4, <2>1
    <3>4. s # s0 => pos'[s] = pos[s]
      BY <1>4, <2>1
    <3>5. ASSUME s \in list'[q] \ touched' PROVE s \in list[q] \ touched /\ pos'[s] = pos[s]
      BY <2>1, <3>1, <3>2, <3>4, <3>5
    <3>6. ASSUME s \notin list'[q], ~update'[q] PROVE s \notin list[q] /\ ~update[q]
      BY <3>1, <3>3, <3>6
    <3> QED
      BY <3>5, <3>6
  <2> QED
    BY <1>5, <2>1, <2>2
<1>10. ASSUME NEW second, NEW full, Session!CommitFrame(second, full)
       PROVE  Session!PacketInv' /\ Session!FollowInv'
  <2> DEFINE a == Session!CommitOf("2Dcur", second, full)
             b == Session!CommitOf("2Dobj", second, full)
             c == a \o b
  <2>1. /\ net' = net \o c /\ UNCHANGED <<list, pos, known, behind>>
        /\ update' = [p \in P |-> FALSE] /\ touched' = {}
    BY <1>10 DEF Session!CommitFrame, Session!Send, Session!clientVars
  <2>2. /\ a \in Seq(R) /\ \A k \in 1..Len(a) : a[k].profile = "2Dcur" /\ Faithful(a[k], list, pos)
        /\ update["2Dcur"] => Len(a) > 0
        /\ \A s \in list["2Dcur"] \cap touched : \E k \in 1..Len(a) : s \in DOMAIN a[k].sets
    BY <1>1, <1>3, CommitPackets
  <2>3. /\ b \in Seq(R) /\ \A k \in 1..Len(b) : b[k].profile = "2Dobj" /\ Faithful(b[k], list, pos)
        /\ update["2Dobj"] => Len(b) > 0
        /\ \A s \in list["2Dobj"] \cap touched : \E k \in 1..Len(b) : s \in DOMAIN b[k].sets
    BY <1>1, <1>3, CommitPackets
  <2> HIDE DEF a, b
  <2>4. /\ c \in Seq(R)
        /\ \A j \in 1..Len(c) : (\E i \in 1..Len(a) : c[j] = a[i])
                                \/ (\E i \in 1..Len(b) : c[j] = b[i])
        /\ \A i \in 1..Len(a) : \E j \in 1..Len(c) : c[j] = a[i]
        /\ \A i \in 1..Len(b) : \E j \in 1..Len(c) : c[j] = b[i]
    <3>1. a \in Seq(R) /\ b \in Seq(R) /\ c = a \o b
      BY <2>2, <2>3
    <3> HIDE DEF R, c
    <3>2. \A j \in 1..Len(c) : (\E i \in 1..Len(a) : c[j] = a[i])
                               \/ (\E i \in 1..Len(b) : c[j] = b[i])
      BY <3>1, BothSent
    <3>3. \A i \in 1..Len(a) : \E j \in 1..Len(c) : c[j] = a[i]
      BY <3>1, BothSent
    <3>4. \A i \in 1..Len(b) : \E j \in 1..Len(c) : c[j] = b[i]
      BY <3>1, BothSent
    <3>5. c \in Seq(R)
      BY <3>1, BothSent
    <3> QED
      BY <3>2, <3>3, <3>4, <3>5
  <2> HIDE DEF c
  <2>5. \A j \in 1..Len(c) : Faithful(c[j], list', pos')
    <3>1. \A j \in 1..Len(c) : Faithful(c[j], list, pos)
      BY <2>2, <2>3, <2>4
    <3> QED
      BY <2>1, <3>1
  <2>6. ASSUME NEW p \in P, NEW s \in S
        PROVE  /\ s \in list'[p] \ touched' =>
                    /\ pos'[s] = pos[s]
                    /\ s \in list[p] \ touched
                       \/ \E k \in 1..Len(c) : c[k].profile = p /\ s \in DOMAIN c[k].sets
               /\ s \notin list'[p] /\ ~update'[p] =>
                    (s \notin list[p] /\ ~update[p]) \/ \E k \in 1..Len(c) : c[k].profile = p
    <3>1. ASSUME s \in list[p] \cap touched
          PROVE  \E k \in 1..Len(c) : c[k].profile = p /\ s \in DOMAIN c[k].sets
      <4>1. CASE p = "2Dcur"
        <5>1. PICK i \in 1..Len(a) : s \in DOMAIN a[i].sets
          BY <2>2, <3>1, <4>1
        <5>2. PICK j \in 1..Len(c) : c[j] = a[i]
          BY <2>4
        <5> QED
          BY <2>2, <4>1, <5>1, <5>2
      <4>2. CASE p = "2Dobj"
        <5>1. PICK i \in 1..Len(b) : s \in DOMAIN b[i].sets
          BY <2>3, <3>1, <4>2
        <5>2. PICK j \in 1..Len(c) : c[j] = b[i]
          BY <2>4
        <5> QED
          BY <2>3, <4>2, <5>1, <5>2
      <4> QED
        BY <1>3, <4>1, <4>2
    <3>2. ASSUME update[p] PROVE \E k \in 1..Len(c) : c[k].profile = p
      <4>1. CASE p = "2Dcur"
        <5>1. Len(a) \in Nat /\ Len(a) > 0
          BY <2>2, <3>2, <4>1
        <5>2. 1 \in 1..Len(a)
          BY <5>1
        <5>3. PICK j \in 1..Len(c) : c[j] = a[1]
          BY <2>4, <5>2
        <5> QED
          BY <2>2, <4>1, <5>2, <5>3
      <4>2. CASE p = "2Dobj"
        <5>1. Len(b) \in Nat /\ Len(b) > 0
          BY <2>3, <3>2, <4>2
        <5>2. 1 \in 1..Len(b)
          BY <5>1
        <5>3. PICK j \in 1..Len(c) : c[j] = b[1]
          BY <2>4, <5>2
        <5> QED
          BY <2>3, <4>2, <5>2, <5>3
      <4> QED
        BY <1>3, <4>1, <4>2
    <3> QED
      BY <2>1, <3>1, <3>2
  <2> QED
    BY <2>1, <2>4, <2>5, <2>6, SessionSent
<1>11. CASE Session!SendFullMessages
  <2> DEFINE a == Session!Full("2Dcur")
             b == Session!Full("2Dobj")
             c == a \o b
  <2>1. /\ net' = net \o c /\ UNCHANGED <<list, pos, touched, update, known, behind>>
    BY <1>11 DEF Session!SendFullMessages, Session!Send, Session!clientVars, Session!serverVars
  <2>2. a \in Seq(R) /\ \A k \in 1..Len(a) : Faithful(a[k], list, pos)
    <3>1. -1 \in Int /\ list["2Dcur"] \in SUBSET list["2Dcur"]
      OBVIOUS
    <3> QED
      BY <1>1, <1>3, <3>1, PacketsFaithful DEF Session!Full
  <2>3. b \in Seq(R) /\ \A k \in 1..Len(b) : Faithful(b[k], list, pos)
    <3>1. -1 \in Int /\ list["2Dobj"] \in SUBSET list["2Dobj"]
      OBVIOUS
    <3> QED
      BY <1>1, <1>3, <3>1, PacketsFaithful DEF Session!Full
  <2> HIDE DEF a, b
  <2>4. /\ c \in Seq(R)
        /\ \A j \in 1..Len(c) : (\E i \in 1..Len(a) : c[j] = a[i])
                                \/ (\E i \in 1..Len(b) : c[j] = b[i])
    <3>1. a \in Seq(R) /\ b \in Seq(R) /\ c = a \o b
      BY <2>2, <2>3
    <3> HIDE DEF R, c
    <3> QED
      BY <3>1, BothSent
  <2> HIDE DEF c
  <2>5. \A j \in 1..Len(c) : Faithful(c[j], list', pos')
    <3>1. \A j \in 1..Len(c) : Faithful(c[j], list, pos)
      BY <2>2, <2>3, <2>4
    <3> QED
      BY <2>1, <3>1
  <2> QED
    BY <2>1, <2>4, <2>5, SessionSent
<1>12. CASE Session!Restart
  <2> DEFINE c == [k \in 1..2 |-> [profile |-> <<"2Dcur", "2Dobj">>[k], alive |-> {},
                                   fseq |-> -1, sets |-> Session!Nothing]]
  <2>1. /\ net' = net \o c /\ UNCHANGED <<known, behind>> /\ list' = [p \in P |-> {}]
    BY <1>12 DEF Session!Restart, Session!Send, Session!clientVars
  <2>2. Session!Nothing \in Session!Views /\ DOMAIN Session!Nothing = {}
    BY DEF Session!Nothing, Session!Views
  <2>3. /\ DOMAIN c = 1..2 /\ c[1].profile = "2Dcur" /\ c[2].profile = "2Dobj"
        /\ \A k \in 1..2 : c[k] \in R /\ c[k].alive = {} /\ DOMAIN c[k].sets = {}
    <3>1. \A k \in 1..2 : k = 1 \/ k = 2
      OBVIOUS
    <3> QED
      BY <1>3, <2>2, <3>1
  <2>4. c \in Seq(R) /\ Len(c) = 2
    <3> HIDE DEF R
    <3> QED
      BY <2>3
  <2> HIDE DEF c
  <2>5. \A j \in 1..Len(c) : Faithful(c[j], list', pos')
    <3>1. \A j \in 1..2 : c[j].profile \in P
      BY <2>3
    <3> QED
      BY <2>1, <2>3, <2>4, <3>1 DEF Faithful
  <2>6. ASSUME NEW p \in P
        PROVE  list'[p] = {} /\ \E k \in 1..Len(c) : c[k].profile = p
    <3>1. list'[p] = {}
      BY <2>1
    <3>2. 1 \in 1..2 /\ 2 \in 1..2
      OBVIOUS
    <3> QED
      BY <1>3, <2>3, <2>4, <3>1, <3>2
  <2> QED
    BY <2>1, <2>4, <2>5, <2>6, SessionSent
<1>13. ASSUME NEW b, Session!SetPeriodic(b) PROVE Session!PacketInv' /\ Session!FollowInv'
  BY <1>5, <1>13 DEF Session!SetPeriodic, Session!clientVars
<1>14. ASSUME NEW k \in DOMAIN net, Session!Lose(k) PROVE Session!PacketInv' /\ Session!FollowInv'
  <2>1. /\ net' = Session!RemoveAt(net, k) /\ behind' = TRUE /\ known' = known
    BY <1>14 DEF Session!Lose
  <2>2. k \in 1..Len(net) /\ \A s, i : Session!RemoveAt(s, i) = Cursors!RemoveAt(s, i)
    BY <1>2 DEF Session!RemoveAt, Cursors!RemoveAt
  <2> HIDE DEF R
  <2>3. /\ net' \in Seq(R) /\ Len(net') = Len(net) - 1 /\ Len(net) \in Nat
        /\ \A i \in 1..(Len(net) - 1) : net'[i] = IF i < k THEN net[i] ELSE net[i + 1]
    <3>1. net \in Seq(R) /\ k \in 1..Len(net) /\ net' = Cursors!RemoveAt(net, k)
      BY <1>2, <2>1, <2>2
    <3>2. Len(net) \in Nat
      BY <3>1
    <3> QED
      BY <3>1, <3>2, Removed
  <2>4. \A i \in 1..Len(net') : \E j \in 1..Len(net) : net'[i] = net[j]
    BY <2>2, <2>3
  <2>5. Session!PacketInv'
    BY <1>1, <2>1, <2>3, <2>4 DEF Session!PacketInv, R
  <2> QED
    BY <2>1, <2>5 DEF Session!FollowInv
<1>15. ASSUME NEW k \in DOMAIN net, Session!Duplicate(k)
       PROVE  Session!PacketInv' /\ Session!FollowInv'
  <2>1. /\ net' = Session!InsertAt(net, k, net[k])
        /\ UNCHANGED <<known, behind, list, pos, touched, update>>
    BY <1>15 DEF Session!Duplicate, Session!serverVars, Session!clientVars
  <2> HIDE DEF R
  <2>2. k \in 1..Len(net)
    BY <1>2
  <2>3. /\ net' \in Seq(R) /\ Len(net') = Len(net) + 1 /\ Len(net) \in Nat
        /\ \A i \in 1..(Len(net) + 1) : net'[i] = IF i <= k THEN net[i] ELSE net[i - 1]
    BY <1>2, <2>1, <2>2, Doubled
  <2>4. \A i \in 1..Len(net') : \E j \in 1..Len(net) : net'[i] = net[j]
    BY <2>2, <2>3
  <2>5. Session!PacketInv'
    BY <1>1, <2>1, <2>3, <2>4 DEF Session!PacketInv, R
  <2>6. \A p \in P, s \in S : /\ Session!WillKnow(p, s) => Session!WillKnow(p, s)'
                              /\ Session!WillForget(p, s) => Session!WillForget(p, s)'
    BY <1>2, <2>1, <2>2, PacketDoubled
  <2> QED
    BY <1>1, <2>1, <2>5, <2>6 DEF Session!FollowInv
<1>16. CASE Session!Delay
  <2>1. net' = Append(Tail(net), Head(net)) /\ Len(net) > 1 /\ behind' = TRUE /\ known' = known
    BY <1>16 DEF Session!Delay
  <2> DEFINE n == Len(net)
  <2> HIDE DEF R
  <2>2. /\ net' \in Seq(R) /\ Len(net') = n /\ n \in Nat /\ n > 1 /\ net'[n] = net[1]
        /\ \A i \in 1..(n - 1) : net'[i] = net[i + 1]
    BY <1>2, <2>1
  <2> HIDE DEF n
  <2>3. \A i \in 1..n : \E j \in 1..n : net'[i] = net[j]
    <3> SUFFICES ASSUME NEW i \in 1..n PROVE \E j \in 1..n : net'[i] = net[j]
      OBVIOUS
    <3>1. CASE i = n
      BY <2>2, <3>1
    <3>2. CASE i # n
      <4>1. i \in 1..(n - 1) /\ i + 1 \in 1..n
        BY <2>2, <3>2
      <4> QED
        BY <2>2, <4>1
    <3> QED
      BY <3>1, <3>2
  <2>4. Session!PacketInv'
    BY <1>1, <2>1, <2>2, <2>3 DEF Session!PacketInv, R, n
  <2> QED
    BY <2>1, <2>4 DEF Session!FollowInv
<1>17. CASE Session!Receive
  <2> DEFINE m == Head(net)
             n == Len(net)
  <2>1. /\ net' = Tail(net) /\ net # <<>> /\ UNCHANGED <<list, pos, touched, update>>
        /\ \/ behind' = TRUE /\ known' = known
           \/ behind' = behind /\ known' = [known EXCEPT ![m.profile] = Session!Applied(@, m)]
    BY <1>17 DEF Session!Receive, Session!serverVars
  <2>2. \A x \in R : x.sets \in Session!Views
    OBVIOUS
  <2> HIDE DEF R
  <2>3. /\ net' \in Seq(R) /\ Len(net') = n - 1 /\ n \in Nat /\ n >= 1 /\ m \in R
        /\ \A i \in 1..(n - 1) : net'[i] = net[i + 1]
    BY <1>2, <2>1
  <2> HIDE DEF n, m
  <2>4. \A i \in 1..(n - 1) : i + 1 \in 1..n
    BY <2>3
  <2>5. known' \in [P -> Session!Views]
    <3>1. m.sets \in Session!Views
      BY <2>2, <2>3
    <3>2. \A old \in Session!Views : Session!Applied(old, m) \in Session!Views
      BY <3>1, AppliedView
    <3> QED
      BY <1>2, <2>1, <3>2
  <2>6. Session!PacketInv'
    BY <1>1, <2>3, <2>4, <2>5 DEF Session!PacketInv, R, n
  <2>7. ASSUME ~behind', NEW p \in P, NEW s \in S
        PROVE  /\ Session!WillKnow(p, s) => Session!WillKnow(p, s)'
               /\ Session!WillForget(p, s) => Session!WillForget(p, s)'
    BY <1>1, <1>17, <2>7, PacketReceived
  <2>8. ~behind' => ~behind
    BY <2>1
  <2> QED
    BY <1>1, <2>1, <2>6, <2>7, <2>8 DEF Session!FollowInv
<1> QED
  BY <1>6, <1>7, <1>8, <1>9, <1>10, <1>11, <1>12, <1>13, <1>14, <1>15, <1>16, <1>17
  DEF Session!Next

\* With everything received and no frame begun, nothing is left to be told.
LEMMA SessionFollows == Session!IndInv => Session!FollowsServer
<1> SUFFICES ASSUME Session!IndInv, ~behind, ~inFrame, net = <<>>, NEW p \in Session!Profiles
             PROVE  known[p] = [s \in list[p] |-> pos[s]]
  BY DEF Session!FollowsServer, Session!InStep
<1>1. /\ list[p] \subseteq Session!Sessions /\ touched = {} /\ ~update[p]
      /\ known[p] \in Session!Views
  BY DEF Session!IndInv, Session!ServerInv, Session!PacketInv
<1>2. Len(net) = 0
  OBVIOUS
<1>3. PICK D \in SUBSET Session!Sessions : known[p] \in [D -> 0..(Positions - 1)]
  BY <1>1 DEF Session!Views
<1>4. ASSUME NEW s \in list[p] PROVE s \in DOMAIN known[p] /\ known[p][s] = pos[s]
  <2>1. Session!WillKnow(p, s)
    BY <1>1 DEF Session!IndInv, Session!FollowInv
  <2> QED
    BY <1>2, <2>1 DEF Session!WillKnow, Session!Right
<1>5. ASSUME NEW s \in Session!Sessions, s \notin list[p] PROVE s \notin DOMAIN known[p]
  <2>1. Session!WillForget(p, s)
    BY <1>1, <1>5 DEF Session!IndInv, Session!FollowInv
  <2> QED
    BY <1>2, <2>1 DEF Session!WillForget
<1>6. D = list[p]
  BY <1>1, <1>3, <1>4, <1>5
<1> QED
  BY <1>3, <1>4, <1>6

\* Server and client agree: the numbers in use and the free ones are the numbers up to the
\* greatest in use and a cursor left alone goes in time (TuioServer.cpp:302, 684), and a
\* client that got every packet in order, some of them twice, has the cursors and objects of
\* the server at their positions, however many sessions a packet holds and however the
\* frames of two profiles share their numbers (TuioClient.cpp:168, TuioServer.cpp:449).
THEOREM ListsSafe == Spec => []ListsAgree
<1> DEFINE I == /\ part = "cursors" => Cursors!IndInv
                /\ part = "session" => Session!IndInv
<1>1. Init => I
  BY CursorsInit, SessionInit DEF Init
<1>2. I /\ [Next]_all => I'
  <2> SUFFICES ASSUME I, [Next]_all PROVE I'
    OBVIOUS
  <2>1. CASE part = "cursors"
    <3>1. part' = "cursors" /\ Cursors!IndInv
      BY <2>1, PartSteps
    <3>2. CASE Cursors!Next
      BY <3>1, <3>2, CursorsStep
    <3>3. CASE UNCHANGED cursorVars
      BY <3>1, <3>3
      DEF cursorVars, Cursors!IndInv, Cursors!CursorTypes, Cursors!NumberInv, Cursors!AgeInv,
          Cursors!Untouched
    <3> QED
      BY <2>1, <3>1, <3>2, <3>3, PartSteps
  <2>2. CASE part = "session"
    <3>1. part' = "session" /\ Session!IndInv
      BY <2>2, PartSteps
    <3>2. CASE Session!Next
      <4>1. Session!ServerInv' /\ Session!PacketInv' /\ Session!FollowInv'
        BY <3>1, <3>2, ServerStep, FollowStep
      <4> QED
        BY <3>1, <4>1 DEF Session!IndInv
    <3>3. CASE UNCHANGED tuioVars
      BY <3>1, <3>3
      DEF tuioVars, Session!IndInv, Session!ServerInv, Session!PacketInv, Session!FollowInv,
          Session!WillKnow, Session!WillForget, Session!Right, Session!Keeps
    <3> QED
      BY <2>2, <3>1, <3>2, <3>3, PartSteps
  <2>3. CASE part \notin {"cursors", "session"}
    BY <2>3, PartSteps
  <2> QED
    BY <2>1, <2>2, <2>3
<1>3. I => ListsAgree
  BY CursorsDense, SessionFollows DEF ListsAgree
<1> QED
  BY <1>1, <1>2, <1>3, PTL DEF Spec, Steps
-----------------------------------------------------------------------------
(* Reading an OSC packet.                                                  *)

\* A recursion along a sequence has a solution.
Recurs(g, A, a, N, G) == g \in [0..N -> A] /\ g[0] = a /\ \A k \in 1..N : g[k] = G[<<g[k - 1], k>>]
LEMMA Recursion ==
  ASSUME NEW A, NEW a \in A, NEW N \in Nat, NEW G \in [A \X (1..N) -> A]
  PROVE  \E g : Recurs(g, A, a, N, G)
<1> DEFINE Solves(g, m) == Recurs(g, A, a, m, G)
           S == {m \in 0..N : ~\E g : Solves(g, m)}
<1>1. S = {}
  <2> SUFFICES ASSUME S # {} PROVE FALSE
    OBVIOUS
  <2>1. S \subseteq Nat
    OBVIOUS
  <2>2. PICK m \in S : \A j \in S : m <= j
    BY <2>1, Least
  <2>3. m \in 0..N /\ m \in Nat /\ ~\E g : Solves(g, m)
    OBVIOUS
  <2>4. m # 0
    <3>1. Solves([k \in 0..0 |-> a], 0)
      BY DEF Recurs
    <3> QED
      BY <2>3, <3>1
  <2>5. m - 1 \in 0..N /\ m - 1 \in Nat /\ m - 1 \notin S
    <3>1. m - 1 \in 0..N /\ m - 1 \in Nat /\ ~(m <= m - 1)
      BY <2>3, <2>4
    <3> HIDE DEF S
    <3> QED
      BY <2>2, <3>1
  <2>6. PICK g : Solves(g, m - 1)
    BY <2>5
  <2> DEFINE h == [k \in 0..m |-> IF k = m THEN G[<<g[m - 1], m>>] ELSE g[k]]
  <2>7. g[m - 1] \in A /\ m \in 1..N
    BY <2>3, <2>4, <2>5, <2>6 DEF Recurs
  <2>8. G[<<g[m - 1], m>>] \in A
    BY <2>7
  <2>9. \A k \in 0..m : k = m \/ k \in 0..(m - 1)
    BY <2>3
  <2>10. h \in [0..m -> A]
    BY <2>6, <2>8, <2>9 DEF Recurs
  <2>11. 0 \in 0..m /\ 0 # m /\ 0 \in 0..(m - 1)
    BY <2>3, <2>4, <2>5
  <2>12. h[0] = a
    BY <2>6, <2>11 DEF Recurs
  <2>13. ASSUME NEW k \in 1..m PROVE h[k] = G[<<h[k - 1], k>>]
    <3>1. k \in 0..m /\ k - 1 \in 0..m /\ k - 1 # m /\ (k = m \/ k \in 1..(m - 1))
      BY <2>3
    <3>2. h[k - 1] = g[k - 1]
      BY <3>1
    <3>3. CASE k = m
      BY <3>1, <3>2, <3>3
    <3>4. CASE k # m
      BY <2>6, <3>1, <3>2, <3>4 DEF Recurs
    <3> QED
      BY <3>3, <3>4
  <2>14. Solves(h, m)
    BY <2>10, <2>12, <2>13 DEF Recurs
  <2> QED
    BY <2>3, <2>14
<1>2. N \in 0..N
  OBVIOUS
<1>3. \E g : Solves(g, N)
  BY <1>1, <1>2
<1> QED
  BY <1>3

\* Padding yields whole words.
LEMMA Words ==
  ASSUME NEW x \in Nat
  PROVE  /\ Osc!RoundUp4(x) \in Nat /\ Osc!RoundUp4(x) % 4 = 0 /\ Osc!RoundUp4(x) >= x
         /\ Osc!RoundUp4(x) < x + 4
  BY DEF Osc!RoundUp4

LEMMA WordSums ==
  ASSUME NEW x \in Nat, NEW y \in Nat, x % 4 = 0, y % 4 = 0
  PROVE  (x + y) % 4 = 0 /\ (y >= x => (y - x) % 4 = 0) /\ (x + 4) % 4 = 0 /\ (x + 16) % 4 = 0
         /\ (x + 20) % 4 = 0
  OBVIOUS

\* FindStr4End finds the padded end of a string that fits.
LEMMA StringEnds ==
  ASSUME NEW p \in Nat, NEW n \in Nat, Osc!RoundUp4(n + 1) <= Capacity
  PROVE  Osc!FindStr4End(p, n) = p + Osc!RoundUp4(n + 1)
<1> DEFINE e == Osc!RoundUp4(n + 1)
           S == {k \in {4 * j : j \in 1..Capacity} : k > n}
<1>1. Capacity \in Nat /\ n + 1 \in Nat
  BY SizesAssumption
<1>2. e \in Nat /\ e % 4 = 0 /\ e >= n + 1 /\ e < n + 1 + 4
  BY <1>1, Words
<1> HIDE DEF e
<1>3. e \in S
  <2>1. e \div 4 \in 1..Capacity /\ e = 4 * (e \div 4)
    BY <1>1, <1>2 DEF e
  <2> QED
    BY <1>2, <2>1
<1>4. \A y \in S : e <= y
  <2> TAKE y \in S
  <2>1. PICK j \in 1..Capacity : y = 4 * j
    OBVIOUS
  <2> QED
    BY <1>2, <2>1
<1>5. \A x \in S : x \in Nat
  BY <1>1
<1> HIDE DEF S
<1>6. Osc!Min(S) \in S /\ \A y \in S : Osc!Min(S) <= y
  BY <1>3, <1>4 DEF Osc!Min
<1>7. Osc!Min(S) = e
  <2> DEFINE m == Osc!Min(S)
  <2>1. m \in S /\ m <= e
    BY <1>3, <1>6
  <2>2. m \in Nat /\ e <= m
    BY <1>4, <1>5, <2>1
  <2> HIDE DEF m
  <2>3. m = e
    BY <1>2, <2>1, <2>2
  <2> QED
    BY <2>3 DEF m
<1> QED
  BY <1>7 DEF Osc!FindStr4End, S, e

LEMMA ArgIs ==
  ASSUME NEW x \in Osc!Args
  PROVE  /\ x.len \in Nat /\ x.tag \in {"T", "i", "d", "s", "b"}
         /\ x.tag = "T" => x.len = 0
         /\ x.tag = "i" => x.len = 4
         /\ x.tag = "d" => x.len = 8
<1>1. CASE x \in [tag : {"T"}, len : {0}]
  BY <1>1
<1>2. CASE x \in [tag : {"i"}, len : {4}]
  BY <1>2
<1>3. CASE x \in [tag : {"d"}, len : {8}]
  BY <1>3
<1>4. CASE x \in [tag : {"s"}, len : StrLens]
  <2>1. x.len \in StrLens /\ x.tag = "s"
    BY <1>4
  <2> QED
    BY <2>1, SizesAssumption
<1>5. CASE x \in [tag : {"b"}, len : BlobSizes]
  <2>1. x.len \in BlobSizes /\ x.tag = "b"
    BY <1>5
  <2> QED
    BY <2>1, SizesAssumption
<1> QED
  BY <1>1, <1>2, <1>3, <1>4, <1>5 DEF Osc!Args

\* The receiver skips what the sender wrote.
LEMMA Skips ==
  ASSUME NEW x \in Osc!Args, NEW p \in Nat, p + Osc!Width(x) <= Capacity
  PROVE  /\ Osc!Advance(p, x) = p + Osc!Width(x)
         /\ Osc!Width(x) \in Nat /\ Osc!Width(x) % 4 = 0
<1>1. /\ x.len \in Nat /\ x.tag \in {"T", "i", "d", "s", "b"}
      /\ x.tag = "T" => x.len = 0
      /\ x.tag = "i" => x.len = 4
      /\ x.tag = "d" => x.len = 8
  BY ArgIs
<1>2. CASE x.tag \in {"T", "i", "d"}
  BY <1>1, <1>2 DEF Osc!Advance, Osc!Width
<1>3. CASE x.tag = "s"
  <2> DEFINE w == Osc!RoundUp4(x.len + 1)
  <2>1. Osc!Width(x) = w /\ Osc!Advance(p, x) = Osc!FindStr4End(p, x.len)
    BY <1>3 DEF Osc!Advance, Osc!Width
  <2>2. w \in Nat /\ w % 4 = 0
    BY <1>1, Words
  <2> HIDE DEF w
  <2>3. w <= Capacity
    BY <2>1, <2>2, SizesAssumption
  <2> QED
    BY <1>1, <2>1, <2>2, <2>3, StringEnds DEF w
<1>4. CASE x.tag = "b"
  <2> DEFINE n == x.len
  <2>1. Osc!Width(x) = 4 + Osc!RoundUp4(n)
    BY <1>4 DEF Osc!Width
  <2>2. Osc!Advance(p, x) = p + 4 + (IF n % 4 = 0 THEN n ELSE n + 4 - (n % 4))
    BY <1>4 DEF Osc!Advance
  <2>3. n \in Nat
    BY <1>1
  <2> HIDE DEF n
  <2>4. Osc!RoundUp4(n) = IF n % 4 = 0 THEN n ELSE n + 4 - (n % 4)
    BY <2>3 DEF Osc!RoundUp4
  <2>5. Osc!RoundUp4(n) \in Nat /\ Osc!RoundUp4(n) % 4 = 0
    BY <2>3, Words
  <2>6. p + 4 + Osc!RoundUp4(n) = p + (4 + Osc!RoundUp4(n)) /\ (4 + Osc!RoundUp4(n)) % 4 = 0
    BY <2>5
  <2> QED
    BY <2>1, <2>2, <2>4, <2>5, <2>6
<1> QED
  BY <1>1, <1>2, <1>3, <1>4

\* The arguments of a message in the buffer: none, one more, and all of them moved.
LEMMA NoArguments ==
  ASSUME NEW p \in Nat
  PROVE  Osc!ArgsLie(<<>>, p, p)
<1> DEFINE g == [k \in 0..0 |-> p]
<1>1. Len(<<>>) = 0
  OBVIOUS
<1>2. g \in [0..Len(<<>>) -> Nat] /\ g[0] = p /\ g[Len(<<>>)] = p
  BY <1>1
<1>3. \A k \in 1..Len(<<>>) : g[k] = g[k - 1] + Osc!Width(<<>>[k]) /\ g[k] <= p
  BY <1>1
<1> QED
  BY <1>2, <1>3 DEF Osc!ArgsLie

LEMMA OneArgument ==
  ASSUME NEW xs \in Seq(Osc!Args), NEW x \in Osc!Args, NEW p \in Nat, NEW q \in Nat,
         Osc!ArgsLie(xs, p, q)
  PROVE  Osc!ArgsLie(Append(xs, x), p, q + Osc!Width(x))
<1> DEFINE n == Len(xs)
           ys == Append(xs, x)
           z == q + Osc!Width(x)
<1>1. /\ n \in Nat /\ Len(ys) = n + 1 /\ ys[n + 1] = x
      /\ \A k \in 1..n : ys[k] = xs[k]
  BY AppendProperties
<1>2. z \in Nat /\ z >= q
  BY WidthType
<1>3. PICK g \in [0..n -> Nat] :
        /\ g[0] = p /\ g[n] = q
        /\ \A k \in 1..n : g[k] = g[k - 1] + Osc!Width(xs[k]) /\ g[k] <= q
  BY DEF Osc!ArgsLie
<1> DEFINE h == [k \in 0..(n + 1) |-> IF k = n + 1 THEN z ELSE g[k]]
<1> HIDE DEF n, ys
<1>4. h \in [0..Len(ys) -> Nat]
  <2>1. ASSUME NEW k \in 0..(n + 1) PROVE (IF k = n + 1 THEN z ELSE g[k]) \in Nat
    <3>1. CASE k = n + 1
      BY <1>2, <3>1
    <3>2. CASE k # n + 1
      <4>1. k \in 0..n
        BY <1>1, <3>2
      <4> HIDE DEF z
      <4> QED
        BY <1>3, <3>2, <4>1
    <3> QED
      BY <3>1, <3>2
  <2> QED
    BY <1>1, <2>1
<1>5. h[0] = p /\ h[Len(ys)] = z
  <2>1. 0 \in 0..(n + 1) /\ n + 1 \in 0..(n + 1) /\ 0 # n + 1
    BY <1>1
  <2> QED
    BY <1>1, <1>3, <2>1
<1>6. ASSUME NEW k \in 1..Len(ys) PROVE h[k] = h[k - 1] + Osc!Width(ys[k]) /\ h[k] <= z
  <2>1. k \in 0..(n + 1) /\ k - 1 \in 0..(n + 1) /\ k - 1 # n + 1
    BY <1>1
  <2>2. CASE k = n + 1
    <3>1. h[k] = z /\ h[k - 1] = g[n]
      BY <1>1, <2>1, <2>2
    <3>2. z <= z /\ ys[k] = x
      BY <1>1, <1>2, <2>2
    <3> QED
      BY <1>3, <3>1, <3>2
  <2>3. CASE k # n + 1
    <3>1. k \in 1..n /\ h[k] = g[k] /\ h[k - 1] = g[k - 1]
      BY <1>1, <2>1, <2>3
    <3>2. g[k] = g[k - 1] + Osc!Width(ys[k]) /\ g[k] <= q /\ g[k] \in Nat
      BY <1>1, <1>3, <3>1
    <3> QED
      BY <1>2, <3>1, <3>2
  <2> QED
    BY <2>2, <2>3
<1> HIDE DEF h, z
<1>7. Osc!ArgsLie(ys, p, z)
  BY <1>4, <1>5, <1>6 DEF Osc!ArgsLie
<1> QED
  BY <1>7 DEF ys, z

LEMMA MovedArguments ==
  ASSUME NEW xs \in Seq(Osc!Args), NEW p \in Nat, NEW q \in Nat, NEW d \in Nat,
         Osc!ArgsLie(xs, p, q)
  PROVE  Osc!ArgsLie(xs, p + d, q + d)
<1> DEFINE n == Len(xs)
<1>1. PICK g \in [0..n -> Nat] :
        /\ g[0] = p /\ g[n] = q
        /\ \A k \in 1..n : g[k] = g[k - 1] + Osc!Width(xs[k]) /\ g[k] <= q
  BY DEF Osc!ArgsLie
<1> DEFINE h == [k \in 0..n |-> g[k] + d]
<1>2. n \in Nat /\ h \in [0..n -> Nat] /\ h[0] = p + d /\ h[n] = q + d
  BY <1>1
<1>3. ASSUME NEW k \in 1..n PROVE h[k] = h[k - 1] + Osc!Width(xs[k]) /\ h[k] <= q + d
  <2>1. /\ k \in 0..n /\ k - 1 \in 0..n
        /\ g[k] \in Nat /\ g[k - 1] \in Nat /\ g[k] <= q /\ g[k] = g[k - 1] + Osc!Width(xs[k])
    BY <1>1, SMTT(30)
  <2>2. Osc!Width(xs[k]) \in Nat
    BY WidthType
  <2> DEFINE w == Osc!Width(xs[k])
  <2>3. h[k] = g[k] + d /\ h[k - 1] = g[k - 1] + d
    BY <2>1
  <2> HIDE DEF w, h
  <2>4. h[k] = h[k - 1] + w /\ h[k] <= q + d
    BY <2>1, <2>2, <2>3 DEF w
  <2> QED
    BY <2>4 DEF w
<1> HIDE DEF h
<1> QED
  BY <1>2, <1>3 DEF Osc!ArgsLie

\* Arguments end no earlier than they begin.
LEMMA ArgumentsForward ==
  ASSUME NEW xs \in Seq(Osc!Args), NEW p \in Nat, NEW q \in Nat, Osc!ArgsLie(xs, p, q)
  PROVE  p <= q
<1> DEFINE n == Len(xs)
<1>1. PICK g \in [0..n -> Nat] :
        /\ g[0] = p /\ g[n] = q
        /\ \A k \in 1..n : g[k] = g[k - 1] + Osc!Width(xs[k]) /\ g[k] <= q
  BY DEF Osc!ArgsLie
<1>2. CASE n = 0
  BY <1>1, <1>2
<1>3. CASE n # 0
  <2>1. 1 \in 1..n /\ xs[1] \in Osc!Args /\ 1 - 1 = 0 /\ 1 \in 0..n
    BY <1>3
  <2>2. Osc!Width(xs[1]) \in Nat
    BY <2>1, WidthType
  <2>3. g[1] = p + Osc!Width(xs[1]) /\ g[1] <= q /\ g[1] \in Nat
    BY <1>1, <2>1
  <2> QED
    BY <2>2, <2>3
<1> QED
  BY <1>2, <1>3

\* The receiver reaches the end of the arguments.
LEMMA ArgumentsEnd ==
  ASSUME NEW xs \in Seq(Osc!Args), NEW p \in Nat, NEW q \in Nat, q <= Capacity,
         Osc!ArgsLie(xs, p, q),
         NEW f, f = CHOOSE h : h = [k \in 0..Len(xs) |->
                                      IF k = 0 THEN p ELSE Osc!Advance(h[k - 1], xs[k])]
  PROVE  f[Len(xs)] = q
<1> DEFINE n == Len(xs)
           Eq(h) == h = [k \in 0..n |-> IF k = 0 THEN p ELSE Osc!Advance(h[k - 1], xs[k])]
<1>1. PICK g \in [0..n -> Nat] :
        /\ g[0] = p /\ g[n] = q
        /\ \A k \in 1..n : g[k] = g[k - 1] + Osc!Width(xs[k]) /\ g[k] <= q
  BY DEF Osc!ArgsLie
<1>2. n \in Nat /\ Capacity \in Nat
  BY SizesAssumption
<1>3. ASSUME NEW k \in 0..n
      PROVE  g[k] = IF k = 0 THEN p ELSE Osc!Advance(g[k - 1], xs[k])
  <2>1. CASE k = 0
    BY <1>1, <2>1
  <2>2. CASE k # 0
    <3>1. k \in 1..n /\ k - 1 \in 0..n
      BY <2>2
    <3>2. /\ g[k - 1] \in Nat /\ xs[k] \in Osc!Args
          /\ g[k] = g[k - 1] + Osc!Width(xs[k]) /\ g[k] <= q /\ g[k] \in Nat
      BY <1>1, <3>1
    <3>3. g[k - 1] + Osc!Width(xs[k]) <= Capacity
      BY <1>2, <3>2
    <3>4. Osc!Advance(g[k - 1], xs[k]) = g[k]
      BY <3>2, <3>3, Skips
    <3> QED
      BY <2>2, <3>4
  <2> QED
    BY <2>1, <2>2
<1>4. Eq(g)
  BY <1>1, <1>3
<1>5. Eq(f)
  BY <1>4, Zenon
<1> DEFINE S == {k \in 0..n : f[k] # g[k]}
<1>6. S = {}
  <2> SUFFICES ASSUME S # {} PROVE FALSE
    OBVIOUS
  <2>1. PICK m \in S : \A j \in S : m <= j
    <3>1. S \subseteq Nat
      OBVIOUS
    <3> HIDE DEF S
    <3> QED
      BY <3>1, Least
  <2>2. m \in 0..n /\ f[m] # g[m] /\ m \in Nat
    OBVIOUS
  <2>3. m # 0
    BY <1>1, <1>5, <2>2
  <2>4. m - 1 \in 0..n /\ m - 1 \notin S
    <3>1. m - 1 \in 0..n /\ ~(m <= m - 1)
      BY <2>2, <2>3
    <3> HIDE DEF S
    <3> QED
      BY <2>1, <3>1
  <2>5. f[m - 1] = g[m - 1]
    BY <2>4
  <2>6. f[m] = Osc!Advance(f[m - 1], xs[m])
    BY <1>5, <2>2, <2>3
  <2>7. g[m] = Osc!Advance(g[m - 1], xs[m])
    BY <1>3, <2>2, <2>3
  <2> QED
    BY <2>2, <2>5, <2>6, <2>7
<1>7. n \in 0..n /\ n \notin S
  BY <1>2, <1>6
<1> QED
  BY <1>1, <1>7

\* A message that lies in the buffer is read as it was written.
LEMMA MessageRead ==
  ASSUME NEW m, NEW p \in Nat, NEW q \in Nat, Osc!MessageLies(content, m, p, q)
  PROVE  Osc!ReadMessage(p, q - p) = m /\ q > p /\ Osc!ContentAt(p) # <<"bundle">>
<1> DEFINE a == m[1]
           xs == m[2]
           n == Len(xs)
           u == Osc!RoundUp4(a + 1)
           t == Osc!TagSlot(n)
           begin == p + u
           first == begin + t
           f == CHOOSE h : h = [k \in 0..n |->
                                  IF k = 0 THEN first ELSE Osc!Advance(h[k - 1], xs[k])]
<1>1. /\ m \in Nat \X Seq(Osc!Args) /\ p \in DOMAIN content
      /\ content[p] = <<"message", a, xs>> /\ Osc!ArgsLie(xs, first, q)
      /\ q <= Capacity /\ (q - p) % 4 = 0
  BY DEF Osc!MessageLies, Osc!Messages
<1>2. a \in Nat /\ xs \in Seq(Osc!Args) /\ m = <<a, xs>> /\ Capacity \in Nat
  BY <1>1, SizesAssumption
<1>3. n \in Nat /\ a + 1 \in Nat /\ n + 2 \in Nat
  BY <1>2
<1>4. u \in Nat /\ u >= a + 1 /\ t \in Nat /\ t >= n + 2
  BY <1>3, Words DEF Osc!TagSlot
<1>5. Osc!ContentAt(p) = <<"message", a, xs>>
  BY <1>1 DEF Osc!ContentAt, Osc!At
<1>6. Osc!ContentAt(p)[2] = a /\ Osc!ContentAt(p)[3] = xs /\ Osc!ContentAt(p) # <<"bundle">>
  BY <1>5
<1> HIDE DEF u, t
<1>7. q >= first
  <2> DEFINE z == first
  <2>1. z \in Nat /\ q \in Nat /\ Osc!ArgsLie(xs, z, q)
    BY <1>1, <1>4
  <2> HIDE DEF z, xs
  <2>2. z <= q
    BY <1>2, <2>1, ArgumentsForward
  <2> QED
    BY <2>1, <2>2 DEF z
<1>8. Osc!FindStr4End(p, a) = begin
  <2>1. u <= Capacity
    BY <1>1, <1>2, <1>4, <1>7
  <2> QED
    BY <1>2, <2>1, StringEnds DEF u
<1>9. Osc!FindStr4End(begin, n + 1) = first
  <2>1. t <= Capacity /\ begin \in Nat /\ n + 1 \in Nat
    BY <1>1, <1>2, <1>3, <1>4, <1>7
  <2>2. t = Osc!RoundUp4(n + 1 + 1)
    <3>1. n + 1 + 1 = n + 2
      BY <1>3
    <3> QED
      BY <3>1 DEF t, Osc!TagSlot
  <2> QED
    BY <2>1, <2>2, StringEnds
<1>10. first \in Nat
  BY <1>4
<1>11. f[n] = q
  <2> HIDE DEF first
  <2>1. Osc!ArgsLie(xs, first, q)
    BY <1>1
  <2> HIDE DEF xs
  <2> QED
    BY <1>1, <1>2, <1>10, <2>1, ArgumentsEnd
<1>12. p + (q - p) = q /\ q - p > 0 /\ q > p /\ begin < q /\ begin # q
  BY <1>4, <1>7
<1> HIDE DEF begin, first
<1>13. Osc!ReadMessage(p, q - p) =
         IF q - p = 0 \/ (q - p) % 4 # 0 \/ begin > q THEN <<"malformed">>
         ELSE IF begin = q \/ xs = <<>> THEN <<a, <<>>>>
         ELSE IF first > q \/ f[n] > q THEN <<"malformed">> ELSE <<a, xs>>
  BY <1>6, <1>8, <1>9, <1>12 DEF Osc!ReadMessage
<1> HIDE DEF f
<1>14. begin \in Nat /\ first \in Nat
  BY <1>4, <1>10 DEF begin
<1>15. ~(q - p = 0) /\ ~((q - p) % 4 # 0) /\ ~(begin > q) /\ ~(begin = q)
       /\ ~(first > q) /\ ~(f[n] > q)
  BY <1>1, <1>7, <1>11, <1>12, <1>14
<1>16. Osc!ReadMessage(p, q - p) = <<a, xs>>
  <2> HIDE DEF a, xs, n
  <2>1. CASE xs = <<>>
    BY <1>13, <1>15, <2>1
  <2>2. CASE xs # <<>>
    BY <1>13, <1>15, <2>2
  <2> QED
    BY <2>1, <2>2
<1> QED
  BY <1>2, <1>6, <1>12, <1>16

\* Where the receiver goes from an offset, until it passes the end
Onward(w, end) ==
  [p \in Nat |-> IF p >= end THEN <<p>> ELSE <<p>> \o w[p + 4 + Osc!SlotAt(p)]]

\* Every step takes it further, so that there is such a walk.
LEMMA Walks ==
  ASSUME NEW end \in Nat, \A p \in Nat : Osc!SlotAt(p) \in Nat
  PROVE  \E w : w = Onward(w, end)
<1> DEFINE A == [Nat -> Seq(Nat)]
           a == [p \in Nat |-> <<p>>]
           N == end + 1
           G == [x \in A \X (1..N) |-> Onward(x[1], end)]
<1>1. \A p \in Nat : p + 4 + Osc!SlotAt(p) \in Nat /\ p + 4 + Osc!SlotAt(p) > p
  OBVIOUS
<1>2. \A w \in A : Onward(w, end) \in A
  <2> TAKE w \in A
  <2>1. ASSUME NEW p \in Nat
        PROVE (IF p >= end THEN <<p>> ELSE <<p>> \o w[p + 4 + Osc!SlotAt(p)]) \in Seq(Nat)
    <3> DEFINE r == w[p + 4 + Osc!SlotAt(p)]
    <3>1. r \in Seq(Nat)
      BY <1>1
    <3>2. <<p>> \in Seq(Nat)
      OBVIOUS
    <3> HIDE DEF r
    <3>3. <<p>> \o r \in Seq(Nat)
      BY <3>1, <3>2
    <3> QED
      BY <3>2, <3>3 DEF r
  <2> QED
    BY <2>1 DEF Onward
<1>3. a \in A
  OBVIOUS
<1>4. N \in Nat /\ N \in 1..N /\ N - 1 = end /\ N - 1 \in 0..N
  OBVIOUS
<1> HIDE DEF A
<1>5. G \in [A \X (1..N) -> A]
  <2>1. ASSUME NEW x \in A \X (1..N) PROVE Onward(x[1], end) \in A
    BY <1>2
  <2> QED
    BY <2>1
<1>6. \A w \in A, k \in 1..N : G[<<w, k>>] = Onward(w, end)
  OBVIOUS
<1> HIDE DEF G, N
<1>7. PICK F : Recurs(F, A, a, N, G)
  BY <1>3, <1>4, <1>5, Recursion
<1>8. F \in [0..N -> A] /\ F[0] = a /\ \A k \in 1..N : F[k] = Onward(F[k - 1], end)
  <2>1. F \in [0..N -> A] /\ F[0] = a /\ \A k \in 1..N : F[k] = G[<<F[k - 1], k>>]
    BY <1>7 DEF Recurs
  <2>2. \A k \in 1..N : F[k - 1] \in A
    BY <1>4, <2>1
  <2> QED
    BY <1>6, <2>1, <2>2
<1> DEFINE Same(k) == \A p \in Nat : k + p > end => F[k][p] = F[k - 1][p]
           S == {k \in 1..N : ~Same(k)}
<1>9. \A k \in 1..N : \A p \in Nat :
        F[k][p] = IF p >= end THEN <<p>> ELSE <<p>> \o F[k - 1][p + 4 + Osc!SlotAt(p)]
  BY <1>8 DEF Onward
<1>10. S = {}
  <2> SUFFICES ASSUME S # {} PROVE FALSE
    OBVIOUS
  <2>1. PICK m \in S : \A j \in S : m <= j
    <3>1. S \subseteq Nat
      BY <1>4
    <3> HIDE DEF S
    <3> QED
      BY <3>1, Least
  <2>2. m \in 1..N /\ ~Same(m) /\ m \in Nat /\ m >= 1
    BY <1>4
  <2>3. PICK p \in Nat : m + p > end /\ F[m][p] # F[m - 1][p]
    BY <2>2
  <2>4. CASE p >= end
    <3>1. F[m][p] = <<p>>
      BY <1>9, <2>2, <2>4
    <3>2. CASE m = 1
      <4>1. F[m - 1] = a
        BY <1>8, <3>2
      <4> QED
        BY <2>3, <3>1, <4>1
    <3>3. CASE m # 1
      <4>1. m - 1 \in 1..N
        BY <1>4, <2>2, <3>3
      <4>2. F[m - 1][p] = <<p>>
        BY <1>9, <2>4, <4>1
      <4> QED
        BY <2>3, <3>1, <4>2
    <3> QED
      BY <3>2, <3>3
  <2>5. CASE ~(p >= end)
    <3>1. m # 1 /\ m - 1 \in 1..N /\ ~(m <= m - 1)
      BY <1>4, <2>2, <2>3, <2>5
    <3>2. m - 1 \notin S
      <4> HIDE DEF S
      <4> QED
        BY <2>1, <3>1
    <3>3. Same(m - 1)
      BY <3>1, <3>2
    <3> DEFINE z == p + 4 + Osc!SlotAt(p)
    <3>4. z \in Nat /\ z > p
      BY <1>1
    <3> HIDE DEF z
    <3>5. m - 1 + z > end
      BY <2>2, <2>3, <3>4
    <3>6. F[m - 1][z] = F[m - 1 - 1][z]
      BY <3>3, <3>4, <3>5
    <3>7. F[m][p] = <<p>> \o F[m - 1][z]
      BY <1>9, <2>2, <2>5 DEF z
    <3>8. F[m - 1][p] = <<p>> \o F[m - 1 - 1][z]
      BY <1>9, <2>5, <3>1 DEF z
    <3> QED
      BY <2>3, <3>6, <3>7, <3>8
  <2> QED
    BY <2>4, <2>5
<1>11. Same(N)
  BY <1>4, <1>10
<1>12. F[N] = F[N - 1]
  <2>1. F[N] \in A /\ F[N - 1] \in A
    BY <1>4, <1>8
  <2>2. \A p \in Nat : F[N][p] = F[N - 1][p]
    <3> TAKE p \in Nat
    <3>1. N + p > end
      BY DEF N
    <3> QED
      BY <1>11, <3>1
  <2> DEFINE u == F[N]
             v == F[N - 1]
  <2>3. u \in [Nat -> Seq(Nat)] /\ v \in [Nat -> Seq(Nat)] /\ \A p \in Nat : u[p] = v[p]
    BY <2>1, <2>2 DEF A
  <2> HIDE DEF u, v
  <2>4. u = v
    BY <2>3
  <2> QED
    BY <2>4 DEF u, v
<1>13. F[N] = Onward(F[N - 1], end)
  BY <1>4, <1>8
<1> QED
  BY <1>12, <1>13

\* The slots hold sizes.
Sized == slot \in [DOMAIN slot -> Nat]

\* The receiver finds the elements where they begin.
LEMMA ElementsFound ==
  ASSUME NEW n \in Nat, NEW p \in Nat, NEW q \in Nat, Sized,
         NEW at, Osc!Follow(slot, at, n, p, q)
  PROVE  /\ Osc!Elements(p, q) = at /\ at \in Seq(Nat) /\ Len(at) = n + 1
         /\ \A k \in 1..n : Osc!SlotAt(at[k]) = slot[at[k]]
<1> DEFINE W == CHOOSE h : h = [x \in Nat |->
                    IF x >= q THEN <<x>> ELSE <<x>> \o h[x + 4 + Osc!SlotAt(x)]]
<1>1. \A x \in Nat : Osc!SlotAt(x) \in Nat
  BY DEF Osc!SlotAt, Osc!At, Sized
<1>2. W = [x \in Nat |-> IF x >= q THEN <<x>> ELSE <<x>> \o W[x + 4 + Osc!SlotAt(x)]]
  <2>1. \E h : h = [x \in Nat |->
                    IF x >= q THEN <<x>> ELSE <<x>> \o h[x + 4 + Osc!SlotAt(x)]]
    BY <1>1, Walks DEF Onward
  <2> QED
    BY <2>1, Zenon
<1>3. Osc!Elements(p, q) = W[p]
  BY DEF Osc!Elements
<1> HIDE DEF W
<1>4. /\ at \in [1..(n + 1) -> Nat] /\ at[1] = p /\ at[n + 1] = q
      /\ \A k \in 1..n : /\ at[k] \in DOMAIN slot /\ at[k + 1] = at[k] + 4 + slot[at[k]]
                         /\ at[k] + 4 < q /\ at[k + 1] <= q
  BY DEF Osc!Follow, Sized
<1>5. \A k \in 1..n : Osc!SlotAt(at[k]) = slot[at[k]]
  BY <1>4 DEF Osc!SlotAt, Osc!At
<1>6. at \in Seq(Nat) /\ Len(at) = n + 1
  <2> DEFINE l == n + 1
  <2>1. l \in Nat /\ at \in [1..l -> Nat]
    BY <1>4
  <2> HIDE DEF l
  <2>2. at \in Seq(Nat) /\ Len(at) = l
    BY <2>1
  <2> QED
    BY <2>2 DEF l
<1> DEFINE Tail_(j) == [i \in 1..(j + 1) |-> at[n - j + i]]
           S == {j \in 0..n : W[at[n + 1 - j]] # Tail_(j)}
<1>7. S = {}
  <2> SUFFICES ASSUME S # {} PROVE FALSE
    OBVIOUS
  <2>1. PICK j \in S : \A i \in S : j <= i
    <3>1. S \subseteq Nat
      OBVIOUS
    <3> HIDE DEF S
    <3> QED
      BY <3>1, Least
  <2>2. j \in 0..n /\ W[at[n + 1 - j]] # Tail_(j) /\ j \in Nat
    OBVIOUS
  <2> HIDE DEF S
  <2>3. CASE j = 0
    <3>1. W[q] = <<q>>
      BY <1>2
    <3>2. n + 1 - j = n + 1 /\ j + 1 = 1 /\ n - j + 1 = n + 1
      BY <2>3
    <3>3. Tail_(j) = [i \in 1..1 |-> at[n - j + i]]
      BY <3>2
    <3>4. Tail_(j) = <<q>>
      BY <1>4, <3>2, <3>3
    <3> QED
      BY <1>4, <2>2, <3>1, <3>2, <3>4
  <2>4. CASE j # 0
    <3> DEFINE k == n + 1 - j
               i0 == j - 1
    <3>1. k \in 1..n /\ i0 \in 0..n /\ n + 1 - i0 = k + 1 /\ ~(j <= i0)
          /\ n - j + 1 = k /\ n - i0 = k /\ i0 + 1 = j /\ k + j = n + 1
      BY <2>2, <2>4
    <3>2. i0 \notin S
      <4> HIDE DEF i0
      <4> QED
        BY <2>1, <3>1
    <3>3. W[at[k + 1]] = Tail_(i0)
      BY <3>1, <3>2 DEF S
    <3> HIDE DEF k, i0
    <3> DEFINE x == at[k]
               y == at[k + 1]
    <3>4. x \in Nat /\ ~(x >= q) /\ y = x + 4 + Osc!SlotAt(x)
      <4>1. k \in 1..n /\ k \in 1..(n + 1)
        BY <3>1
      <4>2. x \in Nat /\ x + 4 < q
        BY <1>4, <4>1
      <4>3. y = x + 4 + slot[x] /\ Osc!SlotAt(x) = slot[x]
        BY <1>4, <1>5, <4>1
      <4> QED
        BY <4>2, <4>3
    <3>5. W[at[k]] = <<at[k]>> \o Tail_(i0)
      <4> HIDE DEF x, y
      <4>1. W[x] = <<x>> \o W[x + 4 + Osc!SlotAt(x)]
        BY <1>2, <3>4
      <4>2. W[x] = <<x>> \o W[y]
        BY <3>4, <4>1
      <4> QED
        BY <3>3, <4>2 DEF x, y
    <3>6. Tail_(i0) = [i \in 1..j |-> at[k + i]]
      BY <3>1
    <3>7. Tail_(i0) \in Seq(Nat) /\ Len(Tail_(i0)) = j
      <4>1. ASSUME NEW i \in 1..j PROVE at[k + i] \in Nat
        <5>1. k + i \in 1..(n + 1)
          <6>1. j \in Nat
            BY <2>2
          <6>2. i \in Nat /\ 1 <= i /\ i <= j
            BY <6>1
          <6> QED
            BY <3>1, <6>1, <6>2
        <5> QED
          BY <1>4, <5>1
      <4> DEFINE t == [i \in 1..j |-> at[k + i]]
      <4>2. t \in [1..j -> Nat]
        BY <4>1
      <4> HIDE DEF t
      <4>3. t \in Seq(Nat) /\ Len(t) = j
        <5>1. j \in Nat
          BY <2>2
        <5> QED
          BY <4>2, <5>1
      <4> QED
        BY <3>6, <4>3 DEF t
    <3>8. Tail_(j) = <<at[k]>> \o [i \in 1..j |-> at[k + i]]
      <4> DEFINE r == [i \in 1..j |-> at[k + i]]
                 c == <<at[k]>> \o r
      <4>1. r \in Seq(Nat) /\ Len(r) = j /\ <<at[k]>> \in Seq(Nat) /\ Len(<<at[k]>>) = 1
        <5>1. r \in Seq(Nat) /\ Len(r) = j
          BY <3>6, <3>7
        <5> HIDE DEF r
        <5> QED
          BY <3>4, <5>1
      <4>2. c \in Seq(Nat) /\ Len(c) = j + 1 /\ DOMAIN c = 1..(j + 1)
        BY <2>2, <4>1
      <4>3. ASSUME NEW i \in 1..(j + 1) PROVE c[i] = at[n - j + i]
        <5>1. CASE i = 1
          <6>1. c[1] = at[k]
            BY <4>1
          <6> QED
            BY <3>1, <5>1, <6>1
        <5>2. CASE i # 1
          <6>1. i - 1 \in 1..j /\ k + (i - 1) = n - j + i
            <7> HIDE DEF k
            <7>1. j \in Nat /\ k \in 1..n /\ n - j + 1 = k
              BY <2>2, <3>1
            <7> QED
              BY <5>2, <7>1
          <6>2. c[i] = r[i - 1]
            BY <2>2, <4>1, <5>2
          <6> QED
            BY <6>1, <6>2
        <5> QED
          BY <5>1, <5>2
      <4> HIDE DEF c
      <4>4. c = [i \in 1..(j + 1) |-> at[n - j + i]]
        BY <4>2, <4>3
      <4> QED
        BY <4>4 DEF c
    <3>9. W[at[k]] = Tail_(j)
      BY <3>5, <3>6, <3>8
    <3> QED
      BY <2>2, <3>9 DEF k
  <2> QED
    BY <2>3, <2>4
<1>8. n \in 0..n /\ n + 1 - n = 1
  OBVIOUS
<1>9. W[p] = Tail_(n)
  BY <1>4, <1>7, <1>8
<1>10. Tail_(n) = at
  <2>1. \A i \in 1..(n + 1) : n - n + i = i
    OBVIOUS
  <2> QED
    BY <1>4, <2>1
<1> QED
  BY <1>3, <1>5, <1>6, <1>9, <1>10

\* The receiver finds the elements of a bundle with their sizes.
LEMMA PartsFound ==
  ASSUME NEW n \in Nat, NEW p \in Nat, NEW q \in Nat, Sized,
         q >= p + 16, (q - p) % 4 = 0, NEW at, Osc!Follow(slot, at, n, p + 16, q),
         \A k \in 1..n : (at[k + 1] - (at[k] + 4)) % 4 = 0
  PROVE  /\ ~Osc!MalformedBundle(p, q - p)
         /\ Osc!Parts(p, q - p) = [k \in 1..n |-> <<at[k] + 4, at[k + 1] - (at[k] + 4)>>]
         /\ \A k \in 1..n : at[k] + 4 \in Nat /\ at[k + 1] \in Nat
<1> DEFINE E == Osc!Elements(p + 16, q)
<1>1. /\ E = at /\ Len(E) = n + 1
      /\ \A k \in 1..n : Osc!SlotAt(at[k]) = slot[at[k]]
  <2> DEFINE b == p + 16
  <2>1. b \in Nat /\ Osc!Follow(slot, at, n, b, q)
    OBVIOUS
  <2> HIDE DEF b
  <2>2. /\ Osc!Elements(b, q) = at /\ Len(at) = n + 1
        /\ \A k \in 1..n : Osc!SlotAt(at[k]) = slot[at[k]]
    BY <2>1, ElementsFound
  <2> QED
    BY <2>2 DEF b
<1>2. /\ at \in [1..(n + 1) -> Nat] /\ at[n + 1] = q
      /\ \A k \in 1..n : at[k] \in DOMAIN slot /\ at[k + 1] = at[k] + 4 + slot[at[k]]
  BY DEF Osc!Follow, Sized
<1> HIDE DEF E
<1>3. p + (q - p) = q /\ q - p \in Nat /\ ~(q - p < 16)
  OBVIOUS
<1>4. Osc!Parts(p, q - p) = [k \in 1..(Len(E) - 1) |-> <<E[k] + 4, Osc!SlotAt(E[k])>>]
  <2>1. Osc!Elements(p + 16, p + (q - p)) = E
    BY <1>3 DEF E
  <2> QED
    BY <2>1 DEF Osc!Parts
<1>5. n + 1 - 1 = n
  OBVIOUS
<1>6. Osc!Parts(p, q - p) = [k \in 1..n |-> <<at[k] + 4, Osc!SlotAt(at[k])>>]
  <2>1. Len(E) - 1 = n
    BY <1>1, <1>5
  <2> QED
    BY <1>1, <1>4, <2>1, Zenon
<1>7. ASSUME NEW k \in 1..n
      PROVE  /\ Osc!SlotAt(at[k]) = at[k + 1] - (at[k] + 4)
             /\ at[k] + 4 \in Nat /\ at[k + 1] \in Nat
  <2> DEFINE x == at[k]
             y == at[k + 1]
             s == slot[x]
  <2>1. x \in Nat /\ y \in Nat /\ s \in Nat /\ y = x + 4 + s /\ Osc!SlotAt(x) = s
    <3>1. k \in 1..(n + 1) /\ k + 1 \in 1..(n + 1)
      OBVIOUS
    <3>2. x \in Nat /\ y \in Nat /\ x \in DOMAIN slot /\ y = x + 4 + s
      BY <1>2, <3>1
    <3>3. s \in Nat
      BY <3>2 DEF Sized
    <3> QED
      BY <1>1, <3>2, <3>3
  <2> HIDE DEF x, y, s
  <2>2. s = y - (x + 4) /\ x + 4 \in Nat
    BY <2>1
  <2> QED
    BY <2>1, <2>2 DEF x, y
<1>8. ~Osc!MalformedBundle(p, q - p)
  <2>1. Osc!Last(E) = q
    BY <1>1, <1>2 DEF Osc!Last
  <2>2. Osc!Elements(p + 16, p + (q - p)) = E
    BY <1>3 DEF E
  <2> DEFINE P == Osc!Parts(p, q - p)
             s == q - p
  <2>3. DOMAIN P = 1..n /\ \A k \in 1..n : P[k] = <<at[k] + 4, at[k + 1] - (at[k] + 4)>>
    BY <1>6, <1>7
  <2> HIDE DEF P
  <2>4. \A k \in DOMAIN P : P[k][2] % 4 = 0
    <3> TAKE k \in DOMAIN P
    <3>1. k \in 1..n /\ P[k][2] = at[k + 1] - (at[k] + 4)
      BY <2>3
    <3> QED
      BY <3>1
  <2>5. p + s = q /\ ~(s < 16) /\ s % 4 = 0
    BY <1>3
  <2> HIDE DEF s
  <2>6. ~(\E k \in DOMAIN Osc!Parts(p, s) : Osc!Parts(p, s)[k][2] % 4 # 0)
    BY <2>4 DEF P, s
  <2>7. Osc!Last(Osc!Elements(p + 16, p + s)) = p + s
    BY <2>1, <2>2, <2>5 DEF s
  <2>8. ~Osc!MalformedBundle(p, s)
    BY <2>5, <2>6, <2>7 DEF Osc!MalformedBundle
  <2> QED
    BY <2>8 DEF s
<1> QED
  BY <1>6, <1>7, <1>8

\* The messages of a bundle inside the packet's are read in their order.
LEMMA BundleRead ==
  ASSUME NEW ms \in Seq(Osc!Messages), NEW p \in Nat, NEW q \in Nat,
         Sized, Osc!BundleLies(slot, content, ms, p, q)
  PROVE  Osc!ReadElement(p, q - p) = ms
<1> DEFINE n == Len(ms)
<1>1. /\ p \in DOMAIN content /\ content[p] = <<"bundle">> /\ (q - p) % 4 = 0 /\ q >= p + 16
      /\ Osc!MessagesLie(slot, content, ms, p + 16, q)
  BY DEF Osc!BundleLies
<1>2. PICK at : /\ Osc!Follow(slot, at, n, p + 16, q)
                /\ \A k \in 1..n : Osc!MessageLies(content, ms[k], at[k] + 4, at[k + 1])
  BY <1>1 DEF Osc!MessagesLie
<1>3. n \in Nat /\ ms = [k \in 1..n |-> ms[k]]
  OBVIOUS
<1>4. /\ ~Osc!MalformedBundle(p, q - p)
      /\ Osc!Parts(p, q - p) = [k \in 1..n |-> <<at[k] + 4, at[k + 1] - (at[k] + 4)>>]
      /\ \A k \in 1..n : at[k] + 4 \in Nat /\ at[k + 1] \in Nat
  <2>1. \A k \in 1..n : (at[k + 1] - (at[k] + 4)) % 4 = 0
    BY <1>2 DEF Osc!MessageLies
  <2> HIDE DEF n
  <2> QED
    BY <1>1, <1>2, <1>3, <2>1, PartsFound
<1>5. \A k \in 1..n : Osc!ReadMessage(at[k] + 4, at[k + 1] - (at[k] + 4)) = ms[k]
  BY <1>2, <1>4, MessageRead
<1>6. Osc!ContentAt(p) = <<"bundle">>
  BY <1>1 DEF Osc!ContentAt, Osc!At
<1> DEFINE P == Osc!Parts(p, q - p)
<1>7. Osc!ReadElement(p, q - p) = [k \in DOMAIN P |-> Osc!ReadMessage(P[k][1], P[k][2])]
  BY <1>4, <1>6 DEF Osc!ReadElement
<1> HIDE DEF n, P
<1>8. DOMAIN P = 1..n
  BY <1>4 DEF P
<1>9. \A k \in 1..n : Osc!ReadMessage(P[k][1], P[k][2]) = ms[k]
  <2> TAKE k \in 1..n
  <2>1. P[k] = <<at[k] + 4, at[k + 1] - (at[k] + 4)>>
    BY <1>4 DEF P
  <2>2. P[k][1] = at[k] + 4 /\ P[k][2] = at[k + 1] - (at[k] + 4)
    BY <2>1
  <2> QED
    BY <1>5, <2>2
<1>10. [k \in DOMAIN P |-> Osc!ReadMessage(P[k][1], P[k][2])] = [k \in 1..n |-> ms[k]]
  BY <1>8, <1>9, Zenon
<1> QED
  BY <1>3, <1>7, <1>10

LEMMA ElementRead ==
  ASSUME NEW ms \in Seq(Osc!Messages), NEW p \in Nat, NEW q \in Nat,
         Sized, Osc!ElementLies(slot, content, ms, p, q)
  PROVE  Osc!ReadElement(p, q - p) = ms
<1>1. CASE \E m : ms = <<m>> /\ Osc!MessageLies(content, m, p, q)
  <2>1. PICK m : ms = <<m>> /\ Osc!MessageLies(content, m, p, q)
    BY <1>1
  <2>2. Osc!ReadMessage(p, q - p) = m /\ Osc!ContentAt(p) # <<"bundle">>
    BY <2>1, MessageRead
  <2> QED
    BY <2>1, <2>2 DEF Osc!ReadElement
<1>2. CASE Osc!BundleLies(slot, content, ms, p, q)
  BY <1>2, BundleRead
<1> QED
  BY <1>1, <1>2 DEF Osc!ElementLies

\* Joining sequences one after the other
LEMMA Flattened ==
  ASSUME NEW n \in Nat, NEW M, NEW R \in [1..n -> Seq(M)], NEW all_ \in [0..n -> Seq(M)],
         all_[0] = <<>>, \A k \in 1..n : all_[k] = all_[k - 1] \o R[k]
  PROVE  Osc!FlattenSeq(R) = all_[n]
<1> DEFINE Eq(h) == h = [i \in 1..n |-> IF i = 1 THEN R[i] ELSE h[i - 1] \o R[i]]
           f == CHOOSE h : Eq(h)
           g == [k \in 1..n |-> all_[k]]
<1>1. Len(R) = n
  OBVIOUS
<1>2. ASSUME NEW i \in 1..n PROVE g[i] = IF i = 1 THEN R[i] ELSE g[i - 1] \o R[i]
  <2>1. g[i] = all_[i - 1] \o R[i] /\ R[i] \in Seq(M)
    OBVIOUS
  <2>2. CASE i = 1
    <3>1. all_[i - 1] = <<>>
      BY <2>2
    <3> HIDE DEF g
    <3>2. <<>> \o R[i] = R[i]
      BY <2>1
    <3> QED
      BY <2>1, <2>2, <3>1, <3>2
  <2>3. CASE i # 1
    <3>1. i - 1 \in 1..n
      BY <2>3
    <3>2. g[i - 1] = all_[i - 1]
      BY <3>1
    <3> HIDE DEF g
    <3> QED
      BY <2>1, <2>3, <3>2
  <2> QED
    BY <2>2, <2>3
<1>3. Eq(g)
  <2> DEFINE e == [i \in 1..n |-> IF i = 1 THEN R[i] ELSE g[i - 1] \o R[i]]
  <2>1. \A i \in 1..n : g[i] = e[i]
    BY <1>2
  <2>2. DOMAIN g = 1..n /\ DOMAIN e = 1..n /\ g = [i \in 1..n |-> g[i]] /\ e = [i \in 1..n |-> e[i]]
    OBVIOUS
  <2> HIDE DEF g, e
  <2>3. g = e
    BY <2>1, <2>2, Zenon
  <2> QED
    BY <2>3 DEF e
<1>4. Eq(f)
  BY <1>3, Zenon
<1>5. Osc!FlattenSeq(R) = IF n = 0 THEN R ELSE f[n]
  BY <1>1 DEF Osc!FlattenSeq
<1> HIDE DEF f, g
<1>6. CASE n = 0
  <2>1. R = <<>>
    BY <1>6
  <2> QED
    BY <1>5, <1>6, <2>1
<1>7. CASE n # 0
  <2> DEFINE S == {k \in 1..n : f[k] # g[k]}
  <2>1. S = {}
    <3> SUFFICES ASSUME S # {} PROVE FALSE
      OBVIOUS
    <3>1. PICK m \in S : \A j \in S : m <= j
      <4>1. S \subseteq Nat
        OBVIOUS
      <4> HIDE DEF S
      <4> QED
        BY <4>1, Least
    <3>2. m \in 1..n /\ m \in Nat /\ f[m] # g[m]
      OBVIOUS
    <3> HIDE DEF S
    <3>3. CASE m = 1
      BY <1>2, <1>4, <3>2, <3>3
    <3>4. CASE m # 1
      <4>1. m - 1 \in 1..n /\ ~(m <= m - 1)
        BY <3>2, <3>4
      <4>2. m - 1 \notin S
        BY <3>1, <4>1
      <4>3. f[m - 1] = g[m - 1]
        BY <4>1, <4>2 DEF S
      <4>4. f[m] = f[m - 1] \o R[m] /\ g[m] = g[m - 1] \o R[m]
        BY <1>2, <1>4, <3>2, <3>4
      <4> QED
        BY <3>2, <4>3, <4>4
    <3> QED
      BY <3>3, <3>4
  <2>2. n \in 1..n
    BY <1>7
  <2>3. f[n] = g[n] /\ g[n] = all_[n]
    BY <2>1, <2>2 DEF g
  <2> QED
    BY <1>5, <1>7, <2>3
<1> QED
  BY <1>6, <1>7

\* The elements of the packet's bundle are read in their order.
LEMMA PacketRead ==
  ASSUME NEW ms \in Seq(Osc!Messages), NEW q \in Nat, Sized, Osc!InBundle(content),
         q % 4 = 0, q >= 16, Osc!ElementsLie(slot, content, ms, 16, q)
  PROVE  Osc!ReadPacket(q) = ms
<1>1. PICK n \in Nat : \E at, a :
        /\ a \in [0..n -> Seq(Osc!Messages)]
        /\ Osc!Follow(slot, at, n, 16, q) /\ a[0] = <<>> /\ a[n] = ms
        /\ \A k \in 1..n : \E w \in Seq(Osc!Messages) :
             a[k] = a[k - 1] \o w /\ Osc!ElementLies(slot, content, w, at[k] + 4, at[k + 1])
  BY DEF Osc!ElementsLie
<1>2. PICK at, a :
        /\ a \in [0..n -> Seq(Osc!Messages)]
        /\ Osc!Follow(slot, at, n, 16, q) /\ a[0] = <<>> /\ a[n] = ms
        /\ \A k \in 1..n : \E w \in Seq(Osc!Messages) :
             a[k] = a[k - 1] \o w /\ Osc!ElementLies(slot, content, w, at[k] + 4, at[k + 1])
  BY <1>1
<1> DEFINE P == Osc!Parts(0, q)
           T == [k \in 1..n |-> <<at[k] + 4, at[k + 1] - (at[k] + 4)>>]
           R == [k \in DOMAIN P |-> Osc!ReadElement(P[k][1], P[k][2])]
<1>3. /\ ~Osc!MalformedBundle(0, q) /\ P = T
      /\ \A k \in 1..n : at[k] + 4 \in Nat /\ at[k + 1] \in Nat
  <2> DEFINE z == 0
             s == 16
  <2>1. z \in Nat /\ z + 16 = s /\ q >= z + 16 /\ q - z = q /\ (q - z) % 4 = 0
    OBVIOUS
  <2>2. Osc!Follow(slot, at, n, s, q)
    BY <1>2
  <2> HIDE DEF z, s, P, T
  <2>3. Osc!Follow(slot, at, n, z + 16, q)
    BY <2>1, <2>2
  <2>4. \A k \in 1..n : (at[k + 1] - (at[k] + 4)) % 4 = 0
    BY <1>2 DEF Osc!ElementLies, Osc!MessageLies, Osc!BundleLies
  <2>5. /\ ~Osc!MalformedBundle(z, q - z)
        /\ Osc!Parts(z, q - z) = T
        /\ \A k \in 1..n : at[k] + 4 \in Nat /\ at[k + 1] \in Nat
    BY <2>1, <2>3, <2>4, PartsFound DEF T
  <2> QED
    BY <2>1, <2>5 DEF z, P
<1>4. ASSUME NEW k \in 1..n, NEW w \in Seq(Osc!Messages),
             Osc!ElementLies(slot, content, w, at[k] + 4, at[k + 1])
      PROVE  Osc!ReadElement(at[k] + 4, at[k + 1] - (at[k] + 4)) = w
  BY <1>3, <1>4, ElementRead
<1>5. Osc!ContentAt(0) = <<"bundle">>
  BY DEF Osc!InBundle, Osc!ContentAt, Osc!At
<1>6. Osc!ReadPacket(q) = Osc!FlattenSeq(R)
  BY <1>3, <1>5 DEF Osc!ReadPacket
<1> HIDE DEF P, R
<1>7. DOMAIN P = 1..n /\ DOMAIN R = 1..n /\ R = [k \in 1..n |-> R[k]]
  <2>1. DOMAIN P = 1..n
    BY <1>3
  <2> QED
    BY <2>1, Zenon DEF R
<1>8. ASSUME NEW k \in 1..n PROVE R[k] \in Seq(Osc!Messages) /\ a[k] = a[k - 1] \o R[k]
  <2>1. PICK w \in Seq(Osc!Messages) :
          a[k] = a[k - 1] \o w /\ Osc!ElementLies(slot, content, w, at[k] + 4, at[k + 1])
    BY <1>2
  <2>2. Osc!ReadElement(at[k] + 4, at[k + 1] - (at[k] + 4)) = w
    BY <1>4, <2>1
  <2>3. P[k] = <<at[k] + 4, at[k + 1] - (at[k] + 4)>>
    BY <1>3
  <2>4. P[k][1] = at[k] + 4 /\ P[k][2] = at[k + 1] - (at[k] + 4)
    BY <2>3
  <2>5. R[k] = Osc!ReadElement(P[k][1], P[k][2])
    BY <1>7, Zenon DEF R
  <2>6. R[k] = w
    BY <2>2, <2>4, <2>5
  <2> QED
    BY <2>1, <2>6
<1>9. R \in [1..n -> Seq(Osc!Messages)]
  BY <1>7, <1>8, Zenon
<1>10. Osc!FlattenSeq(R) = a[n]
  <2> DEFINE M == Osc!Messages
  <2>1. /\ R \in [1..n -> Seq(M)] /\ a \in [0..n -> Seq(M)] /\ a[0] = <<>>
        /\ \A k \in 1..n : a[k] = a[k - 1] \o R[k]
    BY <1>2, <1>8, <1>9
  <2> HIDE DEF M
  <2> QED
    BY <2>1, Flattened
<1> QED
  BY <1>2, <1>6, <1>10

-----------------------------------------------------------------------------
(* Writing behind what lies in the buffer.                                 *)

\* g holds what f holds from p on and below q.
Kept(f, g, p, q) ==
  \A x \in DOMAIN f \cap Nat : p <= x /\ x < q => x \in DOMAIN g /\ g[x] = f[x]

LEMMA PutKeeps ==
  ASSUME NEW f, NEW p \in Nat, NEW v, NEW l \in Nat, NEW q \in Nat, q <= p \/ p < l
  PROVE  /\ Kept(f, Osc!Put(f, p, v), l, q)
         /\ p \in DOMAIN Osc!Put(f, p, v) /\ Osc!Put(f, p, v)[p] = v
<1> DEFINE g == Osc!Put(f, p, v)
<1>1. /\ DOMAIN g = DOMAIN f \cup {p}
      /\ \A x \in DOMAIN f \cup {p} : g[x] = IF x = p THEN v ELSE f[x]
  BY DEF Osc!Put
<1> HIDE DEF g
<1>2. p \in DOMAIN g /\ g[p] = v
  BY <1>1
<1>3. ASSUME NEW x \in DOMAIN f \cap Nat, l <= x, x < q PROVE x \in DOMAIN g /\ g[x] = f[x]
  <2>1. x # p
    BY <1>3
  <2> QED
    BY <1>1, <2>1
<1>4. Kept(f, g, l, q)
  BY <1>3 DEF Kept
<1> QED
  BY <1>2, <1>4 DEF g

LEMMA FollowKept ==
  ASSUME NEW s, NEW t, NEW at, NEW n \in Nat, NEW p \in Nat, NEW q \in Nat,
         Osc!Follow(s, at, n, p, q), Kept(s, t, p, q)
  PROVE  Osc!Follow(t, at, n, p, q)
<1>1. /\ at \in [1..(n + 1) -> Nat] /\ at[1] = p /\ at[n + 1] = q
      /\ \A k \in 1..n : /\ at[k] \in DOMAIN s /\ at[k + 1] = at[k] + 4 + s[at[k]]
                         /\ p <= at[k] /\ at[k] + 4 < q /\ at[k + 1] <= q
  BY DEF Osc!Follow
<1>2. ASSUME NEW k \in 1..n PROVE at[k] \in DOMAIN t /\ t[at[k]] = s[at[k]]
  <2>1. at[k] \in Nat /\ at[k] \in DOMAIN s /\ p <= at[k] /\ at[k] + 4 < q
    <3>1. k \in 1..(n + 1)
      OBVIOUS
    <3> QED
      BY <1>1, <3>1
  <2>2. at[k] < q
    BY <2>1
  <2> QED
    BY <2>1, <2>2 DEF Kept
<1> QED
  BY <1>1, <1>2 DEF Osc!Follow

LEMMA MessagesKept ==
  ASSUME NEW s, NEW t, NEW c, NEW d, NEW ms \in Seq(Osc!Messages), NEW p \in Nat, NEW q \in Nat,
         Osc!MessagesLie(s, c, ms, p, q), Kept(s, t, p, q), Kept(c, d, p, q)
  PROVE  Osc!MessagesLie(t, d, ms, p, q)
<1> DEFINE n == Len(ms)
<1>1. PICK at : /\ Osc!Follow(s, at, n, p, q)
                /\ \A k \in 1..n : Osc!MessageLies(c, ms[k], at[k] + 4, at[k + 1])
  BY DEF Osc!MessagesLie
<1>2. n \in Nat
  OBVIOUS
<1>3. Osc!Follow(t, at, n, p, q)
  BY <1>1, <1>2, FollowKept
<1>4. ASSUME NEW k \in 1..n PROVE Osc!MessageLies(d, ms[k], at[k] + 4, at[k + 1])
  <2> DEFINE x == at[k] + 4
  <2>1. Osc!MessageLies(c, ms[k], x, at[k + 1])
    BY <1>1
  <2>2. x \in Nat /\ p <= x /\ x < q
    <3>1. k \in 1..(n + 1)
      BY <1>2
    <3>2. at[k] \in Nat /\ p <= at[k] /\ x < q
      BY <1>1, <3>1 DEF Osc!Follow
    <3> QED
      BY <3>2
  <2> HIDE DEF x
  <2>3. x \in DOMAIN c
    BY <2>1 DEF Osc!MessageLies
  <2>4. x \in DOMAIN d /\ d[x] = c[x]
    BY <2>2, <2>3 DEF Kept
  <2>5. Osc!MessageLies(d, ms[k], x, at[k + 1])
    BY <2>1, <2>4 DEF Osc!MessageLies
  <2> QED
    BY <2>5 DEF x
<1> QED
  BY <1>3, <1>4 DEF Osc!MessagesLie

LEMMA ElementKept ==
  ASSUME NEW s, NEW t, NEW c, NEW d, NEW ms \in Seq(Osc!Messages), NEW p \in Nat, NEW q \in Nat,
         NEW l \in Nat, NEW z \in Nat, l <= p, p < z, q <= z,
         Osc!ElementLies(s, c, ms, p, q), Kept(s, t, l, z), Kept(c, d, l, z)
  PROVE  Osc!ElementLies(t, d, ms, p, q)
<1>1. p \in DOMAIN c => p \in DOMAIN d /\ d[p] = c[p]
  BY DEF Kept
<1>2. CASE \E m : ms = <<m>> /\ Osc!MessageLies(c, m, p, q)
  <2>1. PICK m : ms = <<m>> /\ Osc!MessageLies(c, m, p, q)
    BY <1>2
  <2>2. Osc!MessageLies(d, m, p, q)
    BY <1>1, <2>1 DEF Osc!MessageLies
  <2> QED
    BY <2>1, <2>2 DEF Osc!ElementLies
<1>3. CASE Osc!BundleLies(s, c, ms, p, q)
  <2>1. /\ p \in DOMAIN c /\ c[p] = <<"bundle">> /\ (q - p) % 4 = 0 /\ q >= p + 16
        /\ Osc!MessagesLie(s, c, ms, p + 16, q)
    BY <1>3 DEF Osc!BundleLies
  <2>2. Kept(s, t, p + 16, q) /\ Kept(c, d, p + 16, q)
    <3>1. ASSUME NEW f, NEW g, Kept(f, g, l, z) PROVE Kept(f, g, p + 16, q)
      <4> SUFFICES ASSUME NEW x \in DOMAIN f \cap Nat, p + 16 <= x, x < q
                   PROVE  x \in DOMAIN g /\ g[x] = f[x]
        BY DEF Kept
      <4>1. l <= x /\ x < z
        OBVIOUS
      <4> QED
        BY <3>1, <4>1 DEF Kept
    <3> QED
      BY <3>1
  <2>3. p + 16 \in Nat
    OBVIOUS
  <2>4. Osc!MessagesLie(t, d, ms, p + 16, q)
    BY <2>1, <2>2, <2>3, MessagesKept
  <2>5. Osc!BundleLies(t, d, ms, p, q)
    BY <1>1, <2>1, <2>4 DEF Osc!BundleLies
  <2> QED
    BY <2>5 DEF Osc!ElementLies
<1> QED
  BY <1>2, <1>3 DEF Osc!ElementLies

LEMMA ElementsKept ==
  ASSUME NEW s, NEW t, NEW c, NEW d, NEW ms \in Seq(Osc!Messages), NEW p \in Nat, NEW q \in Nat,
         Osc!ElementsLie(s, c, ms, p, q), Kept(s, t, p, q), Kept(c, d, p, q)
  PROVE  Osc!ElementsLie(t, d, ms, p, q)
<1>1. PICK n \in Nat : \E at, a :
        /\ a \in [0..n -> Seq(Osc!Messages)]
        /\ Osc!Follow(s, at, n, p, q) /\ a[0] = <<>> /\ a[n] = ms
        /\ \A k \in 1..n : \E w \in Seq(Osc!Messages) :
             a[k] = a[k - 1] \o w /\ Osc!ElementLies(s, c, w, at[k] + 4, at[k + 1])
  BY DEF Osc!ElementsLie
<1>2. PICK at, a :
        /\ a \in [0..n -> Seq(Osc!Messages)]
        /\ Osc!Follow(s, at, n, p, q) /\ a[0] = <<>> /\ a[n] = ms
        /\ \A k \in 1..n : \E w \in Seq(Osc!Messages) :
             a[k] = a[k - 1] \o w /\ Osc!ElementLies(s, c, w, at[k] + 4, at[k + 1])
  BY <1>1
<1>3. Osc!Follow(t, at, n, p, q)
  BY <1>2, FollowKept
<1>4. ASSUME NEW k \in 1..n
      PROVE  \E w \in Seq(Osc!Messages) :
               a[k] = a[k - 1] \o w /\ Osc!ElementLies(t, d, w, at[k] + 4, at[k + 1])
  <2>1. PICK w \in Seq(Osc!Messages) :
          a[k] = a[k - 1] \o w /\ Osc!ElementLies(s, c, w, at[k] + 4, at[k + 1])
    BY <1>2
  <2> DEFINE x == at[k] + 4
             y == at[k + 1]
  <2>2. x \in Nat /\ y \in Nat /\ p <= x /\ x < q /\ y <= q
    <3>1. k \in 1..(n + 1) /\ k + 1 \in 1..(n + 1)
      OBVIOUS
    <3>2. at[k] \in Nat /\ y \in Nat
      BY <1>2, <3>1 DEF Osc!Follow
    <3>3. p <= at[k] /\ x < q /\ y <= q
      BY <1>2 DEF Osc!Follow
    <3> QED
      BY <3>2, <3>3
  <2>3. Osc!ElementLies(s, c, w, x, y)
    BY <2>1
  <2> HIDE DEF x, y
  <2>4. Osc!ElementLies(t, d, w, x, y)
    BY <2>2, <2>3, ElementKept
  <2> QED
    BY <2>1, <2>4 DEF x, y
<1>5. /\ a \in [0..n -> Seq(Osc!Messages)]
      /\ Osc!Follow(t, at, n, p, q) /\ a[0] = <<>> /\ a[n] = ms
      /\ \A k \in 1..n : \E w \in Seq(Osc!Messages) :
           a[k] = a[k - 1] \o w /\ Osc!ElementLies(t, d, w, at[k] + 4, at[k + 1])
  BY <1>2, <1>3, <1>4
<1> QED
  BY <1>5, Zenon DEF Osc!ElementsLie

\* Nothing lies between an offset and itself.
LEMMA NothingLies ==
  ASSUME NEW s, NEW c, NEW p \in Nat
  PROVE  Osc!MessagesLie(s, c, <<>>, p, p) /\ Osc!ElementsLie(s, c, <<>>, p, p)
<1> DEFINE at == [k \in 1..1 |-> p]
           a == [k \in 0..0 |-> <<>>]
<1>1. Osc!Follow(s, at, 0, p, p)
  BY DEF Osc!Follow
<1>2. Len(<<>>) = 0 /\ 1..0 = {} /\ 0 \in Nat
  OBVIOUS
<1>3. Osc!MessagesLie(s, c, <<>>, p, p)
  <2> HIDE DEF at
  <2> QED
    BY <1>1, <1>2 DEF Osc!MessagesLie
<1>4. a \in [0..0 -> Seq(Osc!Messages)] /\ a[0] = <<>>
  OBVIOUS
<1>5. Osc!ElementsLie(s, c, <<>>, p, p)
  <2> HIDE DEF at, a
  <2> QED
    BY <1>1, <1>2, <1>4 DEF Osc!ElementsLie
<1> QED
  BY <1>3, <1>5

Further(at, n, q) == [k \in 1..(n + 2) |-> IF k = n + 2 THEN q ELSE at[k]]
LEMMA OneFurther ==
  ASSUME NEW s, NEW at, NEW n \in Nat, NEW p \in Nat, NEW e \in Nat, NEW q \in Nat,
         Osc!Follow(s, at, n, p, e), e \in DOMAIN s, q = e + 4 + s[e], q > e + 4
  PROVE  /\ Osc!Follow(s, Further(at, n, q), n + 1, p, q)
         /\ at[n + 1] = e
<1> DEFINE b == [k \in 1..(n + 2) |-> IF k = n + 2 THEN q ELSE at[k]]
<1>1. /\ at \in [1..(n + 1) -> Nat] /\ at[1] = p /\ at[n + 1] = e
      /\ \A k \in 1..n : /\ at[k] \in DOMAIN s /\ at[k + 1] = at[k] + 4 + s[at[k]]
                         /\ p <= at[k] /\ at[k] + 4 < e /\ at[k + 1] <= e
  BY DEF Osc!Follow
<1>2. \A k \in 1..(n + 1) : b[k] = at[k] /\ b[k] \in Nat
  <2> TAKE k \in 1..(n + 1)
  <2>1. k \in 1..(n + 2) /\ k # n + 2
    OBVIOUS
  <2> QED
    BY <1>1, <2>1
<1>3. b[n + 2] = q
  <2>1. n + 2 \in 1..(n + 2)
    OBVIOUS
  <2> QED
    BY <2>1
<1>4. DOMAIN b = 1..(n + 2) /\ b = [k \in 1..(n + 2) |-> b[k]]
  OBVIOUS
<1> HIDE DEF b
<1>5. \A k \in 1..(n + 2) : b[k] \in Nat
  <2> TAKE k \in 1..(n + 2)
  <2>1. k = n + 2 \/ k \in 1..(n + 1)
    OBVIOUS
  <2> QED
    BY <1>2, <1>3, <2>1
<1>6. b \in [1..(n + 2) -> Nat]
  BY <1>4, <1>5, Zenon
<1>7. ASSUME NEW k \in 1..(n + 1)
      PROVE  /\ b[k] \in DOMAIN s /\ b[k + 1] = b[k] + 4 + s[b[k]]
             /\ p <= b[k] /\ b[k] + 4 < q /\ b[k + 1] <= q
  <2>1. CASE k = n + 1
    <3>1. b[k] = e /\ b[k + 1] = q
      <4>1. n + 1 \in 1..(n + 1) /\ k + 1 = n + 2
        BY <2>1
      <4> QED
        BY <1>1, <1>2, <1>3, <2>1, <4>1
    <3>2. p <= e
      <4>1. CASE n = 0
        BY <1>1, <4>1
      <4>2. CASE n # 0
        <5>1. n \in 1..n /\ n \in 1..(n + 1)
          BY <4>2
        <5>2. at[n] \in Nat /\ p <= at[n] /\ at[n] + 4 < e
          BY <1>1, <5>1
        <5> QED
          BY <5>2
      <4> QED
        BY <4>1, <4>2
    <3> QED
      BY <3>1, <3>2
  <2>2. CASE k # n + 1
    <3>1. k \in 1..n /\ k + 1 \in 1..(n + 1)
      BY <2>2
    <3>2. b[k] = at[k] /\ b[k + 1] = at[k + 1] /\ b[k] \in Nat /\ b[k + 1] \in Nat
      BY <1>2, <3>1
    <3>3. /\ b[k] \in DOMAIN s /\ b[k + 1] = b[k] + 4 + s[b[k]]
          /\ p <= b[k] /\ b[k] + 4 < e /\ b[k + 1] <= e
      BY <1>1, <3>1, <3>2
    <3> QED
      BY <3>2, <3>3
  <2> QED
    BY <2>1, <2>2
<1>8. 1 \in 1..(n + 1) /\ n + 1 + 1 = n + 2 /\ n + 1 \in Nat
  OBVIOUS
<1>9. b[1] = p
  BY <1>1, <1>2, <1>8
<1>10. Osc!Follow(s, b, n + 1, p, q)
  BY <1>3, <1>6, <1>7, <1>8, <1>9 DEF Osc!Follow
<1> QED
  BY <1>1, <1>10 DEF b, Further

\* One more message, and one more element, behind its slot
LEMMA MessageAppended ==
  ASSUME NEW s, NEW c, NEW ms \in Seq(Osc!Messages), NEW m \in Osc!Messages,
         NEW p \in Nat, NEW e \in Nat, NEW q \in Nat,
         Osc!MessagesLie(s, c, ms, p, e), e \in DOMAIN s, q = e + 4 + s[e], q > e + 4,
         Osc!MessageLies(c, m, e + 4, q)
  PROVE  Osc!MessagesLie(s, c, Append(ms, m), p, q)
<1> DEFINE n == Len(ms)
           ns == Append(ms, m)
<1>1. PICK at : /\ Osc!Follow(s, at, n, p, e)
                /\ \A k \in 1..n : Osc!MessageLies(c, ms[k], at[k] + 4, at[k + 1])
  BY DEF Osc!MessagesLie
<1> DEFINE b == Further(at, n, q)
<1>2. n \in Nat /\ Len(ns) = n + 1 /\ ns[n + 1] = m /\ \A k \in 1..n : ns[k] = ms[k]
  BY AppendProperties
<1>3. Osc!Follow(s, b, n + 1, p, q) /\ at[n + 1] = e
  <2> HIDE DEF n
  <2> QED
    BY <1>1, <1>2, OneFurther
<1> HIDE DEF ns
<1>4. b[n + 2] = q /\ \A k \in 1..(n + 1) : b[k] = at[k]
  <2>1. n + 2 \in 1..(n + 2) /\ \A k \in 1..(n + 1) : k \in 1..(n + 2) /\ k # n + 2
    BY <1>2
  <2> QED
    BY <2>1 DEF Further
<1> HIDE DEF b, n
<1>5. ASSUME NEW k \in 1..(n + 1) PROVE Osc!MessageLies(c, ns[k], b[k] + 4, b[k + 1])
  <2>1. CASE k = n + 1
    <3>1. k + 1 = n + 2 /\ n + 1 \in 1..(n + 1)
      BY <1>2, <2>1
    <3>2. ns[k] = m /\ b[k] = e /\ b[k + 1] = q
      BY <1>2, <1>3, <1>4, <2>1, <3>1
    <3> QED
      BY <3>2
  <2>2. CASE k # n + 1
    <3>1. k \in 1..n /\ k + 1 \in 1..(n + 1)
      BY <1>2, <2>2
    <3>2. ns[k] = ms[k] /\ b[k] = at[k] /\ b[k + 1] = at[k + 1]
      BY <1>2, <1>4, <3>1
    <3> QED
      BY <1>1, <3>1, <3>2
  <2> QED
    BY <2>1, <2>2
<1>6. Osc!MessagesLie(s, c, ns, p, q)
  BY <1>2, <1>3, <1>5 DEF Osc!MessagesLie
<1> QED
  BY <1>6 DEF ns

LEMMA ElementAppended ==
  ASSUME NEW s, NEW c, NEW ms \in Seq(Osc!Messages), NEW w \in Seq(Osc!Messages),
         NEW p \in Nat, NEW e \in Nat, NEW q \in Nat,
         Osc!ElementsLie(s, c, ms, p, e), e \in DOMAIN s, q = e + 4 + s[e], q > e + 4,
         Osc!ElementLies(s, c, w, e + 4, q)
  PROVE  Osc!ElementsLie(s, c, ms \o w, p, q)
<1> DEFINE z == ms \o w
<1>1. PICK n \in Nat : \E at, a :
        /\ a \in [0..n -> Seq(Osc!Messages)]
        /\ Osc!Follow(s, at, n, p, e) /\ a[0] = <<>> /\ a[n] = ms
        /\ \A k \in 1..n : \E v \in Seq(Osc!Messages) :
             a[k] = a[k - 1] \o v /\ Osc!ElementLies(s, c, v, at[k] + 4, at[k + 1])
  BY DEF Osc!ElementsLie
<1>2. PICK at, a :
        /\ a \in [0..n -> Seq(Osc!Messages)]
        /\ Osc!Follow(s, at, n, p, e) /\ a[0] = <<>> /\ a[n] = ms
        /\ \A k \in 1..n : \E v \in Seq(Osc!Messages) :
             a[k] = a[k - 1] \o v /\ Osc!ElementLies(s, c, v, at[k] + 4, at[k + 1])
  BY <1>1
<1> DEFINE N == n + 1
           b == Further(at, n, q)
           d == [k \in 0..N |-> IF k = N THEN z ELSE a[k]]
<1>3. Osc!Follow(s, b, N, p, q) /\ at[n + 1] = e
  <2>1. Osc!Follow(s, at, n, p, e)
    BY <1>2
  <2> QED
    BY <2>1, OneFurther, SMTT(30)
<1>4. b[n + 2] = q /\ \A k \in 1..N : b[k] = at[k]
  <2>1. n + 2 \in 1..(n + 2) /\ \A k \in 1..N : k \in 1..(n + 2) /\ k # n + 2
    OBVIOUS
  <2> QED
    BY <2>1 DEF Further
<1> HIDE DEF b
<1>5. N \in Nat /\ N = n + 1 /\ n = N - 1
  OBVIOUS
<1> HIDE DEF N
<1>6. z \in Seq(Osc!Messages)
  OBVIOUS
<1> HIDE DEF z
<1>7. d[N] = z /\ \A k \in 0..n : d[k] = a[k]
  <2>1. N \in 0..N /\ \A k \in 0..n : k \in 0..N /\ k # N
    BY <1>5
  <2> QED
    BY <2>1
<1>8. DOMAIN d = 0..N /\ d = [k \in 0..N |-> d[k]]
  OBVIOUS
<1> HIDE DEF d
<1>9. d \in [0..N -> Seq(Osc!Messages)]
  <2>1. \A k \in 0..N : d[k] \in Seq(Osc!Messages)
    <3> TAKE k \in 0..N
    <3>1. k = N \/ k \in 0..n
      BY <1>5
    <3> QED
      BY <1>2, <1>6, <1>7, <3>1
  <2> QED
    BY <1>8, <2>1, Zenon
<1>10. ASSUME NEW k \in 1..N
       PROVE  \E v \in Seq(Osc!Messages) :
                d[k] = d[k - 1] \o v /\ Osc!ElementLies(s, c, v, b[k] + 4, b[k + 1])
  <2>1. CASE k = N
    <3>1. k + 1 = n + 2 /\ k - 1 = n /\ n \in 0..n /\ n + 1 = N
      BY <1>5, <2>1
    <3>2. d[k] = ms \o w /\ d[k - 1] = ms
      BY <1>2, <1>7, <2>1, <3>1 DEF z
    <3>3. b[k] = e /\ b[k + 1] = q
      BY <1>3, <1>4, <2>1, <3>1
    <3>4. d[k] = d[k - 1] \o w /\ Osc!ElementLies(s, c, w, b[k] + 4, b[k + 1])
      BY <3>2, <3>3
    <3> QED
      BY <3>4
  <2>2. CASE k # N
    <3>1. k \in 1..n /\ k + 1 \in 1..N /\ k - 1 \in 0..n /\ k \in 0..n
      BY <1>5, <2>2
    <3>2. d[k] = a[k] /\ d[k - 1] = a[k - 1] /\ b[k] = at[k] /\ b[k + 1] = at[k + 1]
      BY <1>4, <1>7, <3>1
    <3>3. PICK v \in Seq(Osc!Messages) :
            a[k] = a[k - 1] \o v /\ Osc!ElementLies(s, c, v, at[k] + 4, at[k + 1])
      BY <1>2, <3>1
    <3>4. d[k] = d[k - 1] \o v /\ Osc!ElementLies(s, c, v, b[k] + 4, b[k + 1])
      BY <3>2, <3>3
    <3> QED
      BY <3>4
  <2> QED
    BY <2>1, <2>2
<1>11. d[0] = <<>>
  <2>1. 0 \in 0..n
    OBVIOUS
  <2> QED
    BY <1>2, <1>7, <2>1
<1>12. /\ d \in [0..N -> Seq(Osc!Messages)]
       /\ Osc!Follow(s, b, N, p, q) /\ d[0] = <<>> /\ d[N] = z
       /\ \A k \in 1..N : \E v \in Seq(Osc!Messages) :
            d[k] = d[k - 1] \o v /\ Osc!ElementLies(s, c, v, b[k] + 4, b[k + 1])
  BY <1>3, <1>7, <1>9, <1>10, <1>11
<1>13. \E i, f :
         /\ f \in [0..N -> Seq(Osc!Messages)]
         /\ Osc!Follow(s, i, N, p, q) /\ f[0] = <<>> /\ f[N] = z
         /\ \A k \in 1..N : \E v \in Seq(Osc!Messages) :
              f[k] = f[k - 1] \o v /\ Osc!ElementLies(s, c, v, i[k] + 4, i[k + 1])
  BY <1>12
<1>14. Osc!ElementsLie(s, c, z, p, q)
  BY <1>5, <1>13 DEF Osc!ElementsLie
<1> QED
  BY <1>14 DEF z

-----------------------------------------------------------------------------
(* What is written lies in the buffer.                                     *)

LEMMA PlacedEmpty ==
  ASSUME messageCursor = 0, argumentCurrent = 0, elementSizePtr = -1, inProgress = FALSE,
         addr = 0, slot = Osc!Empty, written = <<>>, received = Osc!Unread
  PROVE  Osc!PlacedInv
<1>1. /\ DOMAIN slot \subseteq Nat /\ slot \in [DOMAIN slot -> Nat]
      /\ written \in Seq(Osc!Messages) /\ addr \in Nat
  BY DEF Osc!Empty
<1>2. 0 % 4 = 0
  OBVIOUS
<1>3. Osc!Fresh
  BY DEF Osc!Fresh, Osc!None
<1> QED
  BY <1>1, <1>2, <1>3 DEF Osc!PlacedInv, Osc!Phase

LEMMA PlacedInit == Osc!Init => Osc!PlacedInv
  BY PlacedEmpty DEF Osc!Init, Osc!None

\* What the invariants say of the variables, whatever is being written
Numbers ==
  /\ messageCursor \in Nat /\ argumentCurrent \in Nat /\ inProgress \in BOOLEAN
  /\ tags \in Seq(Osc!Args) /\ addr \in Nat /\ written \in Seq(Osc!Messages)
  /\ Sized /\ DOMAIN slot \subseteq Nat
  /\ messageCursor % 4 = 0 /\ argumentCurrent % 4 = 0
  /\ ~inProgress => argumentCurrent = messageCursor
  /\ inProgress => Osc!ArgsLie(tags, messageCursor, argumentCurrent)
LEMMA NumbersHold == Osc!IndInv /\ Osc!PlacedInv => Numbers /\ Osc!Phase
  BY DEF Osc!IndInv, Osc!PlacedInv, Numbers, Sized

\* Before a message or a bundle begins, nothing is written yet or a bundle is open.
LEMMA BeforeElement ==
  ASSUME Numbers, Osc!Phase, ~inProgress,
         Osc!Nesting = 0 => messageCursor = 0
  PROVE  \/ Osc!Fresh
         \/ Osc!Outer /\ elementSizePtr = 0
         \/ Osc!Inner /\ elementSizePtr \in Nat /\ elementSizePtr >= 16
<1>1. messageCursor \in Nat /\ DOMAIN slot \subseteq Nat
  BY DEF Numbers
<1>2. CASE elementSizePtr = -1
  <2>1. messageCursor = 0
    BY <1>2 DEF Osc!Nesting, Osc!None
  <2>2. ~(messageCursor > 0) /\ ~(messageCursor >= 16)
    BY <2>1
  <2>3. ~Osc!Alone /\ ~Osc!Outer
    BY <2>2 DEF Osc!Alone, Osc!Outer
  <2>4. ~Osc!Inner
    <3>1. ~(elementSizePtr >= 16)
      BY <1>2
    <3> QED
      BY <3>1 DEF Osc!Inner, Osc!Within
  <2> QED
    BY <2>3, <2>4 DEF Osc!Phase, Osc!AloneBegun, Osc!OuterBegun, Osc!InnerBegun, Osc!BegunAt
<1>3. CASE elementSizePtr # -1
  <2>1. ~Osc!Alone /\ (Osc!Outer => elementSizePtr = 0)
    BY <1>3 DEF Osc!Alone, Osc!Outer, Osc!None
  <2>2. Osc!Phase => Osc!Fresh \/ Osc!Outer \/ Osc!Inner
    BY <2>1 DEF Osc!Phase, Osc!AloneBegun, Osc!OuterBegun, Osc!InnerBegun, Osc!BegunAt
  <2>3. Osc!Inner => elementSizePtr >= 16 /\ elementSizePtr % 4 = 0 /\ elementSizePtr \in DOMAIN slot
    BY DEF Osc!Inner, Osc!Within
  <2> QED
    BY <1>1, <2>1, <2>2, <2>3
<1> QED
  BY <1>2, <1>3

LEMMA SlotPut ==
  ASSUME NEW f, f \in [DOMAIN f -> Nat], DOMAIN f \subseteq Nat, NEW p \in Nat, NEW v \in Nat
  PROVE  LET g == Osc!Put(f, p, v) IN g \in [DOMAIN g -> Nat] /\ DOMAIN g \subseteq Nat
<1> DEFINE D == DOMAIN f \cup {p}
           g == Osc!Put(f, p, v)
<1>1. \A q \in D : (IF q = p THEN v ELSE f[q]) \in Nat
  OBVIOUS
<1>2. g \in [D -> Nat]
  BY <1>1 DEF Osc!Put
<1> HIDE DEF g
<1>3. DOMAIN g = D /\ D \subseteq Nat
  BY <1>2
<1>4. g \in [DOMAIN g -> Nat] /\ DOMAIN g \subseteq Nat
  BY <1>2, <1>3
<1> QED
  BY <1>4 DEF g

\* A bundle begins: the packet's, or one inside it.
LEMMA BundleBegins ==
  ASSUME Osc!IndInv, Osc!PlacedInv, Osc!BeginBundle
  PROVE  Osc!PlacedInv'
<1>1. Numbers /\ Osc!Phase
  BY NumbersHold
<1>2. /\ messageCursor \in Nat /\ messageCursor % 4 = 0 /\ Sized /\ DOMAIN slot \subseteq Nat
      /\ written \in Seq(Osc!Messages) /\ addr \in Nat
  BY <1>1 DEF Numbers
<1>3. /\ ~inProgress /\ ~inProgress' /\ received = Osc!Unread /\ received' = received
      /\ IF Osc!Nesting = 0 THEN messageCursor = 0 ELSE Osc!Nesting = 1
      /\ Osc!BeginElement(messageCursor)
      /\ content' = Osc!Put(content, messageCursor + Osc!SizeSlot, <<"bundle">>)
      /\ messageCursor' = messageCursor + Osc!SizeSlot + 16 /\ argumentCurrent' = messageCursor'
      /\ addr' = addr /\ written' = written
  BY DEF Osc!BeginBundle
<1>4. SUFFICES /\ slot' \in [DOMAIN slot' -> Nat] /\ DOMAIN slot' \subseteq Nat
               /\ messageCursor' % 4 = 0 /\ Osc!Phase'
  <2>1. ASSUME slot' \in [DOMAIN slot' -> Nat], DOMAIN slot' \subseteq Nat,
               messageCursor' % 4 = 0, Osc!Phase'
        PROVE  Osc!PlacedInv'
    BY <1>2, <1>3, <2>1 DEF Osc!PlacedInv
  <2> QED
    BY <2>1
<1>5. CASE Osc!Fresh
  <2>1. elementSizePtr = -1 /\ messageCursor = 0 /\ written = <<>>
    BY <1>5 DEF Osc!Fresh, Osc!None
  <2>2. Osc!SizeSlot = 0
    BY <2>1 DEF Osc!SizeSlot, Osc!None
  <2>3. messageCursor + Osc!SizeSlot = 0 /\ messageCursor' = 16 /\ 16 \in Nat /\ 16 >= 16
    BY <1>3, <2>1, <2>2
  <2>4. elementSizePtr' = 0 /\ slot' = slot
    BY <1>3, <2>1 DEF Osc!BeginElement, Osc!None
  <2>5. content' = Osc!Put(content, 0, <<"bundle">>)
    BY <1>3, <2>3
  <2>6. 0 \in DOMAIN content' /\ content'[0] = <<"bundle">>
    BY <2>5 DEF Osc!Put
  <2>7. Osc!ElementsLie(slot', content', written', 16, messageCursor')
    BY <1>3, <2>1, <2>3, NothingLies
  <2>8. Osc!Outer'
    BY <1>3, <2>3, <2>4, <2>6, <2>7 DEF Osc!Outer, Osc!InBundle
  <2>9. messageCursor' % 4 = 0
    BY <2>3
  <2> QED
    BY <1>2, <2>4, <2>8, <2>9 DEF Sized, Osc!Phase
<1>6. CASE Osc!Outer /\ elementSizePtr = 0
  <2> DEFINE e == messageCursor
  <2>1. /\ Osc!InBundle(content) /\ e >= 16
        /\ Osc!ElementsLie(slot, content, written, 16, e)
    BY <1>6 DEF Osc!Outer
  <2>2. Osc!SizeSlot = 4
    BY <1>6 DEF Osc!SizeSlot, Osc!None
  <2>3. elementSizePtr' = e /\ slot' = Osc!Put(slot, e, 0)
    BY <1>3, <1>6 DEF Osc!BeginElement, Osc!None
  <2>4. content' = Osc!Put(content, e + 4, <<"bundle">>) /\ messageCursor' = e + 4 + 16
    BY <1>3, <2>2
  <2>5. e \in Nat /\ e + 4 \in Nat /\ e + 4 + 16 = e + 20 /\ (e + 20) % 4 = 0 /\ 16 <= e
    BY <1>2, <2>1
  <2>6. e % 4 = 0
    BY <1>2
  <2> HIDE DEF e
  <2>7. slot' \in [DOMAIN slot' -> Nat] /\ DOMAIN slot' \subseteq Nat
    <3>1. 0 \in Nat
      OBVIOUS
    <3> QED
      BY <1>2, <2>3, <2>5, <3>1, SlotPut DEF Sized
  <2>8. Kept(slot, slot', 16, e) /\ e \in DOMAIN slot' /\ slot'[e] = 0
    <3> DEFINE l == 16
    <3>1. l \in Nat /\ e <= e
      BY <2>5
    <3> HIDE DEF l
    <3>2. Kept(slot, slot', l, e) /\ e \in DOMAIN slot' /\ slot'[e] = 0
      BY <2>3, <2>5, <3>1, PutKeeps
    <3> QED
      BY <3>2 DEF l
  <2>9. /\ Kept(content, content', 0, e)
        /\ e + 4 \in DOMAIN content' /\ content'[e + 4] = <<"bundle">>
    <3> DEFINE x == e + 4
    <3>1. x \in Nat /\ e <= x /\ 0 \in Nat
      BY <2>5
    <3> HIDE DEF x
    <3>2. content' = Osc!Put(content, x, <<"bundle">>)
      BY <2>4 DEF x
    <3>3. Kept(content, content', 0, e) /\ x \in DOMAIN content' /\ content'[x] = <<"bundle">>
      BY <2>5, <3>1, <3>2, PutKeeps
    <3> QED
      BY <3>3 DEF x
  <2>10. Osc!InBundle(content') /\ Kept(content, content', 16, e)
    <3>1. 0 \in DOMAIN content' /\ content'[0] = content[0]
      BY <2>1, <2>5, <2>9 DEF Kept, Osc!InBundle
    <3> QED
      BY <2>1, <2>9, <3>1 DEF Osc!InBundle, Kept
  <2>11. Osc!ElementsLie(slot', content', written, 16, e)
    <3> DEFINE l == 16
    <3>1. l \in Nat /\ Kept(slot, slot', l, e) /\ Kept(content, content', l, e)
          /\ Osc!ElementsLie(slot, content, written, l, e)
      BY <2>1, <2>8, <2>10
    <3> HIDE DEF l
    <3>2. Osc!ElementsLie(slot', content', written, l, e)
      BY <1>2, <2>5, <3>1, ElementsKept
    <3> QED
      BY <3>2 DEF l
  <2>12. Osc!MessagesLie(slot', content', <<>>, e + 20, e + 20)
    <3>1. e + 20 \in Nat
      BY <2>5
    <3> QED
      BY <3>1, NothingLies
  <2>13. written' = written \o <<>> /\ <<>> \in Seq(Osc!Messages)
    BY <1>2, <1>3
  <2>14. e + 20 >= e + 20 /\ e >= 16
    BY <2>1, <2>5
  <2>15. elementSizePtr' = e /\ messageCursor' = e + 20
    BY <2>3, <2>4, <2>5
  <2>16. Osc!Inner'
    <3>1. \E v, w \in Seq(Osc!Messages) :
            /\ written' = v \o w /\ Osc!ElementsLie(slot', content', v, 16, elementSizePtr')
            /\ Osc!MessagesLie(slot', content', w, elementSizePtr' + 20, messageCursor')
      BY <1>2, <2>11, <2>12, <2>13, <2>15
    <3>2. /\ elementSizePtr' \in DOMAIN slot' /\ elementSizePtr' >= 16 /\ elementSizePtr' % 4 = 0
          /\ slot'[elementSizePtr'] = 0 /\ messageCursor' >= elementSizePtr' + 20
          /\ elementSizePtr' + 4 \in DOMAIN content' /\ content'[elementSizePtr' + 4] = <<"bundle">>
      BY <2>6, <2>8, <2>9, <2>14, <2>15
    <3> QED
      BY <1>3, <2>10, <3>1, <3>2 DEF Osc!Inner, Osc!Within, Osc!InBundle
  <2>17. messageCursor' % 4 = 0
    BY <2>4, <2>5
  <2> QED
    BY <2>7, <2>16, <2>17 DEF Osc!Phase
<1>7. CASE Osc!Inner /\ elementSizePtr \in Nat /\ elementSizePtr >= 16
  <2>1. Osc!Nesting = 2
    <3>1. elementSizePtr # -1 /\ elementSizePtr # 0
      BY <1>7
    <3> QED
      BY <3>1 DEF Osc!Nesting, Osc!None
  <2> QED
    BY <1>3, <2>1
<1>8. Osc!Nesting = 0 => messageCursor = 0
  BY <1>3
<1> QED
  BY <1>1, <1>3, <1>5, <1>6, <1>7, <1>8, BeforeElement

\* The same of a bundle inside the packet's
LEMMA WithinKept ==
  ASSUME NEW s, NEW t, NEW c, NEW d, NEW ms, NEW b \in Nat, NEW e \in Nat,
         Osc!Within(s, c, ms, b, e), Kept(s, t, 0, e), Kept(c, d, 0, e)
  PROVE  Osc!Within(t, d, ms, b, e)
<1>1. /\ b \in DOMAIN s /\ b >= 16 /\ b % 4 = 0 /\ s[b] = 0 /\ Osc!InBundle(c) /\ e >= b + 20
      /\ b + 4 \in DOMAIN c /\ c[b + 4] = <<"bundle">>
  BY DEF Osc!Within
<1>2. PICK v, w \in Seq(Osc!Messages) :
        ms = v \o w /\ Osc!ElementsLie(s, c, v, 16, b) /\ Osc!MessagesLie(s, c, w, b + 20, e)
  BY DEF Osc!Within
<1> DEFINE l == 16
           x == b + 20
           y == b + 4
<1>3. l \in Nat /\ x \in Nat /\ y \in Nat /\ y < e /\ b < e /\ 0 <= x /\ 0 <= y /\ 0 <= b /\ 0 < e
  BY <1>1
<1>4. 0 <= l /\ b <= e
  BY <1>3
<1> HIDE DEF l, x, y
<1>5. b \in DOMAIN t /\ t[b] = s[b]
  BY <1>1, <1>3 DEF Kept
<1>6. y \in DOMAIN d /\ d[y] = c[y]
  BY <1>1, <1>3 DEF Kept, y
<1>7. 0 \in DOMAIN d /\ d[0] = c[0]
  <2>1. 0 \in DOMAIN c /\ 0 \in Nat /\ 0 <= 0
    BY <1>1 DEF Osc!InBundle
  <2> QED
    BY <1>3, <2>1 DEF Kept
<1>8. ASSUME NEW f, NEW g, Kept(f, g, 0, e)
      PROVE  Kept(f, g, l, b) /\ Kept(f, g, x, e)
  <2>1. ASSUME NEW z \in Nat, l <= z, z < b PROVE 0 <= z /\ z < e
    BY <1>3, <1>4, <2>1
  <2>2. ASSUME NEW z \in Nat, x <= z, z < e PROVE 0 <= z
    OBVIOUS
  <2> QED
    BY <1>8, <2>1, <2>2 DEF Kept
<1>9. Osc!ElementsLie(s, c, v, l, b) /\ Osc!MessagesLie(s, c, w, x, e)
  BY <1>2 DEF l, x
<1>10. Osc!ElementsLie(t, d, v, l, b)
  BY <1>3, <1>8, <1>9, ElementsKept
<1>11. Osc!MessagesLie(t, d, w, x, e)
  BY <1>3, <1>8, <1>9, MessagesKept
<1>12. \E v_, w_ \in Seq(Osc!Messages) :
         ms = v_ \o w_ /\ Osc!ElementsLie(t, d, v_, 16, b) /\ Osc!MessagesLie(t, d, w_, b + 20, e)
  BY <1>2, <1>10, <1>11 DEF l, x
<1> QED
  BY <1>1, <1>5, <1>6, <1>7, <1>12 DEF Osc!Within, Osc!InBundle, y

LEMMA WithinAppended ==
  ASSUME NEW s, NEW c, NEW ms \in Seq(Osc!Messages), NEW m \in Osc!Messages,
         NEW b \in Nat, NEW e \in Nat, NEW q \in Nat,
         Osc!Within(s, c, ms, b, e), e \in DOMAIN s, q = e + 4 + s[e], q > e + 4,
         Osc!MessageLies(c, m, e + 4, q)
  PROVE  Osc!Within(s, c, Append(ms, m), b, q)
<1>1. /\ b \in DOMAIN s /\ b >= 16 /\ b % 4 = 0 /\ s[b] = 0 /\ Osc!InBundle(c) /\ e >= b + 20
      /\ b + 4 \in DOMAIN c /\ c[b + 4] = <<"bundle">>
  BY DEF Osc!Within
<1>2. PICK v, w \in Seq(Osc!Messages) :
        ms = v \o w /\ Osc!ElementsLie(s, c, v, 16, b) /\ Osc!MessagesLie(s, c, w, b + 20, e)
  BY DEF Osc!Within
<1> DEFINE x == b + 20
<1>3. x \in Nat /\ q >= x
  BY <1>1
<1> HIDE DEF x
<1>4. Osc!MessagesLie(s, c, w, x, e)
  BY <1>2 DEF x
<1>5. Osc!MessagesLie(s, c, Append(w, m), x, q)
  BY <1>3, <1>4, MessageAppended
<1>6. Append(ms, m) = v \o Append(w, m) /\ Append(w, m) \in Seq(Osc!Messages)
  <2> DEFINE M == Osc!Messages
  <2>1. v \in Seq(M) /\ w \in Seq(M) /\ m \in M
    OBVIOUS
  <2> HIDE DEF M
  <2>2. Append(v \o w, m) = v \o Append(w, m) /\ Append(w, m) \in Seq(M)
    <3>1. <<m>> \in Seq(M) /\ v \o w \in Seq(M) /\ Append(w, m) \in Seq(M)
      BY <2>1
    <3>2. Append(v \o w, m) = (v \o w) \o <<m>> /\ Append(w, m) = w \o <<m>>
      BY <2>1, <3>1, AppendIsConcat
    <3>3. (v \o w) \o <<m>> = v \o (w \o <<m>>)
      BY <2>1, <3>1, ConcatAssociative, SMTT(30)
    <3> QED
      BY <3>1, <3>2, <3>3
  <2> QED
    BY <1>2, <2>2 DEF M
<1>7. \E f, g \in Seq(Osc!Messages) :
        Append(ms, m) = f \o g /\ Osc!ElementsLie(s, c, f, 16, b)
          /\ Osc!MessagesLie(s, c, g, b + 20, q)
  BY <1>2, <1>5, <1>6 DEF x
<1>8. q >= b + 20
  BY <1>3 DEF x
<1> QED
  BY <1>1, <1>7, <1>8 DEF Osc!Within

\* A message begins: the whole packet, or behind its slot in a bundle.
LEMMA MessageBegins ==
  ASSUME NEW a \in AddrLens, Osc!IndInv, Osc!PlacedInv, Osc!BeginMessage(a)
  PROVE  Osc!PlacedInv'
<1>1. Numbers /\ Osc!Phase
  BY NumbersHold
<1>2. /\ messageCursor \in Nat /\ messageCursor % 4 = 0 /\ Sized /\ DOMAIN slot \subseteq Nat
      /\ written \in Seq(Osc!Messages) /\ a \in Nat /\ a + 1 \in Nat
  BY <1>1, SizesAssumption DEF Numbers
<1> DEFINE e == messageCursor
           u == Osc!RoundUp4(a + 1)
<1>3. /\ ~inProgress /\ inProgress' = TRUE /\ received = Osc!Unread /\ received' = received
      /\ Osc!Nesting = 0 => messageCursor = 0
      /\ Osc!BeginElement(e)
      /\ messageCursor' = e + Osc!SizeSlot + u /\ argumentCurrent' = messageCursor'
      /\ addr' = a /\ tags' = <<>> /\ content' = content /\ written' = written
  BY DEF Osc!BeginMessage
<1>4. u \in Nat /\ u % 4 = 0
  BY <1>2, Words
<1>5. SUFFICES /\ slot' \in [DOMAIN slot' -> Nat] /\ DOMAIN slot' \subseteq Nat
               /\ messageCursor' \in Nat /\ messageCursor' % 4 = 0 /\ Osc!Phase'
  <2>1. ASSUME slot' \in [DOMAIN slot' -> Nat], DOMAIN slot' \subseteq Nat,
               messageCursor' \in Nat, messageCursor' % 4 = 0, Osc!Phase'
        PROVE  Osc!PlacedInv'
    <3>1. Osc!ArgsLie(tags', messageCursor', argumentCurrent')
      BY <1>3, <2>1, NoArguments
    <3> QED
      BY <1>2, <1>3, <2>1, <3>1 DEF Osc!PlacedInv
  <2> QED
    BY <2>1
<1> HIDE DEF u
<1>6. CASE Osc!Fresh
  <2>1. elementSizePtr = -1 /\ e = 0 /\ written = <<>>
    BY <1>6 DEF Osc!Fresh, Osc!None
  <2>2. Osc!SizeSlot = 0 /\ elementSizePtr' = 0 /\ slot' = slot
    BY <1>3, <2>1 DEF Osc!SizeSlot, Osc!BeginElement, Osc!None
  <2>3. messageCursor' = u
    BY <1>3, <1>4, <2>1, <2>2
  <2>4. Osc!AloneBegun'
    BY <1>3, <2>1, <2>2, <2>3 DEF Osc!AloneBegun, u
  <2> QED
    BY <1>2, <1>4, <2>2, <2>3, <2>4 DEF Sized, Osc!Phase
<1>7. ASSUME elementSizePtr \in Nat
      PROVE  /\ messageCursor' = e + 4 + u /\ elementSizePtr' = e
             /\ slot' = Osc!Put(slot, e, elementSizePtr)
             /\ messageCursor' \in Nat /\ messageCursor' % 4 = 0
             /\ slot' \in [DOMAIN slot' -> Nat] /\ DOMAIN slot' \subseteq Nat
             /\ e \in DOMAIN slot' /\ slot'[e] = elementSizePtr /\ Kept(slot, slot', 0, e)
             /\ Kept(slot, slot', 16, e) /\ Osc!BegunAt(elementSizePtr)'
  <2>1. elementSizePtr # -1
    BY <1>7
  <2>2. Osc!SizeSlot = 4 /\ elementSizePtr' = e /\ slot' = Osc!Put(slot, e, elementSizePtr)
    BY <1>3, <2>1 DEF Osc!SizeSlot, Osc!BeginElement, Osc!None
  <2>3. e \in Nat /\ e % 4 = 0 /\ e <= e /\ 0 \in Nat
    BY <1>2
  <2> HIDE DEF e
  <2>4. messageCursor' = e + 4 + u /\ messageCursor' \in Nat /\ messageCursor' % 4 = 0
    BY <1>3, <1>4, <2>2, <2>3
  <2>5. slot' \in [DOMAIN slot' -> Nat] /\ DOMAIN slot' \subseteq Nat
    BY <1>2, <1>7, <2>2, <2>3, SlotPut DEF Sized
  <2>6. e \in DOMAIN slot' /\ slot'[e] = elementSizePtr /\ Kept(slot, slot', 0, e)
    BY <2>2, <2>3, PutKeeps
  <2>7. Kept(slot, slot', 16, e)
    BY <2>6 DEF Kept
  <2>8. Osc!BegunAt(elementSizePtr)'
    BY <1>3, <2>2, <2>4 DEF Osc!BegunAt, u
  <2> QED
    BY <2>2, <2>4, <2>5, <2>6, <2>7, <2>8
<1>8. CASE Osc!Outer /\ elementSizePtr = 0
  <2>1. /\ Osc!InBundle(content) /\ e >= 16
        /\ Osc!ElementsLie(slot, content, written, 16, e)
    BY <1>8 DEF Osc!Outer
  <2>2. /\ elementSizePtr' = e /\ e \in DOMAIN slot' /\ slot'[e] = 0
        /\ Kept(slot, slot', 16, e) /\ Osc!BegunAt(elementSizePtr)'
    BY <1>7, <1>8
  <2>3. Osc!ElementsLie(slot', content', written', 16, e)
    <3> DEFINE l == 16
    <3>1. l \in Nat /\ Kept(slot, slot', l, e) /\ Osc!ElementsLie(slot, content, written, l, e)
      BY <2>1, <2>2
    <3> HIDE DEF l, e
    <3>2. e \in Nat
      BY <1>2 DEF e
    <3>3. Kept(content, content, l, e)
      BY DEF Kept
    <3>4. Osc!ElementsLie(slot', content, written, l, e)
      BY <1>2, <3>1, <3>2, <3>3, ElementsKept
    <3> QED
      BY <1>3, <3>4 DEF l
  <2> HIDE DEF e
  <2>4. Osc!OuterBegun'
    <3>1. /\ elementSizePtr' \in DOMAIN slot' /\ elementSizePtr' >= 16 /\ slot'[elementSizePtr'] = 0
          /\ Osc!InBundle(content')
          /\ Osc!ElementsLie(slot', content', written', 16, elementSizePtr')
      BY <1>3, <2>1, <2>2, <2>3
    <3> QED
      BY <2>2, <3>1 DEF Osc!OuterBegun
  <2> QED
    BY <1>7, <1>8, <2>4 DEF Osc!Phase
<1>9. CASE Osc!Inner /\ elementSizePtr \in Nat /\ elementSizePtr >= 16
  <2> DEFINE b == elementSizePtr
  <2>1. Osc!Within(slot, content, written, b, e)
    BY <1>9 DEF Osc!Inner
  <2>2. /\ elementSizePtr' = e /\ e \in DOMAIN slot' /\ slot'[e] = b
        /\ Kept(slot, slot', 0, e) /\ Osc!BegunAt(elementSizePtr)'
    BY <1>7, <1>9
  <2>3. Osc!Within(slot', content', written', b, e)
    <3> HIDE DEF b, e
    <3>1. b \in Nat /\ e \in Nat
      BY <1>2, <1>9 DEF b, e
    <3>2. Kept(content, content, 0, e)
      BY DEF Kept
    <3>3. Osc!Within(slot', content, written, b, e)
      BY <2>1, <2>2, <3>1, <3>2, WithinKept
    <3> QED
      BY <1>3, <3>3
  <2>4. b > 0
    BY <1>9
  <2> HIDE DEF b, e
  <2>5. Osc!InnerBegun'
    <3>1. /\ elementSizePtr' \in DOMAIN slot' /\ slot'[elementSizePtr'] > 0
          /\ Osc!Within(slot', content', written', slot'[elementSizePtr'], elementSizePtr')
      BY <2>2, <2>3, <2>4
    <3> QED
      BY <2>2, <3>1 DEF Osc!InnerBegun
  <2> QED
    BY <1>7, <1>9, <2>5 DEF Osc!Phase
<1> QED
  BY <1>1, <1>3, <1>6, <1>8, <1>9, BeforeElement

\* An argument is put in.
LEMMA ArgumentPlaced ==
  ASSUME NEW x \in Osc!Args, Osc!IndInv, Osc!PlacedInv, Osc!Argument(x)
  PROVE  Osc!PlacedInv'
<1>1. Numbers /\ Osc!Phase
  BY NumbersHold
<1>2. /\ inProgress /\ tags' = Append(tags, x) /\ argumentCurrent' = argumentCurrent + Osc!Width(x)
      /\ argumentCurrent + Osc!Width(x) + Osc!RoundUp4(Len(tags) + 3) <= Capacity
      /\ UNCHANGED <<messageCursor, elementSizePtr, inProgress, addr, slot, content, written,
                     received>>
  BY DEF Osc!Argument, Osc!Fits, Osc!bufVars
<1>3. /\ argumentCurrent \in Nat /\ argumentCurrent % 4 = 0 /\ messageCursor \in Nat
      /\ tags \in Seq(Osc!Args) /\ Osc!ArgsLie(tags, messageCursor, argumentCurrent)
  BY <1>1, <1>2 DEF Numbers
<1>4. Osc!Width(x) \in Nat /\ Osc!Width(x) % 4 = 0
  <2> DEFINE r == Osc!RoundUp4(Len(tags) + 3)
             w == Osc!Width(x)
  <2>1. w \in Nat
    BY WidthType
  <2>2. r \in Nat
    <3>1. Len(tags) + 3 \in Nat
      BY <1>3
    <3> QED
      BY <3>1, Words
  <2> HIDE DEF r, w
  <2>3. argumentCurrent + w <= Capacity
    BY <1>2, <1>3, <2>1, <2>2, SizesAssumption DEF r, w
  <2> QED
    BY <1>3, <2>3, Skips DEF w
<1>5. Osc!ArgsLie(tags', messageCursor', argumentCurrent')
  BY <1>2, <1>3, OneArgument
<1>6. argumentCurrent' % 4 = 0
  <2> DEFINE w == Osc!Width(x)
  <2> HIDE DEF w
  <2>1. (argumentCurrent + w) % 4 = 0
    BY <1>3, <1>4, WordSums DEF w
  <2> QED
    BY <1>2, <2>1 DEF w
<1>7. Osc!Phase'
  <2>1. Osc!AloneBegun \/ Osc!OuterBegun \/ Osc!InnerBegun
    BY <1>1, <1>2 DEF Osc!Phase, Osc!Fresh, Osc!Alone, Osc!Outer, Osc!Inner
  <2>2. CASE Osc!AloneBegun
    BY <1>2, <2>2 DEF Osc!AloneBegun, Osc!Phase
  <2>3. CASE Osc!OuterBegun
    BY <1>2, <2>3 DEF Osc!OuterBegun, Osc!BegunAt, Osc!Phase
  <2>4. CASE Osc!InnerBegun
    BY <1>2, <2>4 DEF Osc!InnerBegun, Osc!BegunAt, Osc!Phase
  <2> QED
    BY <2>1, <2>2, <2>3, <2>4
<1> QED
  BY <1>2, <1>5, <1>6, <1>7 DEF Osc!PlacedInv

\* A message ends: its arguments have moved, and it lies where it began.
LEMMA MessageEnds ==
  ASSUME Osc!IndInv, Osc!PlacedInv, Osc!EndMessage
  PROVE  Osc!PlacedInv'
<1> DEFINE u == Osc!RoundUp4(addr + 1)
           t == Osc!TagSlot(Len(tags))
           end == argumentCurrent + t
           at == messageCursor - u
           m == <<addr, tags>>
           ms == written
           e == elementSizePtr
<1>1. Numbers /\ Osc!Phase
  BY NumbersHold
<1>2. /\ inProgress /\ ~inProgress' /\ Osc!EndElement(end) /\ messageCursor' = end
      /\ argumentCurrent' = end /\ content' = Osc!Put(content, at, <<"message", addr, tags>>)
      /\ written' = Append(ms, m) /\ addr' = addr /\ received' = received /\ tags' = <<>>
  BY DEF Osc!EndMessage
<1>3. /\ argumentCurrent \in Nat /\ argumentCurrent % 4 = 0
      /\ messageCursor \in Nat /\ messageCursor % 4 = 0 /\ addr \in Nat
      /\ tags \in Seq(Osc!Args) /\ ms \in Seq(Osc!Messages) /\ Sized /\ DOMAIN slot \subseteq Nat
      /\ Osc!ArgsLie(tags, messageCursor, argumentCurrent)
  BY <1>1, <1>2 DEF Numbers
<1>4. /\ u \in Nat /\ u % 4 = 0 /\ u > 0 /\ t \in Nat /\ t % 4 = 0 /\ t > 0
  <2>1. addr + 1 \in Nat /\ Len(tags) + 2 \in Nat
    BY <1>3
  <2>2. u \in Nat /\ u % 4 = 0 /\ u >= addr + 1
    BY <2>1, Words
  <2>3. t \in Nat /\ t % 4 = 0 /\ t >= Len(tags) + 2
    BY <2>1, Words DEF Osc!TagSlot
  <2> HIDE DEF u, t
  <2>4. Len(tags) \in Nat
    BY <1>3
  <2> QED
    BY <1>3, <2>2, <2>3, <2>4
<1>5. end <= Capacity
  BY <1>2 DEF Osc!IndInv, Osc!Size
<1>6. m \in Osc!Messages
  BY <1>3 DEF Osc!Messages
<1>7. m[1] = addr /\ m[2] = tags
  OBVIOUS
<1>8. Osc!PlacedInv => received = Osc!Unread
  BY <1>2 DEF Osc!PlacedInv
<1> HIDE DEF u, t
<1>9. end \in Nat /\ end % 4 = 0 /\ end > 0
  BY <1>3, <1>4, WordSums
<1>10. ASSUME at \in Nat
       PROVE  /\ Osc!MessageLies(content', m, at, end) /\ end > at
              /\ Kept(content, content', 0, at)
  <2>1. at \in DOMAIN content' /\ content'[at] = <<"message", addr, tags>>
        /\ Kept(content, content', 0, at)
    <3> HIDE DEF at
    <3>1. at <= at /\ 0 \in Nat
      BY <1>10
    <3> QED
      BY <1>2, <1>10, <3>1, PutKeeps
  <2>2. Osc!ArgsLie(tags, messageCursor + t, argumentCurrent + t)
    BY <1>3, <1>4, MovedArguments
  <2>3. at + u = messageCursor
    BY <1>3, <1>4
  <2>4. Osc!ArgsLie(m[2], at + Osc!RoundUp4(m[1] + 1) + Osc!TagSlot(Len(m[2])), end)
    BY <1>7, <2>2, <2>3 DEF u, t
  <2>5. at % 4 = 0 /\ end > at /\ (end - at) % 4 = 0
    <3>1. messageCursor <= argumentCurrent
      BY <1>3, ArgumentsForward
    <3>2. at % 4 = 0
      <4>1. messageCursor >= u
        BY <1>3, <1>4, <1>10
      <4> QED
        BY <1>3, <1>4, <4>1, WordSums
    <3> DEFINE x == end
    <3>3. x \in Nat /\ x % 4 = 0
      BY <1>9
    <3>4. end > at
      BY <1>3, <1>4, <1>10, <2>3, <3>1
    <3> HIDE DEF x, at
    <3>5. x >= at
      BY <1>10, <3>3, <3>4 DEF x
    <3>6. (x - at) % 4 = 0
      BY <1>10, <3>2, <3>3, <3>5, WordSums
    <3> QED
      BY <3>2, <3>4, <3>6 DEF x
  <2> HIDE DEF at, end, m
  <2> QED
    BY <1>5, <1>6, <1>7, <2>1, <2>4, <2>5 DEF Osc!MessageLies
<1>11. written' \in Seq(Osc!Messages)
  <2> HIDE DEF m
  <2> QED
    BY <1>2, <1>3, <1>6, AppendProperties
<1>12. SUFFICES /\ slot' \in [DOMAIN slot' -> Nat] /\ DOMAIN slot' \subseteq Nat /\ Osc!Phase'
  <2>1. ASSUME slot' \in [DOMAIN slot' -> Nat], DOMAIN slot' \subseteq Nat, Osc!Phase'
        PROVE  Osc!PlacedInv'
    BY <1>2, <1>3, <1>8, <1>9, <1>11, <2>1 DEF Osc!PlacedInv
  <2> QED
    BY <2>1
<1>13. CASE Osc!AloneBegun
  <2>1. e = 0 /\ messageCursor = u /\ ms = <<>>
    BY <1>13 DEF Osc!AloneBegun, u
  <2>2. at = 0 /\ at \in Nat
    BY <1>3, <1>4, <2>1
  <2>3. elementSizePtr' = Osc!None /\ slot' = slot
    BY <1>2, <2>1 DEF Osc!EndElement
  <2>4. written' = <<m>> /\ Osc!MessageLies(content', m, 0, messageCursor')
    <3>1. Osc!MessageLies(content', m, at, end)
      BY <1>10, <2>2
    <3>2. Append(<<>>, m) = <<m>>
      OBVIOUS
    <3> QED
      BY <1>2, <2>1, <2>2, <3>1, <3>2
  <2>5. Osc!Alone'
    <3>1. \E z : written' = <<z>> /\ Osc!MessageLies(content', z, 0, messageCursor')
      BY <2>4
    <3> QED
      BY <1>2, <1>9, <2>3, <3>1 DEF Osc!Alone
  <2> QED
    BY <1>3, <2>3, <2>5 DEF Sized, Osc!Phase
<1>14. ASSUME e \in DOMAIN slot, e >= 16, Osc!BegunAt(e)
       PROVE  /\ at = e + 4 /\ at \in Nat /\ e \in Nat /\ elementSizePtr' = slot[e]
              /\ slot' = Osc!Put(slot, e, end - e - 4) /\ end - e - 4 \in Nat
              /\ end = e + 4 + (end - e - 4)
              /\ slot' \in [DOMAIN slot' -> Nat] /\ DOMAIN slot' \subseteq Nat
              /\ e \in DOMAIN slot' /\ slot'[e] = end - e - 4 /\ Kept(slot, slot', 0, e)
              /\ Kept(content, content', 0, e) /\ end > e + 4
              /\ Osc!MessageLies(content', m, e + 4, end)
  <2>1. e \in Nat /\ e # 0
    BY <1>3, <1>14
  <2>2. messageCursor = e + 4 + u
    BY <1>14 DEF Osc!BegunAt, u
  <2>3. at = e + 4 /\ at \in Nat
    BY <1>4, <2>1, <2>2
  <2>4. Osc!MessageLies(content', m, at, end) /\ end > at /\ Kept(content, content', 0, at)
    BY <1>10, <2>3
  <2> HIDE DEF at
  <2>5. elementSizePtr' = slot[e] /\ slot' = Osc!Put(slot, e, end - e - 4)
    BY <1>2, <2>1 DEF Osc!EndElement, Osc!ElementSize
  <2> DEFINE v == end - e - 4
  <2> HIDE DEF end, e
  <2>6. v \in Nat /\ end = e + 4 + v /\ end > e + 4
    BY <1>9, <2>1, <2>3, <2>4
  <2> HIDE DEF v
  <2>7. slot' = Osc!Put(slot, e, v)
    BY <2>5 DEF v
  <2>8. slot' \in [DOMAIN slot' -> Nat] /\ DOMAIN slot' \subseteq Nat
    BY <1>3, <2>1, <2>6, <2>7, SlotPut DEF Sized
  <2>9. e \in DOMAIN slot' /\ slot'[e] = v /\ Kept(slot, slot', 0, e)
    <3>1. e <= e /\ 0 \in Nat
      BY <2>1
    <3> QED
      BY <2>1, <2>7, <3>1, PutKeeps
  <2>10. Kept(content, content', 0, e)
    <3>1. \A x \in Nat : x < e => x < at
      BY <2>1, <2>3
    <3> QED
      BY <2>4, <3>1 DEF Kept
  <2>11. Osc!MessageLies(content', m, e + 4, end)
    BY <2>3, <2>4
  <2> QED
    BY <2>1, <2>3, <2>5, <2>6, <2>7, <2>8, <2>9, <2>10, <2>11 DEF v
<1>15. CASE Osc!OuterBegun
  <2>1. /\ e \in DOMAIN slot /\ e >= 16 /\ slot[e] = 0 /\ Osc!InBundle(content)
        /\ Osc!BegunAt(e) /\ Osc!ElementsLie(slot, content, ms, 16, e)
    BY <1>15 DEF Osc!OuterBegun
  <2>2. /\ e \in Nat /\ elementSizePtr' = 0 /\ end = e + 4 + slot'[e]
        /\ slot' \in [DOMAIN slot' -> Nat] /\ DOMAIN slot' \subseteq Nat
        /\ e \in DOMAIN slot' /\ Kept(slot, slot', 0, e)
        /\ Kept(content, content', 0, e) /\ end > e + 4
        /\ Osc!MessageLies(content', m, e + 4, end)
    BY <1>14, <2>1
  <2> HIDE DEF e, end, m, ms
  <2>3. Osc!InBundle(content')
    <3>1. 0 < e /\ 0 <= 0 /\ 0 \in Nat
      BY <2>1, <2>2
    <3> QED
      BY <2>1, <2>2, <3>1 DEF Kept, Osc!InBundle
  <2> DEFINE l == 16
  <2>4. l \in Nat /\ Kept(slot, slot', l, e) /\ Kept(content, content', l, e)
    BY <2>2 DEF Kept
  <2>5. Osc!ElementsLie(slot, content, ms, l, e)
    BY <2>1
  <2> HIDE DEF l
  <2>6. Osc!ElementsLie(slot', content', ms, l, e)
    BY <1>3, <2>2, <2>4, <2>5, ElementsKept
  <2>7. Osc!ElementLies(slot', content', <<m>>, e + 4, end)
    BY <2>2 DEF Osc!ElementLies
  <2>8. <<m>> \in Seq(Osc!Messages) /\ written' = ms \o <<m>>
    <3>1. <<m>> \in Seq(Osc!Messages)
      BY <1>6
    <3> QED
      BY <1>2, <1>3, <1>6, <3>1, AppendIsConcat
  <2>9. Osc!ElementsLie(slot', content', ms \o <<m>>, l, end)
    BY <1>3, <1>9, <2>2, <2>4, <2>6, <2>7, <2>8, ElementAppended
  <2>10. end >= 16
    BY <1>9, <2>1, <2>2
  <2>11. Osc!Outer'
    <3>1. Osc!ElementsLie(slot', content', written', 16, messageCursor')
      BY <1>2, <2>8, <2>9 DEF l
    <3> QED
      BY <1>2, <2>2, <2>3, <2>10, <3>1 DEF Osc!Outer
  <2> QED
    BY <2>2, <2>11 DEF Osc!Phase
<1>16. CASE Osc!InnerBegun
  <2> DEFINE b == slot[e]
  <2>1. e \in DOMAIN slot /\ b > 0 /\ Osc!BegunAt(e) /\ Osc!Within(slot, content, ms, b, e)
    BY <1>16 DEF Osc!InnerBegun
  <2>2. b \in Nat /\ b >= 16 /\ e >= b + 20 /\ e >= 16
    <3>1. b \in Nat /\ e \in Nat
      BY <1>3, <2>1 DEF Sized
    <3>2. b >= 16 /\ e >= b + 20
      BY <2>1 DEF Osc!Within
    <3> HIDE DEF b, e
    <3> QED
      BY <3>1, <3>2
  <2>3. /\ e \in Nat /\ elementSizePtr' = b /\ end = e + 4 + slot'[e]
        /\ slot' \in [DOMAIN slot' -> Nat] /\ DOMAIN slot' \subseteq Nat
        /\ e \in DOMAIN slot' /\ Kept(slot, slot', 0, e)
        /\ Kept(content, content', 0, e) /\ end > e + 4
        /\ Osc!MessageLies(content', m, e + 4, end)
    BY <1>14, <2>1, <2>2
  <2> HIDE DEF e, end, m, ms, b
  <2>4. Osc!Within(slot', content', ms, b, e)
    BY <2>1, <2>2, <2>3, WithinKept
  <2>5. Osc!Within(slot', content', Append(ms, m), b, end)
    BY <1>3, <1>6, <1>9, <2>2, <2>3, <2>4, WithinAppended
  <2>6. Osc!Inner'
    <3>1. Osc!Within(slot', content', written', elementSizePtr', messageCursor')
      BY <1>2, <2>3, <2>5
    <3> QED
      BY <1>2, <3>1 DEF Osc!Inner
  <2> QED
    BY <2>3, <2>6 DEF Osc!Phase
<1>17. Osc!AloneBegun \/ Osc!OuterBegun \/ Osc!InnerBegun
  BY <1>1, <1>2 DEF Osc!Phase, Osc!Fresh, Osc!Alone, Osc!Outer, Osc!Inner
<1> QED
  BY <1>13, <1>15, <1>16, <1>17

\* A bundle ends: the packet's, or one inside it.
LEMMA BundleEnds ==
  ASSUME Osc!IndInv, Osc!PlacedInv, Osc!EndBundle
  PROVE  Osc!PlacedInv'
<1> DEFINE e == messageCursor
           b == elementSizePtr
<1>1. Numbers /\ Osc!Phase
  BY NumbersHold
<1>2. /\ ~inProgress /\ b # -1 /\ Osc!EndElement(e)
      /\ UNCHANGED <<messageCursor, argumentCurrent, inProgress, addr, tags, content, written,
                     received>>
  BY DEF Osc!EndBundle, Osc!None
<1>3. /\ e \in Nat /\ e % 4 = 0 /\ argumentCurrent % 4 = 0 /\ addr \in Nat
      /\ written \in Seq(Osc!Messages) /\ Sized /\ DOMAIN slot \subseteq Nat
  BY <1>1 DEF Numbers
<1>4. received = Osc!Unread
  BY <1>2 DEF Osc!PlacedInv, Osc!None
<1>5. SUFFICES /\ slot' \in [DOMAIN slot' -> Nat] /\ DOMAIN slot' \subseteq Nat /\ Osc!Phase'
  <2>1. ASSUME slot' \in [DOMAIN slot' -> Nat], DOMAIN slot' \subseteq Nat, Osc!Phase'
        PROVE  Osc!PlacedInv'
    BY <1>2, <1>3, <1>4, <2>1 DEF Osc!PlacedInv
  <2> QED
    BY <2>1
<1>6. CASE Osc!Outer
  <2>1. b = 0
    BY <1>2, <1>6 DEF Osc!Outer, Osc!None
  <2>2. elementSizePtr' = Osc!None /\ slot' = slot
    BY <1>2, <2>1 DEF Osc!EndElement
  <2>3. Osc!Outer'
    BY <1>2, <1>6, <2>2 DEF Osc!Outer
  <2> QED
    BY <1>3, <2>2, <2>3 DEF Sized, Osc!Phase
<1>7. CASE Osc!Inner
  <2>1. Osc!Within(slot, content, written, b, e)
    BY <1>7 DEF Osc!Inner
  <2>2. /\ b \in DOMAIN slot /\ b >= 16 /\ b % 4 = 0 /\ slot[b] = 0 /\ Osc!InBundle(content)
        /\ e >= b + 20 /\ b + 4 \in DOMAIN content /\ content[b + 4] = <<"bundle">>
    BY <2>1 DEF Osc!Within
  <2>3. PICK v, w \in Seq(Osc!Messages) :
          /\ written = v \o w /\ Osc!ElementsLie(slot, content, v, 16, b)
          /\ Osc!MessagesLie(slot, content, w, b + 20, e)
    BY <2>1 DEF Osc!Within
  <2>4. b \in Nat /\ b # 0
    BY <1>3, <2>2
  <2> DEFINE z == e - b - 4
             l == 16
             x == b + 4
             y == b + 20
  <2>5. elementSizePtr' = 0 /\ slot' = Osc!Put(slot, b, z)
    BY <1>2, <2>2, <2>4 DEF Osc!EndElement, Osc!ElementSize
  <2> HIDE DEF e, b
  <2>6. /\ z \in Nat /\ e = b + 4 + z /\ e > b + 4 /\ x \in Nat /\ y \in Nat /\ y = x + 16
        /\ l \in Nat /\ b <= b /\ b < y /\ e >= 16 /\ e >= x + 16
    <3>1. e \in Nat /\ b \in Nat /\ e >= b + 20 /\ b >= 16
      BY <1>3, <2>2, <2>4
    <3> QED
      BY <3>1
  <2>7. (e - x) % 4 = 0
    <3>1. b \in Nat /\ b % 4 = 0
      BY <2>2, <2>4
    <3>2. x % 4 = 0
      BY <3>1
    <3>3. x \in Nat /\ e \in Nat /\ e >= x /\ e % 4 = 0
      BY <1>3, <2>6
    <3> HIDE DEF x
    <3> QED
      BY <3>2, <3>3, WordSums
  <2> HIDE DEF z, l, x, y
  <2>8. slot' \in [DOMAIN slot' -> Nat] /\ DOMAIN slot' \subseteq Nat
    BY <1>3, <2>4, <2>5, <2>6, SlotPut DEF Sized
  <2>9. b \in DOMAIN slot' /\ slot'[b] = z /\ Kept(slot, slot', l, b) /\ Kept(slot, slot', y, e)
    BY <1>3, <2>4, <2>5, <2>6, PutKeeps
  <2>10. Kept(content, content, l, b) /\ Kept(content, content, y, e)
    BY DEF Kept
  <2>11. Osc!ElementsLie(slot, content, v, l, b) /\ Osc!MessagesLie(slot, content, w, y, e)
    BY <2>3 DEF l, y
  <2>12. Osc!ElementsLie(slot', content, v, l, b)
    BY <2>4, <2>6, <2>9, <2>10, <2>11, ElementsKept
  <2>13. Osc!MessagesLie(slot', content, w, y, e)
    BY <1>3, <2>6, <2>9, <2>10, <2>11, MessagesKept
  <2>14. Osc!BundleLies(slot', content, w, x, e)
    BY <2>2, <2>6, <2>7, <2>13 DEF Osc!BundleLies, x
  <2>15. Osc!ElementLies(slot', content, w, b + 4, e)
    BY <2>14 DEF Osc!ElementLies, x
  <2>16. Osc!ElementsLie(slot', content, v \o w, l, e)
    BY <1>3, <2>4, <2>6, <2>9, <2>12, <2>15, ElementAppended
  <2>17. Osc!Outer'
    <3>1. Osc!ElementsLie(slot', content', written', 16, messageCursor')
      BY <1>2, <2>3, <2>16 DEF l, e
    <3>2. messageCursor' >= 16
      BY <1>2, <2>6 DEF e
    <3> QED
      BY <1>2, <2>2, <2>5, <3>1, <3>2 DEF Osc!Outer
  <2> QED
    BY <2>8, <2>17 DEF Osc!Phase
<1>8. Osc!Outer \/ Osc!Inner
  BY <1>1, <1>2 DEF Osc!Phase, Osc!Fresh, Osc!AloneBegun, Osc!Alone, Osc!OuterBegun,
                    Osc!InnerBegun, Osc!BegunAt, Osc!None
<1> QED
  BY <1>6, <1>7, <1>8

\* The receiver reads what was written.
LEMMA ReceiveReads ==
  ASSUME Osc!IndInv, Osc!PlacedInv, Osc!Receive
  PROVE  received' = written
<1> DEFINE q == messageCursor
<1>1. Numbers /\ Osc!Phase
  BY NumbersHold
<1>2. ~inProgress /\ elementSizePtr = -1 /\ received' = Osc!ReadPacket(Osc!Size)
      /\ messageCursor > 0
  BY DEF Osc!Receive, Osc!None
<1>3. /\ q \in Nat /\ q % 4 = 0 /\ argumentCurrent = q
      /\ written \in Seq(Osc!Messages) /\ Sized /\ DOMAIN slot \subseteq Nat
  BY <1>1, <1>2 DEF Numbers
<1>4. Osc!Size = q
  BY <1>2, <1>3 DEF Osc!Size
<1>5. CASE Osc!Alone
  <2>1. PICK m : written = <<m>> /\ Osc!MessageLies(content, m, 0, q)
    BY <1>5 DEF Osc!Alone
  <2> DEFINE z == 0
  <2>2. z \in Nat /\ q - z = q /\ Osc!MessageLies(content, m, z, q)
    BY <1>3, <2>1
  <2> HIDE DEF q, z
  <2>3. Osc!ReadMessage(z, q - z) = m /\ Osc!ContentAt(z) # <<"bundle">>
    BY <1>3, <2>2, MessageRead
  <2>4. Osc!ReadMessage(z, q) = m
    BY <2>2, <2>3
  <2>5. Osc!ReadPacket(q) = <<m>>
    BY <2>3, <2>4 DEF Osc!ReadPacket, Osc!ReadElement, z
  <2> QED
    BY <1>2, <1>4, <2>1, <2>5
<1>6. CASE Osc!Outer
  <2>1. Osc!InBundle(content) /\ q >= 16 /\ Osc!ElementsLie(slot, content, written, 16, q)
    BY <1>6 DEF Osc!Outer
  <2> DEFINE ms == written
  <2> HIDE DEF q, ms
  <2>2. Osc!ReadPacket(q) = ms
    BY <1>3, <2>1, PacketRead DEF ms
  <2> QED
    BY <1>2, <1>4, <2>2 DEF ms
<1>7. Osc!Alone \/ Osc!Outer
  <2>1. ~(messageCursor = 0) /\ ~(elementSizePtr >= 16)
    BY <1>2
  <2>2. ~Osc!Fresh /\ ~Osc!Inner
    BY <2>1 DEF Osc!Fresh, Osc!Inner, Osc!Within
  <2> QED
    BY <1>1, <1>2, <2>2 DEF Osc!Phase, Osc!AloneBegun, Osc!OuterBegun, Osc!InnerBegun, Osc!BegunAt
<1> QED
  BY <1>5, <1>6, <1>7

LEMMA ReceivePlaced ==
  ASSUME Osc!IndInv, Osc!PlacedInv, Osc!Receive
  PROVE  Osc!PlacedInv'
<1>1. received' = written
  BY ReceiveReads
<1>2. ~inProgress /\ elementSizePtr = Osc!None
  BY DEF Osc!Receive
<1>3. UNCHANGED <<messageCursor, argumentCurrent, elementSizePtr, inProgress, addr, tags, slot,
                  content, written>>
  BY DEF Osc!Receive, Osc!bufVars
<1>4. Osc!Phase' = Osc!Phase
  BY <1>3 DEF Osc!Phase, Osc!Fresh, Osc!AloneBegun, Osc!Alone, Osc!Outer, Osc!OuterBegun,
              Osc!Inner, Osc!InnerBegun, Osc!BegunAt
<1> QED
  BY <1>1, <1>2, <1>3, <1>4 DEF Osc!PlacedInv

LEMMA PlacedStep ==
  ASSUME Osc!IndInv, Osc!PlacedInv, Osc!Next
  PROVE  Osc!PlacedInv'
<1>1. CASE Osc!Clear
  <2>1. /\ messageCursor' = 0 /\ argumentCurrent' = 0 /\ elementSizePtr' = -1 /\ inProgress' = FALSE
        /\ addr' = 0 /\ slot' = Osc!Empty /\ written' = <<>> /\ received' = Osc!Unread
    BY <1>1 DEF Osc!Clear, Osc!None
  <2>2. slot' \in [DOMAIN slot' -> Nat] /\ DOMAIN slot' \subseteq Nat /\ 0 % 4 = 0
    BY <2>1 DEF Osc!Empty
  <2>3. Osc!Fresh'
    BY <2>1 DEF Osc!Fresh, Osc!None
  <2> QED
    BY <2>1, <2>2, <2>3 DEF Osc!PlacedInv, Osc!Phase
<1> QED
  BY <1>1, BundleBegins, BundleEnds, MessageBegins, MessageEnds, ArgumentPlaced, ReceivePlaced
     DEF Osc!Next

\* Whatever messages and bundles are written, one inside the other, and whatever strings
\* and blobs the messages carry, ReceivedPacket, ReceivedBundle and ReceivedMessage find
\* the messages in the packet, in their order and with their arguments, none malformed
\* (OscOutboundPacketStream.cpp:196, 304, OscReceivedElements.cpp:625, 671).
THEOREM ReadSafe == Spec => []PacketsReadBack
<1> DEFINE I == part = "osc" => Osc!IndInv /\ Osc!PlacedInv
<1>1. Init => I
  BY OscInit, PlacedInit DEF Init
<1>2. I /\ [Next]_all => I'
  <2> SUFFICES ASSUME I, [Next]_all, part = "osc" PROVE Osc!IndInv' /\ Osc!PlacedInv'
    BY PartSteps
  <2>1. CASE Osc!Next
    BY <2>1, OscStep, PlacedStep
  <2>2. CASE UNCHANGED oscVars
    <3>1. Osc!IndInv'
      BY <2>2 DEF oscVars, Osc!IndInv, Osc!Size
    <3>2. Osc!Phase' = Osc!Phase
      BY <2>2
      DEF oscVars, Osc!Phase, Osc!Fresh, Osc!AloneBegun, Osc!Alone, Osc!Outer, Osc!OuterBegun,
          Osc!Inner, Osc!InnerBegun, Osc!BegunAt
    <3> QED
      BY <2>2, <3>1, <3>2 DEF oscVars, Osc!PlacedInv
  <2> QED
    BY <2>1, <2>2, PartSteps
<1>3. I /\ BuffersHold => PacketsReadBack
  BY DEF PacketsReadBack, Osc!ReadAsWritten, Osc!PlacedInv, BuffersHold
<1> QED
  BY <1>1, <1>2, <1>3, BuffersSafe, PTL DEF Spec, Steps

===============================================================================
