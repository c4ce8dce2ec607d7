---------------------------- MODULE TuioBundles -----------------------------
(***************************************************************************)
(* How TuioServer fills its packets: commitFrame and sendFullMessages      *)
(* begin a bundle with the alive list, add a set message for a cursor or   *)
(* an object, and start a new packet when there may be no room for another *)
(* one and the fseq message that ends the packet.  Followed are the sizes  *)
(* in bytes, as OscStream has them.                                        *)
(***************************************************************************)
EXTENDS Naturals

CONSTANTS
  Capacities,    \* sizes of the buffer, from MIN_UDP_SIZE up
  MaxAlive       \* bound on the cursors or objects

VARIABLES
  profile,       \* "2Dcur", "3Dcur" or "2Dobj": what is sent
  capacity, alive,
  size,          \* oscPacket->Size()
  next,          \* how many of the list the loop has seen
  sending        \* "no", "yes" or "thrown": an OutOfBufferMemoryException

sizeVars == <<profile, capacity, alive, size, next, sending>>

Round4(x) == ((x + 3) \div 4) * 4

\* A message in a bundle: size, "/tuio/2Dcur", type tags, command and other arguments
Message(command, args) == 4 + 12 + Round4(args + 3) + Round4(command + 1) + 4 * args
AliveMessage(n) == Message(5, n)
FseqMessage == Message(4, 1)

\* addCursorMessage and addObjectMessage: session, position, speed and acceleration
SetMessage == Message(3, CASE profile = "2Dcur" -> 6
                           [] profile = "3Dcur" -> 8
                           [] profile = "2Dobj" -> 10)

\* OBJ_MESSAGE_SIZE and CUR_MESSAGE_SIZE
Reserved == IF profile = "2Dobj" THEN 108 ELSE 88

Init ==
  /\ profile = "2Dcur" /\ capacity = 0 /\ alive = 0 /\ size = 0 /\ next = 0 /\ sending = "no"

\* startCursorBundle: Clear, the header of the bundle and the alive list
Header(n) == 16 + AliveMessage(n)

\* The frame: what there is to send; the alive list and the fseq message have to fit.
Commit(p, c, n) ==
  /\ sending = "no" /\ Header(n) + FseqMessage <= c
  /\ profile' = p /\ capacity' = c /\ alive' = n
  /\ size' = Header(n) /\ next' = 0 /\ sending' = "yes"

\* One turn of the loop over the list: sendCursorBundle and startCursorBundle if the
\* room is short, then the set message if the member changed in this frame or a full
\* update is due.  Both messages are refused when they do not fit.
Turn(sent) ==
  LET short == capacity - size < Reserved
      begin == IF short THEN Header(alive) ELSE size
      end == IF sent THEN begin + SetMessage ELSE begin
  IN
  /\ sending = "yes" /\ next < alive
  /\ IF (short /\ size + FseqMessage > capacity) \/ end > capacity
       THEN sending' = "thrown" /\ UNCHANGED <<size, next>>
       ELSE size' = end /\ next' = next + 1 /\ UNCHANGED sending
  /\ UNCHANGED <<profile, capacity, alive>>

\* sendCursorBundle at the end
Finish ==
  /\ sending = "yes" /\ next = alive
  /\ sending' = IF size + FseqMessage > capacity THEN "thrown" ELSE "no"
  /\ UNCHANGED <<profile, capacity, alive, size, next>>

Next ==
  \/ \E p \in {"2Dcur", "3Dcur", "2Dobj"}, c \in Capacities, n \in 0..MaxAlive :
       Commit(p, c, n)
  \/ \E b \in BOOLEAN : Turn(b)
  \/ Finish

Spec == Init /\ [][Next]_sizeVars

\* Unless the alive list alone leaves no room for a message, a frame of cursors or
\* objects is sent without running out of the buffer: the reserve covers the set and the
\* fseq message (TuioServer.h:51).  It does not for cursors with three dimensions, whose
\* set message is eight bytes longer.
PacketsFit ==
  /\ size <= capacity
  /\ sending = "thrown" =>
       profile = "3Dcur" \/ Header(alive) + SetMessage + FseqMessage > capacity

\* The inductive invariant: what there is in the packet leaves room for the fseq message.
IndInv ==
  /\ profile \in {"2Dcur", "3Dcur", "2Dobj"} /\ capacity \in Nat /\ alive \in Nat /\ size \in Nat
  /\ PacketsFit
  /\ sending = "yes" =>
       \/ profile = "3Dcur" \/ Header(alive) + SetMessage + FseqMessage > capacity
       \/ size + FseqMessage <= capacity
=============================================================================
