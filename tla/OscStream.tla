----------------------------- MODULE OscStream ------------------------------
(***************************************************************************)
(* OSC packets in oscpack: OutboundPacketStream writes bundles and         *)
(* messages into a buffer of fixed size, ReceivedPacket, ReceivedBundle    *)
(* and ReceivedMessage read them back.  Followed are the offsets in the    *)
(* buffer, the element sizes stored in it, and per argument its type tag   *)
(* and its length; the values of arguments are not.  While a message is    *)
(* written its type tags grow downwards from the end of the buffer.        *)
(***************************************************************************)
EXTENDS Integers, Sequences, FiniteSetsExt, SequencesExt

CONSTANTS
  Capacity,      \* of the buffer
  AddrLens,      \* lengths of address patterns
  StrLens,       \* lengths of strings
  BlobSizes,
  MaxArgs,       \* bound on the arguments of a message
  MaxMsgs        \* bound on the messages of a packet

None == -1

VARIABLES
  messageCursor, argumentCurrent, elementSizePtr, inProgress,
  addr, tags,    \* the message in progress: its pattern's length and its arguments
  slot,          \* the size slots in the buffer: a size, or the offset of an outer slot
  content,       \* what starts at an offset: "bundle", or a message and its arguments
  written,       \* the messages of the packet, as they were put in
  received       \* the same as the receiver reads them; Unread before

oscVars == <<messageCursor, argumentCurrent, elementSizePtr, inProgress, addr, tags, slot,
             content, written, received>>
bufVars == <<slot, content, written>>

Unread == << <<"none">> >>

\* A part of the buffer that has not been written holds nothing.
Empty == [p \in {} |-> 0]
Put(f, p, v) == [q \in DOMAIN f \cup {p} |-> IF q = p THEN v ELSE f[q]]
At(f, p, default) == IF p \in DOMAIN f THEN f[p] ELSE default
ContentAt(p) == At(content, p, <<"none", 0, <<>>>>)
SlotAt(p) == At(slot, p, 0)

Args == [tag : {"T"}, len : {0}] \cup [tag : {"i"}, len : {4}] \cup [tag : {"d"}, len : {8}]
          \cup [tag : {"s"}, len : StrLens] \cup [tag : {"b"}, len : BlobSizes]

RoundUp4(x) == ((x + 3) \div 4) * 4

\* OutboundPacketStream and Clear
Init ==
  /\ messageCursor = 0 /\ argumentCurrent = 0 /\ elementSizePtr = None
  /\ inProgress = FALSE /\ addr = 0 /\ tags = <<>>
  /\ slot = Empty /\ content = Empty
  /\ written = <<>> /\ received = Unread

Clear ==
  /\ messageCursor' = 0 /\ argumentCurrent' = 0 /\ elementSizePtr' = None
  /\ inProgress' = FALSE /\ addr' = 0 /\ tags' = <<>>
  /\ slot' = Empty /\ content' = Empty
  /\ written' = <<>> /\ received' = Unread

-----------------------------------------------------------------------------
(* Writing.  A call that throws, for want of space, or to begin or end     *)
(* something out of order, leaves the stream as it is: it is an action     *)
(* that is not enabled.  That arguments are only put into a message is the *)
(* caller's duty: the operators for them ask for space alone, and outside  *)
(* a message they would write over its end and spoil Size.                 *)

TagSlot(n) == RoundUp4(n + 2)
Size == argumentCurrent + (IF inProgress THEN TagSlot(Len(tags)) ELSE 0)
SizeSlot == IF elementSizePtr = None THEN 0 ELSE 4

\* BeginElement: the slot of a nested element keeps the offset of the slot around it.
BeginElement(p) ==
  IF elementSizePtr = None
    THEN elementSizePtr' = 0 /\ UNCHANGED slot
    ELSE elementSizePtr' = p /\ slot' = Put(slot, p, elementSizePtr)

\* EndElement: the number of bytes behind the slot
ElementSize(p) == p - elementSizePtr - 4

EndElement(p) ==
  IF elementSizePtr = 0
    THEN elementSizePtr' = None /\ UNCHANGED slot
    ELSE /\ elementSizePtr' = slot[elementSizePtr]
         /\ slot' = Put(slot, elementSizePtr, ElementSize(p))

\* A packet is one message or one bundle, here with bundles of messages inside.
Nesting == IF elementSizePtr = None THEN 0 ELSE IF elementSizePtr = 0 THEN 1 ELSE 2

BeginBundle ==
  LET at == messageCursor + SizeSlot IN
  /\ ~inProgress /\ received = Unread
  /\ IF Nesting = 0 THEN messageCursor = 0 ELSE Nesting = 1
  /\ Size + SizeSlot + 16 <= Capacity
  /\ BeginElement(messageCursor)
  /\ content' = Put(content, at, <<"bundle">>)
  /\ messageCursor' = at + 16 /\ argumentCurrent' = at + 16
  /\ UNCHANGED <<inProgress, addr, tags, written, received>>

EndBundle ==
  /\ ~inProgress /\ elementSizePtr # None
  /\ EndElement(messageCursor)
  /\ UNCHANGED <<messageCursor, argumentCurrent, inProgress, addr, tags, content, written,
                 received>>

\* BeginMessage; the slot and the pattern come before the arguments.
BeginMessage(a) ==
  LET at == messageCursor + SizeSlot IN
  /\ ~inProgress /\ received = Unread /\ Len(written) < MaxMsgs
  /\ Nesting = 0 => messageCursor = 0
  /\ Size + SizeSlot + RoundUp4(a + 1) + 4 <= Capacity
  /\ BeginElement(messageCursor)
  /\ messageCursor' = at + RoundUp4(a + 1) /\ argumentCurrent' = at + RoundUp4(a + 1)
  /\ inProgress' = TRUE /\ addr' = a /\ tags' = <<>>
  /\ UNCHANGED <<content, written, received>>

\* Bytes an argument takes: strings are terminated and padded, blobs have a length and
\* are padded, the others have their width.
Width(x) ==
  CASE x.tag = "s" -> RoundUp4(x.len + 1)
    [] x.tag = "b" -> 4 + RoundUp4(x.len)
    [] OTHER -> x.len

\* Mutant: the terminator of the type tags is forgotten.
FitsWithoutEnd(x) == argumentCurrent + Width(x) + RoundUp4(Len(tags) + 1) <= Capacity
\* CheckForAvailableArgumentSpace, with one more type tag, the comma and the terminator
Fits(x) == argumentCurrent + Width(x) + RoundUp4(Len(tags) + 3) <= Capacity

\* operator<<, for a caller that has begun a message
Argument(x) ==
  /\ inProgress /\ Len(tags) < MaxArgs /\ Fits(x)
  /\ tags' = Append(tags, x) /\ argumentCurrent' = argumentCurrent + Width(x)
  /\ UNCHANGED <<messageCursor, elementSizePtr, inProgress, addr, bufVars, received>>

\* EndMessage: the arguments move up to make room for the type tags, or ",\0\0\0".
EndMessage ==
  LET end == argumentCurrent + TagSlot(Len(tags))
      at == messageCursor - RoundUp4(addr + 1)
  IN
  /\ inProgress
  /\ EndElement(end)
  /\ messageCursor' = end /\ argumentCurrent' = end /\ inProgress' = FALSE
  /\ content' = Put(content, at, <<"message", addr, tags>>)
  /\ written' = Append(written, <<addr, tags>>)
  /\ tags' = <<>> /\ UNCHANGED <<addr, received>>

-----------------------------------------------------------------------------
(* Reading.                                                                *)

\* FindStr4End: where a string of this length that starts at p ends, behind the first
\* aligned group that has a zero byte last
FindStr4End(p, len) == p + Min({k \in {4 * j : j \in 1..Capacity} : k > len})

\* One argument, in ReceivedMessage::Init and in the argument iterator
Advance(p, x) ==
  CASE x.tag = "T" -> p
    [] x.tag = "i" -> p + 4
    [] x.tag = "d" -> p + 8
    [] x.tag = "s" -> FindStr4End(p, x.len)
    [] x.tag = "b" -> p + 4 + (IF x.len % 4 = 0 THEN x.len ELSE x.len + 4 - (x.len % 4))

\* ReceivedMessage::Init for the message at p with the given size: what is read, or
\* <<"malformed">>
ReadMessage(p, size) ==
  LET a == ContentAt(p)[2]
      xs == ContentAt(p)[3]
      end == p + size
      tagsBegin == FindStr4End(p, a)
      arguments == FindStr4End(tagsBegin, Len(xs) + 1)
      at[k \in 0..Len(xs)] == IF k = 0 THEN arguments ELSE Advance(at[k - 1], xs[k])
      last == at[Len(xs)]
  IN IF size = 0 \/ size % 4 # 0 \/ tagsBegin > end
       THEN <<"malformed">>
     ELSE IF tagsBegin = end \/ xs = <<>> THEN <<a, <<>>>>
     ELSE IF arguments > end \/ last > end THEN <<"malformed">> ELSE <<a, xs>>

\* ReceivedBundle::Init: the offsets of the elements, and then that of the end
Elements(from, end) ==
  LET walk[p \in Nat] == IF p >= end THEN <<p>> ELSE <<p>> \o walk[p + 4 + SlotAt(p)]
  IN walk[from]

\* The elements of the bundle at p, each with its size
Parts(p, size) ==
  LET E == Elements(p + 16, p + size)
  IN [k \in 1..(Len(E) - 1) |-> <<E[k] + 4, SlotAt(E[k])>>]
MalformedBundle(p, size) ==
  \/ size < 16 \/ size % 4 # 0 \/ Last(Elements(p + 16, p + size)) # p + size
  \/ \E k \in DOMAIN Parts(p, size) : Parts(p, size)[k][2] % 4 # 0

\* ProcessBundle: the messages in their order, here of a bundle inside the packet's
ReadElement(p, size) ==
  IF ContentAt(p) # <<"bundle">> THEN << ReadMessage(p, size) >>
  ELSE IF MalformedBundle(p, size) THEN << <<"malformed">> >>
  ELSE [k \in DOMAIN Parts(p, size) |-> ReadMessage(Parts(p, size)[k][1], Parts(p, size)[k][2])]

ReadPacket(size) ==
  IF ContentAt(0) # <<"bundle">> \/ MalformedBundle(0, size) THEN ReadElement(0, size)
  ELSE FlattenSeq([k \in DOMAIN Parts(0, size) |->
                     ReadElement(Parts(0, size)[k][1], Parts(0, size)[k][2])])

\* ProcessPacket, once IsReady
Receive ==
  /\ ~inProgress /\ elementSizePtr = None /\ messageCursor > 0 /\ received = Unread
  /\ received' = ReadPacket(Size)
  /\ UNCHANGED <<messageCursor, argumentCurrent, elementSizePtr, inProgress, addr, tags,
                 bufVars>>

-----------------------------------------------------------------------------
Next ==
  \/ BeginBundle \/ EndBundle \/ EndMessage \/ Receive \/ Clear
  \/ \E a \in AddrLens : BeginMessage(a)
  \/ \E x \in Args : Argument(x)

Spec == Init /\ [][Next]_oscVars

\* Whatever is written, type tags and arguments do not meet in the buffer and the
\* finished message fits (OscOutboundPacketStream.cpp:232).
FitsInBuffer ==
  /\ inProgress => argumentCurrent <= Capacity - Len(tags)
  /\ Size <= Capacity

\* Besides, the receiver reads the messages that were written, in their order and with
\* their arguments, from the sizes it finds (OscReceivedElements.cpp:671).
ReadAsWritten == FitsInBuffer /\ (received # Unread => received = written)

\* The inductive invariants.  Between messages the two offsets are the same.
IndInv ==
  /\ messageCursor \in Nat /\ argumentCurrent \in Nat /\ inProgress \in BOOLEAN
  /\ tags \in Seq(Args)
  /\ ~inProgress => argumentCurrent = messageCursor
  /\ Size <= Capacity

\* What lies in the buffer, from one offset to another, when s are its slots and c is its
\* content: arguments; a message; messages, each behind its size; elements, which are
\* messages or bundles of messages, with the messages up to each of them.
Messages == Nat \X Seq(Args)
ArgsLie(xs, p, q) ==
  \E g \in [0..Len(xs) -> Nat] :
    /\ g[0] = p /\ g[Len(xs)] = q
    /\ \A k \in 1..Len(xs) : g[k] = g[k - 1] + Width(xs[k]) /\ g[k] <= q
MessageLies(c, m, p, q) ==
  /\ m \in Messages /\ p \in DOMAIN c /\ c[p] = <<"message", m[1], m[2]>>
  /\ ArgsLie(m[2], p + RoundUp4(m[1] + 1) + TagSlot(Len(m[2])), q)
  /\ q <= Capacity /\ (q - p) % 4 = 0
Follow(s, at, n, p, q) ==
  /\ at \in [1..(n + 1) -> Nat] /\ at[1] = p /\ at[n + 1] = q
  /\ \A k \in 1..n : /\ at[k] \in DOMAIN s /\ at[k + 1] = at[k] + 4 + s[at[k]]
                     /\ p <= at[k] /\ at[k] + 4 < q /\ at[k + 1] <= q
MessagesLie(s, c, ms, p, q) ==
  \E at : Follow(s, at, Len(ms), p, q)
            /\ \A k \in 1..Len(ms) : MessageLies(c, ms[k], at[k] + 4, at[k + 1])
BundleLies(s, c, ms, p, q) ==
  /\ p \in DOMAIN c /\ c[p] = <<"bundle">> /\ (q - p) % 4 = 0 /\ q >= p + 16
  /\ MessagesLie(s, c, ms, p + 16, q)
ElementLies(s, c, ms, p, q) ==
  (\E m : ms = <<m>> /\ MessageLies(c, m, p, q)) \/ BundleLies(s, c, ms, p, q)
ElementsLie(s, c, ms, p, q) ==
  \E n \in Nat : \E at, all :
    /\ all \in [0..n -> Seq(Messages)]
    /\ Follow(s, at, n, p, q) /\ all[0] = <<>> /\ all[n] = ms
    /\ \A k \in 1..n : \E w \in Seq(Messages) :
         all[k] = all[k - 1] \o w /\ ElementLies(s, c, w, at[k] + 4, at[k + 1])

\* The states of the buffer: nothing in it; a message that is the whole packet, begun or
\* finished; the packet's bundle, before an element, in a message, in a bundle inside
\* it, or in a message of that one
Fresh == elementSizePtr = None /\ ~inProgress /\ messageCursor = 0 /\ written = <<>>
AloneBegun ==
  elementSizePtr = 0 /\ inProgress /\ messageCursor = RoundUp4(addr + 1) /\ written = <<>>
Alone ==
  /\ elementSizePtr = None /\ ~inProgress /\ messageCursor > 0
  /\ \E m : written = <<m>> /\ MessageLies(content, m, 0, messageCursor)
InBundle(c) == 0 \in DOMAIN c /\ c[0] = <<"bundle">>
Outer ==
  /\ elementSizePtr \in {0, None} /\ ~inProgress /\ InBundle(content) /\ messageCursor >= 16
  /\ ElementsLie(slot, content, written, 16, messageCursor)
BegunAt(e) == inProgress /\ messageCursor = e + 4 + RoundUp4(addr + 1)
OuterBegun ==
  LET e == elementSizePtr IN
  /\ e \in DOMAIN slot /\ e >= 16 /\ slot[e] = 0 /\ InBundle(content) /\ BegunAt(e)
  /\ ElementsLie(slot, content, written, 16, e)
\* The inner bundle's slot is at b, and what is in it ends at e; the messages are ms.
Within(s, c, ms, b, e) ==
  /\ b \in DOMAIN s /\ b >= 16 /\ b % 4 = 0 /\ s[b] = 0 /\ InBundle(c) /\ e >= b + 20
  /\ b + 4 \in DOMAIN c /\ c[b + 4] = <<"bundle">>
  /\ \E v, w \in Seq(Messages) :
       ms = v \o w /\ ElementsLie(s, c, v, 16, b) /\ MessagesLie(s, c, w, b + 20, e)
Inner == ~inProgress /\ Within(slot, content, written, elementSizePtr, messageCursor)
InnerBegun ==
  LET e == elementSizePtr IN
  /\ e \in DOMAIN slot /\ slot[e] > 0 /\ BegunAt(e)
  /\ Within(slot, content, written, slot[e], e)
Phase == Fresh \/ AloneBegun \/ Alone \/ Outer \/ OuterBegun \/ Inner \/ InnerBegun
PlacedInv ==
  /\ DOMAIN slot \subseteq Nat /\ slot \in [DOMAIN slot -> Nat]
  /\ written \in Seq(Messages) /\ addr \in Nat
  /\ messageCursor % 4 = 0 /\ argumentCurrent % 4 = 0
  /\ inProgress => ArgsLie(tags, messageCursor, argumentCurrent)
  /\ Phase
  /\ received # Unread => elementSizePtr = None /\ ~inProgress /\ received = written
=============================================================================
