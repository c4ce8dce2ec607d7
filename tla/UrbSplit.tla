------------------------------ MODULE UrbSplit ------------------------------
(***************************************************************************)
(* How a transfer is cut into URBs before it is submitted: the libusb_fill *)
(* functions of libusb.h and the first halves of submit_bulk_transfer,     *)
(* submit_iso_transfer and submit_control_transfer (linux_usbfs.c).        *)
(* What happens to the URBs afterwards is UrbTransfer.  Lengths are in     *)
(* units of which the kernel's limits allow only a few.                    *)
(***************************************************************************)
EXTENDS Naturals, Sequences

CONSTANTS
  MaxBulk, MaxIso, MaxCtrl,  \* MAX_BULK_, MAX_ISO_ and MAX_CTRL_BUFFER_LENGTH
  SetupSize,                 \* LIBUSB_CONTROL_SETUP_SIZE
  MaxLength,                 \* bound on transfer->length without the setup
  MaxPackets, PacketLengths  \* bounds on num_iso_packets and their lengths

\* USBFS_CAP_..., what the kernel said in dpriv->caps
Caps == {"BULK_SCATTER_GATHER", "BULK_CONTINUATION", "NO_PACKET_SIZE_LIM", "ZERO_PACKET"}

VARIABLES
  request,   \* the filled libusb_transfer
  step,      \* "idle", "count", "fill" or, with the URBs ready, "submit"
  pieces,    \* the URBs made so far
  numUrbs, packetOffset,
  answer     \* "ok", or the error of libusb_submit_transfer

splitVars == <<request, step, pieces, numUrbs, packetOffset, answer>>

NoRequest == [type |-> "none"]

Init ==
  /\ request = NoRequest /\ step = "idle" /\ pieces = <<>>
  /\ numUrbs = 0 /\ packetOffset = 0 /\ answer = "ok"

\* offset += iso_packet_desc[i].length: where the packets begin, and the last ends
Offsets(q) ==
  LET at[k \in 0..Len(q)] == IF k = 0 THEN 0 ELSE at[k - 1] + q[k] IN at
SumOf(q) == Offsets(q)[Len(q)]

\* libusb_get_iso_packet_buffer, and the shortcut for packets of one length
PacketBuffer(q, p) == Offsets(q)[p]
PacketBufferSimple(q, p) == q[1] * p

-----------------------------------------------------------------------------
(* libusb_fill_..._transfer                                                *)

FillBulk(len, caps, out, zero) ==
  [type |-> "bulk", length |-> len, caps |-> caps, out |-> out, zero |-> zero]
FillControl(wLength) == [type |-> "control", length |-> SetupSize + wLength]
FillIso(lengths) == [type |-> "iso", packets |-> lengths]

Requests ==
  {FillBulk(len, c, o, z) : len \in 0..MaxLength, c \in SUBSET Caps,
                            o \in BOOLEAN, z \in BOOLEAN}
  \union {FillControl(w) : w \in 0..MaxLength}
  \union {FillIso(q) : q \in UNION {[1..k -> PacketLengths] : k \in 0..MaxPackets}}

-----------------------------------------------------------------------------
\* No URBs are left.
Release(error) ==
  /\ step' = "idle" /\ pieces' = <<>> /\ numUrbs' = 0 /\ answer' = error
  /\ packetOffset' = 0

\* bulk_buffer_len and use_bulk_continuation
BulkBufferLen(r) ==
  IF "BULK_SCATTER_GATHER" \in r.caps
     \/ ("NO_PACKET_SIZE_LIM" \in r.caps /\ "BULK_CONTINUATION" \notin r.caps)
    THEN (IF r.length > 0 THEN r.length ELSE 1) ELSE MaxBulk
Continues(r) ==
  "BULK_CONTINUATION" \in r.caps /\ "BULK_SCATTER_GATHER" \notin r.caps

\* num_urbs of submit_bulk_transfer
BulkUrbs(r) ==
  IF r.length = 0 THEN 1
  ELSE r.length \div BulkBufferLen(r)
       + (IF r.length % BulkBufferLen(r) > 0 THEN 1 ELSE 0)

\* The i-th of n URBs
BulkUrb(r, i, n) ==
  LET size == BulkBufferLen(r) IN
  [off |-> (i - 1) * size,
   len |-> IF i = n /\ r.length % size > 0 THEN r.length % size
           ELSE IF r.length = 0 THEN 0 ELSE size,
   shortNotOk |-> Continues(r) /\ ~r.out /\ i < n,
   continuation |-> Continues(r) /\ i > 1,
   zero |-> r.out /\ r.zero /\ i = n]

\* submit_bulk_transfer
SubmitBulk(r) ==
  LET n == BulkUrbs(r) IN
  IF r.out /\ r.zero /\ "ZERO_PACKET" \notin r.caps THEN Release("NOT_SUPPORTED")
  ELSE \/ Release("NO_MEM")
       \/ /\ pieces' = [i \in 1..n |-> BulkUrb(r, i, n)] /\ numUrbs' = n
          /\ step' = "submit" /\ answer' = "ok" /\ packetOffset' = 0

\* submit_control_transfer
SubmitControl(r) ==
  IF r.length - SetupSize > MaxCtrl THEN Release("INVALID_PARAM")
  ELSE \/ Release("NO_MEM")
       \/ /\ pieces' = <<[off |-> 0, len |-> r.length]>> /\ numUrbs' = 1
          /\ step' = "submit" /\ answer' = "ok" /\ packetOffset' = 0

\* op_submit_transfer
SubmitTransfer(r) ==
  /\ step = "idle"
  /\ \/ r.type = "bulk" /\ SubmitBulk(r)
     \/ r.type = "control" /\ SubmitControl(r)
     \/ /\ r.type = "iso" /\ step' = "count" /\ pieces' = <<>>
        /\ numUrbs' = 0 /\ packetOffset' = 0 /\ answer' = "ok"
  /\ request' = IF step' = "idle" THEN NoRequest ELSE r

\* packet_len > space_remaining, an unsigned difference
NeedsNewUrb(used, p) == used <= MaxIso /\ p > MaxIso - used

\* num_urbs and this_urb_len after k packets
Counted(q) ==
  LET c[k \in 0..Len(q)] ==
        IF k = 0 THEN [urbs |-> 1, used |-> 0]
        ELSE IF NeedsNewUrb(c[k - 1].used, q[k])
               THEN [urbs |-> c[k - 1].urbs + 1, used |-> q[k]]
               ELSE [urbs |-> c[k - 1].urbs, used |-> c[k - 1].used + q[k]]
  IN c

\* The first pass of submit_iso_transfer counts the URBs needed.
CountIsoUrbs ==
  /\ step = "count"
  /\ \/ Release("NO_MEM")
     \/ /\ numUrbs' = Counted(request.packets)[Len(request.packets)].urbs
        /\ step' = "fill" /\ UNCHANGED <<pieces, packetOffset, answer>>
  /\ request' = IF step' = "idle" THEN NoRequest ELSE request

\* Packets that fit into one URB from packet o on
Fitting(o) ==
  LET q == request.packets
      ks == {k \in 0..(Len(q) - o) : Offsets(q)[o + k] <= Offsets(q)[o] + MaxIso}
  IN CHOOSE k \in ks : \A j \in ks : j <= k

\* The second pass fills one URB after the other; if one cannot be allocated
\* free_iso_urbs frees those before it.
FillIsoUrb ==
  /\ step = "fill" /\ Len(pieces) < numUrbs
  /\ \/ Release("NO_MEM")
     \/ LET k == Fitting(packetOffset) IN
        /\ pieces' = Append(pieces,
             [off |-> PacketBuffer(request.packets, packetOffset), first |-> packetOffset,
              lengths |-> SubSeq(request.packets, packetOffset + 1, packetOffset + k)])
        /\ packetOffset' = packetOffset + k
        /\ step' = IF Len(pieces) + 1 = numUrbs THEN "submit" ELSE "fill"
        /\ UNCHANGED <<numUrbs, answer>>
  /\ request' = IF step' = "idle" THEN NoRequest ELSE request

\* The transfer has gone its way (see UrbTransfer) and its URBs are freed.
FreeUrbs ==
  /\ step = "submit" /\ Release("ok") /\ request' = NoRequest

Next ==
  \/ FreeUrbs
  \/ \E r \in Requests : SubmitTransfer(r)
  \/ CountIsoUrbs \/ FillIsoUrb

Spec == Init /\ [][Next]_splitVars

-----------------------------------------------------------------------------
TypeOK ==
  /\ request.type \in {"none", "bulk", "control", "iso"}
  /\ step \in {"idle", "count", "fill", "submit"}
  /\ Len(pieces) <= numUrbs
  /\ packetOffset \in 0..MaxPackets

PieceLen(u) == IF request.type = "iso" THEN SumOf(u.lengths) ELSE u.len

\* The URBs follow each other through the whole buffer, within the kernel's limit ...
Total == IF request.type = "iso" THEN SumOf(request.packets) ELSE request.length
Limit ==
  CASE request.type = "iso" -> MaxIso
    [] request.type = "control" -> MaxCtrl + SetupSize
    [] request.type = "bulk" -> BulkBufferLen(request)
BufferCovered ==
  /\ \A i \in 1..numUrbs : PieceLen(pieces[i]) <= Limit
  /\ pieces[1].off = 0
  /\ \A i \in 1..(numUrbs - 1) : pieces[i + 1].off = pieces[i].off + PieceLen(pieces[i])
  /\ pieces[numUrbs].off + PieceLen(pieces[numUrbs]) = Total

\* ... and so they do through the packets.
End(u) == u.first + Len(u.lengths)
PacketsCovered ==
  LET q == request.packets IN
  /\ \A i \in 1..numUrbs :
       /\ pieces[i].lengths = SubSeq(q, pieces[i].first + 1, End(pieces[i]))
       /\ numUrbs > 1 => pieces[i].lengths # <<>>
  /\ pieces[1].first = 0
  /\ \A i \in 1..(numUrbs - 1) : pieces[i + 1].first = End(pieces[i])
  /\ End(pieces[numUrbs]) = Len(q)
  /\ (\A i \in 1..Len(q) : q[i] = q[1])
       => \A p \in 0..(Len(q) - 1) : PacketBufferSimple(q, p) = PacketBuffer(q, p)

\* The kernel would refuse a packet longer than its limit.
Fits == request.type = "iso" => \A i \in 1..Len(request.packets) : request.packets[i] <= MaxIso

\* What is handed to the kernel is the whole transfer, once and in order, each
\* URB within the kernel's limit and starting where the last one ended; for
\* isochronous transfers the two passes agree, no URB is without packets and
\* the packets lie where libusb_get_iso_packet_buffer says.
SplitCovers ==
  step = "submit" /\ Fits =>
    Len(pieces) = numUrbs /\ BufferCovered /\ (request.type = "iso" => PacketsCovered)

\* What that rests on: the second pass fills the URBs the first one counted.  Behind
\* the packets of a URB that is full, the first pass begins a new one.
Piece(u) ==
  LET q == request.packets IN
  /\ u.first \in 0..Len(q) /\ End(u) \in u.first..Len(q)
  /\ u.lengths = SubSeq(q, u.first + 1, End(u))
  /\ u.off = Offsets(q)[u.first] /\ Offsets(q)[End(u)] <= Offsets(q)[u.first] + MaxIso
FilledInv ==
  LET q == request.packets
      i == Len(pieces)
      o == packetOffset
  IN
  /\ numUrbs = Counted(q)[Len(q)].urbs
  /\ \A j \in 1..i : Piece(pieces[j]) /\ (numUrbs > 1 => pieces[j].lengths # <<>>)
  /\ i = 0 => o = 0
  /\ i > 0 => pieces[1].first = 0 /\ o = End(pieces[i])
  /\ \A j \in 1..(i - 1) : pieces[j + 1].first = End(pieces[j])
  /\ o < Len(q) => Counted(q)[o + 1] = [urbs |-> i + 1, used |-> q[o + 1]]
  /\ o = Len(q) /\ i > 0 => i = numUrbs
IsoInv ==
  /\ pieces \in Seq([off : Nat, first : Nat, lengths : Seq(Nat)])
  /\ packetOffset \in 0..Len(request.packets) /\ numUrbs \in Nat
  /\ IF step = "fill" THEN Len(pieces) < numUrbs ELSE Len(pieces) = numUrbs
  /\ Fits => FilledInv
IndInv ==
  /\ request \in Requests \union {NoRequest}
  /\ step \in {"idle", "count", "fill", "submit"}
  /\ step # "idle" => request \in Requests
  /\ step \in {"count", "fill"} => request.type = "iso"
  /\ step \in {"idle", "count"} => pieces = <<>> /\ numUrbs = 0 /\ packetOffset = 0
  /\ step \in {"fill", "submit"} /\ request.type = "iso" => IsoInv
  /\ step = "submit" /\ request.type # "iso" => SplitCovers /\ packetOffset = 0
=============================================================================
