------------------------- MODULE ConfigDescriptors --------------------------
(***************************************************************************)
(* descriptor.c: the descriptors of a device are parsed into the           *)
(* structures libusb_get_config_descriptor and libusb_get_bos_descriptor   *)
(* return.  What the device sends is arbitrary: a descriptor of the blob is *)
(* only decided on when the parser looks at it.  It is one of a type, with *)
(* a length that fits, is below a minimum, or exceeds what is left of the  *)
(* blob.  What a length that is too small leads to depends on the type     *)
(* that comes with it, so both outcomes are possible.                      *)
(***************************************************************************)
EXTENDS Naturals, Sequences, SequencesExt

CONSTANTS
  IfNumbers,    \* interface numbers
  MaxEps,       \* bound on bNumEndpoints, below USB_MAXENDPOINTS
  MaxIfs,       \* bound on bNumInterfaces, below USB_MAXINTERFACES
  MaxDescs      \* bound on the descriptors of a blob

Desc(t) == [type |-> t, num |-> 0, eps |-> 0]
\* A descriptor, or how the blob ends.  tooMany is an interface whose
\* bNumEndpoints exceeds USB_MAXENDPOINTS.
Descs ==
  {Desc(t) : t \in {"endpoint", "config", "capability", "other", "bad", "over", "tooMany", "end"}}
  \union [type : {"interface"}, num : IfNumbers, eps : 0..MaxEps]

VARIABLES
  where,        \* what the parser is doing
  look,         \* the descriptor at buffer
  seen,         \* descriptors looked at
  expected,     \* bNumInterfaces, bNumDeviceCaps as sent
  ifs,          \* the interfaces filled in: sequences of altsettings
  caps,         \* the device capabilities filled in
  reported,     \* bNumInterfaces, bNumDeviceCaps as returned
  torn          \* an altsetting was left before its endpoints were allocated

parseVars == <<where, look, seen, expected, ifs, caps, reported, torn>>

Init ==
  /\ where = "idle" /\ look = Desc("end") /\ seen = 0 /\ expected = 0 /\ ifs = <<>>
  /\ caps = 0 /\ reported = 0 /\ torn = FALSE

\* usbi_parse_descriptor of the header at the new place in the buffer
Consume ==
  /\ look' \in (IF seen < MaxDescs THEN Descs ELSE {Desc("end")})
  /\ seen' = seen + 1
Stay == UNCHANGED <<look, seen>>
Is(t) == look.type = t

Alts == ifs[Len(ifs)]
Alt == Alts[Len(Alts)]
WithAlt(a) == [ifs EXCEPT ![Len(ifs)][Len(Alts)] = a]

Failed ==
  /\ where' = "error" /\ ifs' = <<>> /\ reported' = 0 /\ Stay
  /\ UNCHANGED <<expected, caps, torn>>
Finished(n) == where' = "done" /\ reported' = n

-----------------------------------------------------------------------------
(* parse_configuration.                                                    *)

\* The configuration descriptor itself is sound; the first interface is next.
StartConfig ==
  /\ where = "idle" /\ expected' \in 0..MaxIfs
  /\ IF expected' = 0
       THEN Finished(0) /\ Stay /\ UNCHANGED ifs
       ELSE where' = "config" /\ Consume /\ ifs' = <<<<>>>> /\ UNCHANGED reported
  /\ UNCHANGED <<caps, torn>>

\* Class and vendor specific descriptors before an interface are skipped.
ConfigExtra ==
  /\ where = "config" /\ Is("other") /\ Consume
  /\ UNCHANGED <<where, expected, ifs, caps, reported, torn>>
ConfigOver ==
  /\ where = "config" /\ Is("over") /\ Finished(Len(ifs) - 1) /\ Stay
  /\ UNCHANGED <<expected, ifs, caps, torn>>
ConfigNext ==
  /\ where = "config" /\ ~Is("other") /\ ~Is("over") /\ where' = "interface"
  /\ Stay /\ UNCHANGED <<expected, ifs, caps, reported, torn>>

\* if (r == 0) config->bNumInterfaces = i
FilledIfs == IF Alts = <<>> THEN Len(ifs) - 1 ELSE Len(ifs)

\* parse_interface returns parsed: the next interface, or the end
InterfaceReturns ==
  IF Alts = <<>> \/ Len(ifs) = expected
    THEN Finished(FilledIfs) /\ UNCHANGED ifs
    ELSE where' = "config" /\ ifs' = Append(ifs, <<>>) /\ UNCHANGED reported

-----------------------------------------------------------------------------
(* parse_interface.                                                        *)

\* parse_interface looks for another altsetting of the same interface.
SameInterface == Alts # <<>> => look.num = Head(Alts).num
AltSetting ==
  /\ where = "interface" /\ Is("interface") /\ SameInterface
  /\ ifs' = [ifs EXCEPT ![Len(ifs)] =
               Append(@, [num |-> look.num, eps |-> look.eps, filled |-> 0])]
  /\ where' = "altsetting" /\ Consume
  /\ UNCHANGED <<expected, caps, reported, torn>>
NoAltSetting ==
  /\ where = "interface" /\ (Alts = <<>> => ~Is("tooMany"))
  /\ ~(Is("interface") /\ SameInterface)
  /\ InterfaceReturns /\ Stay /\ UNCHANGED <<expected, caps, torn>>

AltExtra ==
  /\ where = "altsetting" /\ Is("other") /\ Consume
  /\ UNCHANGED <<where, expected, ifs, caps, reported, torn>>
\* return parsed, with endpoint still NULL and bNumEndpoints as sent
AltOver ==
  /\ where = "altsetting" /\ Is("over") /\ torn' = (torn \/ Alt.eps > 0) /\ InterfaceReturns
  /\ Stay /\ UNCHANGED <<expected, caps>>
AltNext ==
  /\ where = "altsetting" /\ ~Is("other") /\ ~Is("over")
  /\ where' = IF Alt.eps > 0 THEN "endpoint" ELSE "interface"
  /\ Stay /\ UNCHANGED <<expected, ifs, caps, reported, torn>>

-----------------------------------------------------------------------------
(* parse_endpoint, called bNumEndpoints times.                             *)

AfterEndpoint(a) == IF a.filled = a.eps THEN "interface" ELSE "endpoint"
Endpoint ==
  /\ where = "endpoint" /\ Is("endpoint")
  /\ ifs' = WithAlt([Alt EXCEPT !.filled = @ + 1]) /\ where' = "epextra" /\ Consume
  /\ UNCHANGED <<expected, caps, reported, torn>>

\* Mutant: bNumEndpoints stays as it was sent.
AsSent(a) == a
\* if (r == 0) ifp->bNumEndpoints = i
Cut(a) == [a EXCEPT !.eps = a.filled]
NoEndpoint ==
  /\ where = "endpoint" /\ ~Is("endpoint") /\ ~Is("end")
  /\ ifs' = WithAlt(Cut(Alt)) /\ where' = "interface" /\ Stay
  /\ UNCHANGED <<expected, caps, reported, torn>>

EndpointExtra ==
  /\ where = "epextra" /\ Is("other") /\ Consume
  /\ UNCHANGED <<where, expected, ifs, caps, reported, torn>>
EndpointNext ==
  /\ where = "epextra" /\ ~Is("other") /\ where' = AfterEndpoint(Alt)
  /\ Stay /\ UNCHANGED <<expected, ifs, caps, reported, torn>>

\* LIBUSB_ERROR_IO: a length below the minimum anywhere, too many endpoints, or
\* the blob ends where an endpoint must be.  clear_configuration
ParseFails ==
  /\ where \in {"config", "interface", "altsetting", "endpoint", "epextra"}
  /\ \/ Is("bad") /\ where # "interface"
     \/ (Is("bad") \/ Is("tooMany")) /\ where = "interface"
     \/ Is("end") /\ where = "endpoint"
  /\ Failed

\* malloc of the altsettings, an extra or the endpoints fails.
OutOfMemory ==
  where \in {"interface", "altsetting", "endpoint", "epextra", "cap"} /\ Failed

-----------------------------------------------------------------------------
(* parse_bos.                                                              *)

StartBos ==
  /\ where = "idle" /\ expected' \in 0..MaxIfs /\ where' = "cap" /\ Consume
  /\ UNCHANGED <<ifs, caps, reported, torn>>
Capability ==
  /\ where = "cap" /\ caps < expected /\ Is("capability") /\ caps' = caps + 1 /\ Consume
  /\ UNCHANGED <<where, expected, ifs, reported, torn>>
\* _bos->bNumDeviceCaps = i
CapsRead == caps
BosDone ==
  /\ where = "cap" /\ (caps = expected \/ ~(Is("capability") \/ Is("bad")))
  /\ Finished(CapsRead) /\ Stay /\ UNCHANGED <<expected, ifs, caps, torn>>
BosFails == where = "cap" /\ caps < expected /\ Is("bad") /\ Failed

\* libusb_free_config_descriptor, libusb_free_bos_descriptor
Free ==
  /\ where \in {"done", "error"} /\ where' = "idle" /\ look' = Desc("end") /\ seen' = 0
  /\ expected' = 0 /\ ifs' = <<>> /\ caps' = 0 /\ reported' = 0 /\ torn' = FALSE

Next ==
  \/ StartConfig \/ ConfigExtra \/ ConfigOver \/ ConfigNext \/ AltSetting \/ NoAltSetting
  \/ AltExtra \/ AltOver \/ AltNext \/ Endpoint \/ NoEndpoint \/ EndpointExtra
  \/ EndpointNext \/ ParseFails \/ OutOfMemory \/ StartBos \/ Capability \/ BosDone
  \/ BosFails \/ Free

Spec == Init /\ [][Next]_parseVars

-----------------------------------------------------------------------------
TypeOK ==
  /\ look \in Descs /\ seen \in 0..MaxDescs + 1 /\ expected \in 0..MaxIfs
  /\ Len(ifs) <= expected /\ caps <= expected /\ reported <= expected

\* Whatever a device sends, a structure that is returned has something behind every
\* index it counts: as many interfaces as reported, each with an altsetting and all
\* of them of one number, and as many endpoints as an altsetting claims.  The one
\* exception is an altsetting followed by a descriptor too long for the blob, which
\* keeps its bNumEndpoints with endpoint == NULL.
CountsAreFilled ==
  where = "done" =>
    /\ reported <= Len(ifs) + caps
    /\ \A i \in 1..Len(ifs) : i <= reported =>
         /\ Len(ifs[i]) > 0
         /\ \A a \in Range(ifs[i]) :
              a.num = Head(ifs[i]).num /\ (~torn => a.filled = a.eps)

\* While parse_configuration runs, the interfaces before the last are complete, and
\* so are the altsettings of the last one, except the one at hand.
AltRecords == [num : IfNumbers, eps : Nat, filled : Nat]
AltSeqs == Seq(AltRecords)
Uniform(s) == \A j \in 1..Len(s) : s[j].num = s[1].num
Filled(s, n) == torn \/ \A j \in 1..n : s[j].filled = s[j].eps
Parsing == {"config", "interface", "altsetting", "endpoint", "epextra"}
ParseTypeInv ==
  /\ where \in Parsing \union {"idle", "cap", "done", "error"}
  /\ torn \in BOOLEAN /\ caps \in Nat /\ reported \in Nat
  /\ ifs \in Seq(AltSeqs)
  /\ seen > MaxDescs => look = Desc("end")
ConfigInv ==
  where \in Parsing =>
    /\ Len(ifs) > 0 /\ caps = 0
    /\ \A i \in 1..Len(ifs) - 1 : Len(ifs[i]) > 0 /\ Uniform(ifs[i]) /\ Filled(ifs[i], Len(ifs[i]))
    /\ Uniform(Alts)
    /\ Filled(Alts, IF where \in {"config", "interface"} THEN Len(Alts) ELSE Len(Alts) - 1)
    /\ where = "config" => Alts = <<>>
    /\ where \in {"altsetting", "endpoint", "epextra"} => Alts # <<>>
    /\ where = "altsetting" => Alt.filled = 0
    /\ where = "endpoint" => Alt.filled < Alt.eps
    /\ where = "epextra" => Alt.filled <= Alt.eps
OtherInv ==
  /\ where \in {"idle", "cap"} => ifs = <<>>
  /\ where = "error" => ifs = <<>> /\ reported = 0
  /\ where = "idle" => caps = 0 /\ reported = 0 /\ ~torn /\ seen = 0
IndInv == TypeOK /\ ParseTypeInv /\ ConfigInv /\ OtherInv /\ CountsAreFilled
=============================================================================
