--------------------------- MODULE MCUsbTransfers ---------------------------
(***************************************************************************)
(* The four views of a libusb transfer, explored side by side: how it is   *)
(* cut into URBs, what becomes of the URBs, the list and the timeouts of   *)
(* the transfers in flight, and the calls that wait for one.  They meet in *)
(* the abstract Transfer and share no other state, so a behaviour is one   *)
(* of one part, chosen at the beginning.                                   *)
(***************************************************************************)
EXTENDS Naturals, Sequences

CONSTANTS
  Kinds, MaxUrbs, UrbLen, Faults, FaultyKinds, MaxSubmits,
  Xfers, Handlers, Timeouts, MaxWait, MaxTime,
  MaxBulk, MaxIso, MaxCtrl, SetupSize, MaxLength, MaxPackets, PacketLengths,
  MaxCalls

\* Times are numbers, and the clock has one.
ASSUME TimesAssumption == Timeouts \subseteq Nat /\ MaxWait \in Nat /\ MaxTime \in Nat \ {0}
\* The types of transfer and the faults the code tells apart
ASSUME KindsAssumption ==
  /\ Kinds \subseteq {"bulk", "bulkcont", "interrupt", "iso", "control"}
  /\ Faults \subseteq {"stall", "overflow", "error"}
  /\ MaxUrbs \in Nat \ {0} /\ UrbLen \in Nat
\* The limits of the kernel and the lengths the program asks for
ASSUME LengthsAssumption ==
  /\ MaxBulk \in Nat \ {0} /\ MaxIso \in Nat /\ MaxCtrl \in Nat /\ SetupSize \in Nat
  /\ MaxLength \in Nat /\ MaxPackets \in Nat /\ PacketLengths \subseteq Nat

VARIABLES
  part,
  kind, n, shortNotOk, urb, ready, refuse, sent, plugged, polled, mem, reapAction,
  retired, reapStatus, isoSlots, buffer, transferred, lock, sub, disc, ev, flying,
  timedOut, asked, result, submits,
  list, deadline, overdue, alive, now, at, found, until,
  request, step, pieces, numUrbs, packetOffset, answer,
  phase, cancelAsked, expired, status, count, caller, control, timed, held,
  completed, returned

Urb == INSTANCE UrbTransfer
Fly == INSTANCE FlyingTransfers
Split == INSTANCE UrbSplit
Sync == INSTANCE SyncTransfers

urbVars == <<kind, n, shortNotOk, urb, ready, refuse, sent, plugged, polled, mem,
             reapAction, retired, reapStatus, isoSlots, buffer, transferred, lock, sub,
             disc, ev, flying, timedOut, asked, result, submits>>
flyVars == <<list, deadline, overdue, alive, now, at, found, until>>
splitVars == <<request, step, pieces, numUrbs, packetOffset, answer>>
syncVars == <<phase, cancelAsked, expired, status, count, caller, control, timed, held,
              completed, returned>>
all == <<part, urbVars, flyVars, splitVars, syncVars>>

Init ==
  /\ part \in {"urb", "fly", "split", "sync"}
  /\ Urb!Init /\ Fly!Init /\ Split!Init /\ Sync!Init

ByUrb(A) ==
  /\ part = "urb" /\ A
  /\ UNCHANGED <<part, flyVars, splitVars, syncVars>>
ByFly(A) ==
  /\ part = "fly" /\ A
  /\ UNCHANGED <<part, urbVars, splitVars, syncVars>>
BySplit(A) ==
  /\ part = "split" /\ A
  /\ UNCHANGED <<part, urbVars, flyVars, syncVars>>
BySync(A) ==
  /\ part = "sync" /\ A
  /\ UNCHANGED <<part, urbVars, flyVars, splitVars>>

Next ==
  \/ ByUrb(Urb!Next) \/ ByFly(Fly!Next) \/ BySplit(Split!Next) \/ BySync(Sync!Next)

\* The fairness of UrbTransfer and SyncTransfers
Fairness ==
  /\ WF_all(ByUrb(Urb!EventStep)) /\ WF_all(ByUrb(Urb!LibStep))
  /\ WF_all(BySync(Sync!CallerStep)) /\ WF_all(BySync(Sync!Timeout))
  /\ WF_all(BySync(Sync!ReportOverdue))

Steps == Init /\ [][Next]_all
Spec == Steps /\ Fairness

-----------------------------------------------------------------------------
(* The properties of the parts, which their modules explain, each with the *)
(* type invariant of its part.                                             *)

\* The URBs of a transfer are freed when the kernel has given back every one.
FreedOnlyWhenReaped ==
  part = "urb" => Urb!TypeOK /\ Urb!FreedOnlyWhenReaped /\ Urb!RetiredExact

\* The URBs cover the buffer, and what they receive ends up in its place.
DataInPlace ==
  /\ part = "urb" => Urb!DataContiguous /\ Urb!IsoResultsInPlace
  /\ part = "split" => Split!TypeOK /\ Split!SplitCovers

\* A synchronous call that has returned leaves no transfer behind.
NothingOutlivesCall == part = "sync" => Sync!TypeOK /\ Sync!NothingOutlivesCall

\* The walk over the flying transfers misses none that is overdue.
NoTimeoutMissed == Fly!NoTimeoutMissed

\* What the URBs do is what the API promises of a transfer.
ImplementsTransfer == Urb!ImplementsTransfer

\* A transfer that was cancelled, timed out or lost its device is reported, and
\* the call that waits for it returns.
TransfersEnd ==
  /\ Urb!CancelledGetsReported /\ Urb!UnpluggedGetsReported
  /\ Sync!SyncReturns
=============================================================================
