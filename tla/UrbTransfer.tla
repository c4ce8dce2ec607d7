---------------------------- MODULE UrbTransfer -----------------------------
(***************************************************************************)
(* One libusb transfer on Linux (libusb/io.c, libusb/os/linux_usbfs.c).    *)
(* libusb_submit_transfer splits it into URBs, which the kernel completes  *)
(* and the event thread reaps one by one; the user's thread may cancel it, *)
(* the timeout may, and the device may go.  itransfer->lock orders these,  *)
(* but the kernel goes on while it is held: URBs are submitted and         *)
(* discarded in steps of their own.  Data is the sequence 1, 2, 3, ... of  *)
(* units the device sends, put by the kernel into the part of the buffer   *)
(* of the URB it fills; a URB takes UrbLen of them.                        *)
(***************************************************************************)
EXTENDS Naturals, Sequences, FiniteSets

CONSTANTS
  Kinds,       \* types of transfer; "bulkcont" is bulk with use_bulk_continuation, and
               \* "interrupt" an interrupt transfer of one URB: one that needs several
               \* is cut and handled as a bulk transfer is, and counts as one
  MaxUrbs,     \* URBs a transfer may need
  UrbLen,      \* bulk_buffer_len
  Faults,      \* URB statuses other than success the device may cause ...
  FaultyKinds, \* ... in transfers of these types
  MaxSubmits   \* bound on the submissions followed

VARIABLES
  kind, n,       \* transfer->type (and use_bulk_continuation), num_urbs
  shortNotOk,    \* LIBUSB_TRANSFER_SHORT_NOT_OK
  urb,           \* [1..MaxUrbs -> record]: the URBs as the kernel sees them
  ready,         \* completed URBs in the order they will be reaped
  refuse,        \* a failed continuation: the kernel takes no more URBs
  sent,          \* units the device has sent for this submission
  plugged, polled,  \* the device is there; its fd is polled
  mem,           \* tpriv->urbs # NULL
  reapAction, retired, reapStatus,    \* tpriv
  isoSlots,      \* URBs whose results were copied into iso_packet_desc
  buffer, transferred,
  lock, sub, disc,  \* itransfer->lock; next URB to submit; URBs to discard
  ev,            \* the event thread: idle, or about to report (and as what)
  flying, timedOut, asked,  \* flying list; USBI_TRANSFER_TIMED_OUT, CANCELLING
  result, submits   \* status given to the last callback; submissions so far

kernelVars == <<urb, ready, refuse, sent>>
devVars == <<plugged, polled>>
tprivVars == <<mem, reapAction, retired, reapStatus, isoSlots>>
dataVars == <<buffer, transferred>>
flagVars == <<flying, timedOut, asked>>
vars == <<kind, n, shortNotOk, kernelVars, devVars, tprivVars, dataVars, lock, sub, disc,
          ev, flagVars, result, submits>>

Urbs == 1..MaxUrbs
Units == MaxUrbs * UrbLen
NoUrb == [st |-> "none", status |-> "ok", len |-> 0]
NoDisc == <<1, 0>>
UrbStatus == {"ok", "short", "cancelled", "gone"} \union Faults
ReapActions == {"NORMAL", "SUBMIT_FAILED", "CANCELLED", "COMPLETED_EARLY", "ERROR"}
Status == {"COMPLETED", "ERROR", "TIMED_OUT", "CANCELLED", "STALL",
           "NO_DEVICE", "OVERFLOW"}

Min(a, b) == IF a < b THEN a ELSE b

Init ==
  /\ kind = "none" /\ shortNotOk = FALSE /\ n = 1
  /\ urb = [i \in Urbs |-> NoUrb] /\ ready = <<>> /\ refuse = FALSE
  /\ sent = 0 /\ plugged = TRUE /\ polled = TRUE
  /\ mem = FALSE /\ reapAction = "NORMAL" /\ retired = 0
  /\ reapStatus = "COMPLETED" /\ isoSlots = <<>>
  /\ buffer = [p \in 1..Units |-> 0] /\ transferred = 0
  /\ lock = "free" /\ sub = 0 /\ disc = NoDisc /\ ev = "idle"
  /\ flying = FALSE /\ timedOut = FALSE /\ asked = FALSE
  /\ result = "none" /\ submits = 0

-----------------------------------------------------------------------------
(* The kernel and the device.                                              *)

Queued == {i \in Urbs : urb[i].st = "queued"}
Active(i) == i \in Queued /\ \A j \in Queued : i <= j

\* The kernel writes len units into the part of the buffer of URB i.
Filled(i, len) ==
  [p \in 1..Units |->
     IF p \in ((i - 1) * UrbLen + 1)..((i - 1) * UrbLen + len)
       THEN sent + p - (i - 1) * UrbLen ELSE buffer[p]]

\* URBs that complete along with URB i: with BULK_CONTINUATION an error ends
\* the whole transfer.
Rest(i, s) ==
  IF kind = "bulkcont" /\ s # "ok" THEN {j \in Queued : j > i} ELSE {}

\* The URBs of S in ascending order
InOrder(S) ==
  [k \in 1..Cardinality(S) |-> CHOOSE i \in S : Cardinality({j \in S : j <= i}) = k]

Complete(i, s, len, rest) ==
  /\ urb' = [j \in Urbs |->
       IF j = i THEN [st |-> "done", status |-> s, len |-> len]
       ELSE IF j \in rest THEN [st |-> "done", status |-> "cancelled", len |-> 0]
       ELSE urb[j]]
  /\ ready' = Append(ready, i) \o InOrder(rest)
  /\ buffer' = Filled(i, len) /\ sent' = sent + len

\* A URB in the device's hands completes: in full, short, or with a fault.
\* Overflow only occurs in the last URB.
KernelCompletes(i, s, len) ==
  /\ plugged /\ Active(i)
  /\ \/ s = "ok" /\ (len = UrbLen \/ kind # "bulkcont" \/ i = n)
     \/ s = "short" /\ len < UrbLen /\ kind = "bulkcont" /\ i < n
     \/ s \in Faults /\ kind \in FaultyKinds /\ (s = "overflow" => i = n)
  /\ Complete(i, s, len, Rest(i, s))
  /\ refuse' = (refuse \/ (kind = "bulkcont" /\ s # "ok"))
  /\ UNCHANGED <<kind, n, shortNotOk, devVars, tprivVars, transferred, lock, sub, disc, ev,
                 flagVars, result, submits>>

\* The device is unplugged: the kernel ends all its URBs in order.
Unplug ==
  /\ plugged
  /\ plugged' = FALSE
  /\ urb' = [j \in Urbs |-> IF j \in Queued
               THEN [st |-> "done", status |-> "gone", len |-> 0] ELSE urb[j]]
  /\ ready' = ready \o InOrder(Queued)
  /\ UNCHANGED <<kind, n, shortNotOk, refuse, sent, polled, tprivVars, dataVars, lock, sub,
                 disc, ev, flagVars, result, submits>>

-----------------------------------------------------------------------------
(* libusb_submit_transfer and the submit_..._transfer functions.           *)

\* Everything up to the first ioctl; both locks are held until the end.  What
\* a type of transfer leaves as it was (num_retired of control transfers,
\* reap_status of isochronous ones) it does not read either.
SubmitTransfer ==
  /\ ~flying /\ ~mem /\ ev = "idle" /\ lock = "free"
  /\ submits < MaxSubmits
  /\ kind' \in Kinds /\ shortNotOk' \in BOOLEAN
  /\ n' \in IF kind' \in {"control", "interrupt"} THEN {1} ELSE Urbs
  /\ submits' = submits + 1 /\ result' = "none"
  /\ transferred' = 0 /\ timedOut' = FALSE /\ asked' = FALSE
  /\ flying' = TRUE /\ mem' = TRUE
  /\ retired' = 0 /\ reapAction' = "NORMAL" /\ reapStatus' = "COMPLETED"
  /\ isoSlots' = <<>>
  /\ urb' = [i \in Urbs |-> NoUrb] /\ refuse' = FALSE /\ sent' = 0
  /\ buffer' = [p \in 1..Units |-> 0]
  /\ lock' = "submit" /\ sub' = 1
  /\ UNCHANGED <<ready, devVars, disc, ev>>

\* for (i = 0; i < num_urbs; i++)
LastUrb == sub = n

\* ioctl IOCTL_USBFS_SUBMITURB succeeds.
SubmitUrb ==
  /\ sub > 0 /\ plugged /\ ~refuse
  /\ urb' = [urb EXCEPT ![sub] = [NoUrb EXCEPT !.st = "queued"]]
  /\ IF LastUrb THEN sub' = 0 /\ lock' = "free"
             ELSE sub' = sub + 1 /\ UNCHANGED lock
  /\ UNCHANGED <<kind, n, shortNotOk, ready, refuse, sent, devVars, tprivVars, dataVars,
                 disc, ev, flagVars, result, submits>>

\* The first one fails: the transfer is not submitted.
FirstUrbFails ==
  /\ sub = 1
  /\ mem' = FALSE /\ flying' = FALSE /\ sub' = 0 /\ lock' = "free"
  /\ result' = "REFUSED"
  /\ UNCHANGED <<kind, n, shortNotOk, kernelVars, devVars, reapAction, retired, reapStatus,
                 isoSlots, dataVars, disc, ev, timedOut, asked, submits>>

\* tpriv->num_retired += num_urbs - i: the URBs not submitted
NotSubmitted(i) == n - i + 1

\* A later one fails: EREMOTEIO says that the earlier ones end the transfer;
\* after any other error, for want of memory say, they are discarded, and the
\* callback reports the error.
LaterUrbFails ==
  /\ sub > 1
  /\ sub' = 0 /\ retired' = retired + NotSubmitted(sub)
  /\ \/ /\ refuse /\ plugged /\ reapAction' = "COMPLETED_EARLY"
        /\ lock' = "free" /\ UNCHANGED disc
     \/ /\ reapAction' = "SUBMIT_FAILED"
        /\ disc' = <<1, sub - 1>> /\ UNCHANGED lock
  /\ UNCHANGED <<kind, n, shortNotOk, kernelVars, devVars, mem, reapStatus, isoSlots,
                 dataVars, ev, flagVars, result, submits>>

-----------------------------------------------------------------------------
(* Discarding URBs, the last one first, with itransfer->lock held.         *)

Discarding == disc[2] >= disc[1]

DiscardUrb(len) ==
  LET i == disc[2] IN
  /\ Discarding
  /\ IF i \in Queued
       THEN /\ len = 0 \/ Active(i)
            /\ Complete(i, "cancelled", len, {})
       ELSE len = 0 /\ UNCHANGED <<urb, ready, sent, buffer>>
  /\ disc' = IF i > disc[1] THEN <<disc[1], i - 1>> ELSE NoDisc
  /\ lock' = IF i > disc[1] THEN lock ELSE "free"
  /\ UNCHANGED <<kind, n, shortNotOk, refuse, devVars, tprivVars, transferred, sub, ev,
                 flagVars, result, submits>>

\* op_cancel_transfer: a bulk transfer that failed stays failed.
ActionOnCancel ==
  IF kind \in {"bulk", "bulkcont"} /\ reapAction = "ERROR"
    THEN "ERROR" ELSE "CANCELLED"

\* libusb_cancel_transfer, by the user or, with timedOut set before, by
\* handle_timeout; without URBs it only returns LIBUSB_ERROR_NOT_FOUND.
CancelTransfer(timeout) ==
  /\ lock = "free" /\ submits > 0
  /\ IF timeout THEN flying /\ ev = "idle" /\ ~timedOut ELSE ~asked
  /\ timedOut' = (timedOut \/ timeout) /\ asked' = TRUE
  /\ reapAction' = ActionOnCancel
  /\ IF mem THEN disc' = <<1, n>> /\ lock' = "cancel"
            ELSE UNCHANGED <<disc, lock>>
  /\ UNCHANGED <<kind, n, shortNotOk, kernelVars, devVars, mem, retired, reapStatus,
                 isoSlots, dataVars, sub, ev, flying, result, submits>>

-----------------------------------------------------------------------------
(* The event thread: reap_for_handle and the completion handlers.          *)

\* The transfer is over: its URBs are freed, the lock is given up.
Finish(as) == mem' = FALSE /\ ev' = as /\ UNCHANGED <<disc, lock>>
FinishBulk == Finish("report")   \* reap_action is read after the unlock
FinishHeld ==                    \* reap_action was read before it
  Finish(IF reapAction = "CANCELLED" THEN "cancelled" ELSE "completed")

\* out_unlock: more URBs to come
KeepWaiting == UNCHANGED <<mem, ev, disc, lock>>

\* discard_urbs(itransfer, urb_idx + 1, num_urbs)
CancelRemaining(i) ==
  IF i < n THEN disc' = <<i + 1, n>> /\ lock' = "reap" /\ UNCHANGED <<mem, ev>>
           ELSE KeepWaiting

\* Mutant: surplus data stays where the kernel put it.
NotMoved(i) == buffer
\* memmove(target, urb->buffer, urb->actual_length)
Moved(i) ==
  [p \in 1..Units |->
     IF p \in (transferred + 1)..(transferred + urb[i].len)
       THEN buffer[p - transferred + (i - 1) * UrbLen] ELSE buffer[p]]

\* Mutant: the last URB in the array is taken for the last one outstanding.
LastInArray(i) == i = n
\* if (tpriv->num_retired == tpriv->num_urbs)
AllRetired(i) == retired + 1 = n

\* handle_bulk_completion, reap_action != NORMAL
BulkAbnormal(i) ==
  /\ reapAction # "NORMAL"
  /\ buffer' = Moved(i)
  /\ transferred' = transferred + urb[i].len
  /\ IF AllRetired(i)
       THEN /\ reapStatus' = IF reapAction # "COMPLETED_EARLY"
                               /\ reapStatus = "COMPLETED"
                             THEN "ERROR" ELSE reapStatus
            /\ FinishBulk
       ELSE KeepWaiting /\ UNCHANGED reapStatus
  /\ UNCHANGED <<reapAction, isoSlots>>

KeepFirst(s) == IF reapStatus = "COMPLETED" THEN s ELSE reapStatus

\* The status that a URB status leaves in reap_status
BulkStatus(s) ==
  CASE s = "gone" -> "NO_DEVICE"
    [] s = "stall" -> KeepFirst("STALL")
    [] s = "overflow" -> KeepFirst("OVERFLOW")
    [] s = "error" -> KeepFirst("ERROR")
    [] OTHER -> reapStatus

\* handle_bulk_completion, reap_action = NORMAL
BulkNormal(i) ==
  LET s == urb[i].status
      short == s \in {"ok", "short", "cancelled"} /\ urb[i].len < UrbLen /\ i < n
  IN
  /\ reapAction = "NORMAL"
  /\ transferred' = transferred + urb[i].len
  /\ reapStatus' = BulkStatus(s)
  /\ reapAction' = IF s = "error" THEN "ERROR"
                   ELSE IF short THEN "COMPLETED_EARLY" ELSE "NORMAL"
  /\ IF s = "overflow" \/ (s \in {"ok", "short", "cancelled"} /\ i = n) THEN FinishBulk
     ELSE IF short \/ s \in {"gone", "stall", "error"}
       THEN IF retired + 1 = n THEN FinishBulk ELSE CancelRemaining(i)
     ELSE KeepWaiting
  /\ UNCHANGED <<buffer, isoSlots>>

\* iso_packet_desc[tpriv->iso_packet_offset++]
NextSlots(i) == Append(isoSlots, i)

\* handle_iso_completion: results are copied to the next packet descriptors;
\* without a cancellation the last URB ends the transfer.
IsoCompletion(i) ==
  LET s == urb[i].status IN
  /\ isoSlots' = NextSlots(i)
  /\ IF reapAction # "NORMAL"
       THEN /\ reapStatus' = "ERROR"
            /\ IF AllRetired(i) THEN FinishHeld ELSE KeepWaiting
       ELSE /\ reapStatus' = CASE s \in {"ok", "cancelled"} -> "COMPLETED"
                               [] s = "gone" -> "NO_DEVICE"
                               [] OTHER -> "ERROR"
            /\ IF i = n THEN FinishHeld ELSE KeepWaiting
  /\ UNCHANGED <<reapAction, buffer, transferred>>

\* handle_control_completion
ControlCompletion(i) ==
  LET s == urb[i].status IN
  /\ transferred' = transferred + urb[i].len
  /\ reapStatus' = CASE s = "ok" -> "COMPLETED" [] s = "cancelled" -> "CANCELLED"
                     [] s = "gone" -> "NO_DEVICE" [] s = "stall" -> "STALL"
                     [] s = "overflow" -> "OVERFLOW" [] OTHER -> "ERROR"
  /\ FinishHeld
  /\ UNCHANGED <<reapAction, isoSlots, buffer>>

HandleCompletion(i) ==
  CASE kind \in {"bulk", "bulkcont", "interrupt"} -> BulkAbnormal(i) \/ BulkNormal(i)
    [] kind = "iso" -> IsoCompletion(i)
    [] kind = "control" -> ControlCompletion(i)

\* REAPURBNDELAY for the handle; what it does with a freed URB is undefined.
ReapForHandle ==
  /\ ev = "idle" /\ lock = "free" /\ polled /\ ready # <<>> /\ mem
  /\ LET i == Head(ready) IN
     /\ HandleCompletion(i)
     /\ urb' = [urb EXCEPT ![i].st = "reaped"]
  /\ ready' = Tail(ready)
  /\ retired' = retired + 1
  /\ UNCHANGED <<kind, n, shortNotOk, refuse, sent, devVars, sub, flagVars, result, submits>>

\* Mutant: a cancelled transfer is always reported as cancelled.
NeverTimedOut == "CANCELLED"
\* usbi_handle_transfer_cancellation
CancellationStatus == IF timedOut THEN "TIMED_OUT" ELSE "CANCELLED"

\* "interpreting short transfer as error"
CompletionStatus(s) ==
  IF s = "COMPLETED" /\ shortNotOk /\ transferred # n * UrbLen THEN "ERROR" ELSE s

\* usbi_handle_transfer_completion, up to the return of the callback; a bulk
\* transfer gave its lock up before reap_action is read.
ReportTransfer ==
  /\ ev # "idle" /\ lock # "submit"
  /\ result' = IF ev = "cancelled" \/ (ev = "report" /\ reapAction = "CANCELLED")
               THEN CancellationStatus ELSE CompletionStatus(reapStatus)
  /\ flying' = FALSE /\ ev' = "idle"
  /\ UNCHANGED <<kind, n, shortNotOk, kernelVars, devVars, tprivVars, dataVars, lock, sub,
                 disc, timedOut, asked, submits>>

\* Mutant: the list is searched, but for another handle.
StillFlying == flying
\* usbi_handle_disconnect loops until no transfer of the handle is in flight.
NoneFlying == FALSE

\* POLLERR: usbi_remove_pollfd and usbi_handle_disconnect, which takes the URBs
\* away and reports LIBUSB_TRANSFER_NO_DEVICE
HandleDisconnect ==
  /\ ev = "idle" /\ lock = "free" /\ ~plugged /\ polled
  /\ polled' = FALSE
  /\ mem' = FALSE /\ ready' = <<>>
  /\ flying' = NoneFlying
  /\ result' = IF flying THEN "NO_DEVICE" ELSE result
  /\ UNCHANGED <<kind, n, shortNotOk, urb, refuse, sent, plugged, reapAction,
                 retired, reapStatus, isoSlots, dataVars, lock, sub, disc, ev,
                 timedOut, asked, submits>>

EventStep == ReapForHandle \/ ReportTransfer \/ HandleDisconnect

LibStep ==
  \/ SubmitUrb \/ FirstUrbFails \/ LaterUrbFails
  \/ \E len \in 0..UrbLen : DiscardUrb(len)

Next ==
  \/ SubmitTransfer \/ LibStep
  \/ \E timeout \in BOOLEAN : CancelTransfer(timeout)
  \/ EventStep \/ Unplug
  \/ \E i \in Urbs, s \in UrbStatus, len \in 0..UrbLen : KernelCompletes(i, s, len)

Spec == Init /\ [][Next]_vars

\* The threads inside the library go on; the kernel promises nothing for a
\* device that does not answer.
FairSpec == Spec /\ WF_vars(EventStep) /\ WF_vars(LibStep)

-----------------------------------------------------------------------------
(* Properties.                                                             *)

TypeOK ==
  /\ kind \in Kinds \union {"none"} /\ n \in Urbs
  /\ urb \in [Urbs -> [st : {"none", "queued", "done", "reaped"},
                       status : UrbStatus, len : 0..UrbLen]]
  /\ ready \in Seq(Urbs) /\ Len(ready) <= n
  /\ refuse \in BOOLEAN /\ sent \in 0..Units
  /\ plugged \in BOOLEAN /\ polled \in BOOLEAN
  /\ mem \in BOOLEAN /\ reapAction \in ReapActions /\ retired \in 0..n
  /\ reapStatus \in Status /\ isoSlots \in Seq(Urbs)
  /\ transferred \in 0..Units
  /\ lock \in {"free", "submit", "cancel", "reap"}
  /\ sub \in 0..n /\ ev \in {"idle", "report", "cancelled", "completed"}
  /\ flying \in BOOLEAN /\ timedOut \in BOOLEAN /\ asked \in BOOLEAN
  /\ result \in Status \union {"none", "REFUSED"}

\* The URBs of a transfer are freed only when the kernel has handed all of them
\* back, "cancel remaining urbs and wait for their completion before reporting
\* results" (linux_usbfs.c:2329): the kernel never returns a freed URB.
FreedOnlyWhenReaped ==
  polled /\ ~mem => Queued = {} /\ ready = <<>>

\* num_retired is exactly the URBs that need no more waiting for: the ones
\* reaped and the ones never submitted after a failed submission.
RetiredExact ==
  mem /\ lock # "submit"
    => n - retired = Cardinality({i \in Urbs : urb[i].st \in {"queued", "done"}})

\* When a bulk transfer is reported, whatever the device sent for it is in the
\* buffer, once, in order and without holes, and actual_length is its length
\* ("our objectives are not to lose any "surplus" data", linux_usbfs.c:2238).
DataContiguous ==
  kind \notin {"iso", "control"} /\ ~flying /\ result \in Status
    /\ (polled \/ result # "NO_DEVICE")
    => /\ transferred = sent
       /\ \A p \in 1..transferred : buffer[p] = p

\* A completed isochronous transfer has the result of every packet in the
\* packet's own descriptor, although they are filled in order of reaping.
IsoResultsInPlace ==
  kind = "iso" /\ ~flying /\ result = "COMPLETED" => isoSlots = [i \in 1..n |-> i]

\* A transfer that was cancelled, timed out or lost its device is reported:
\* the callback always comes (io.c:1475 "Your callback function will be invoked
\* at some later time").
CancelledGetsReported == (flying /\ asked) ~> ~flying
UnpluggedGetsReported == (flying /\ ~plugged) ~> ~flying

-----------------------------------------------------------------------------
(* What a transfer is to the program that submits it.                      *)

Abstract == INSTANCE Transfer WITH
  phase <- IF flying THEN "flying" ELSE "idle",
  asked <- flying /\ asked,
  expired <- flying /\ timedOut,
  status <- IF flying \/ result = "REFUSED" THEN "none" ELSE result,
  count <- submits

\* usbfs URBs implement the transfer of the API documentation.
ImplementsTransfer == Abstract!Spec

\* What that rests on: the locks, who has the URBs, and what is remembered of
\* the requests to cancel.
FlagTypes ==
  /\ kind \in Kinds \union {"none"} /\ n \in Urbs /\ sub \in 0..n /\ submits \in Nat
  /\ urb \in [Urbs -> [st : {"none", "queued", "done", "reaped"},
                       status : UrbStatus, len : 0..UrbLen]]
  /\ ready \in Seq(Urbs) /\ disc \in Nat \X Nat
  /\ mem \in BOOLEAN /\ flying \in BOOLEAN /\ timedOut \in BOOLEAN /\ asked \in BOOLEAN
  /\ ev \in {"idle", "report", "cancelled", "completed"}
LockInv ==
  /\ sub > 0 => flying /\ mem /\ ev = "idle" /\ lock = "submit" /\ ~timedOut /\ ~asked
  /\ Discarding => sub = 0 /\ lock # "free"
ReportInv ==
  /\ mem => flying /\ ev = "idle" /\ kind \in Kinds
  /\ ev # "idle" => flying
  /\ reapAction = "CANCELLED" \/ ev = "cancelled" => asked
  /\ reapStatus \in Status \ {"TIMED_OUT"}
  /\ reapStatus = "CANCELLED" => kind = "control" /\ ev # "completed"
  /\ ev = "report" => kind # "control"
\* The one URB of a control transfer is discarded only to cancel the transfer.
ControlInv ==
  kind = "control" =>
    /\ n = 1
    /\ Discarding \/ (\E i \in Urbs : urb[i].status = "cancelled")
         => reapAction = "CANCELLED"
RefInv == FlagTypes /\ LockInv /\ ReportInv /\ ControlInv

\* What the freeing of the URBs rests on.  The kernel has the URBs of an
\* interval: it takes them from below, and they are discarded from above.
IntervalInv ==
  \E lo \in 1..(MaxUrbs + 1), hi \in 0..MaxUrbs :
    /\ Queued = lo..hi /\ lo <= hi + 1
    /\ sub > 0 => hi = sub - 1
    /\ Discarding => lo > hi \/ hi <= disc[2]
\* None is lost between the kernel, the queue of completed ones and the count of
\* retired ones, and as long as nothing fails they come back in order.
Given == IF sub > 0 THEN sub - 1 ELSE n
CountInv ==
  /\ mem => Cardinality(Queued) + Len(ready) + retired = Given
  /\ ~mem => Queued = {} /\ ready = <<>>
  /\ mem /\ reapAction = "NORMAL" =>
       /\ Queued = (retired + Len(ready) + 1)..Given
       /\ \A k \in 1..Len(ready) : ready[k] = retired + k
       /\ Discarding => Queued = {}
ReadyInv ==
  mem => /\ \A k, l \in 1..Len(ready) : k # l => ready[k] # ready[l]
         /\ \A i \in Urbs : urb[i].st = "done" <=> \E k \in 1..Len(ready) : ready[k] = i
\* An error is the end of what the kernel does with the transfer.
UrbInv ==
  /\ kind = "interrupt" => n = 1
  /\ ~plugged \/ refuse => Queued = {}
  /\ \A i \in Urbs :
       /\ urb[i].st # "none" => i <= n /\ (sub > 0 => i < sub)
       /\ urb[i].status \in Faults => kind \in FaultyKinds /\ (kind = "bulkcont" => refuse)
       /\ urb[i].status = "overflow" => i = n
       /\ urb[i].status = "gone" => ~plugged
\* The URBs still to complete have room in the buffer for what they may bring.
Unsent == IF sub > 0 THEN n - sub + 1 ELSE 0
LengthInv ==
  /\ sent + (Cardinality(Queued) + Unsent) * UrbLen <= Units
  /\ transferred + (Len(ready) + Cardinality(Queued) + Unsent) * UrbLen <= Units
OtherTypes ==
  /\ refuse \in BOOLEAN /\ plugged \in BOOLEAN /\ polled \in BOOLEAN
  /\ reapAction \in ReapActions /\ retired \in 0..n /\ isoSlots \in Seq(Urbs)
  /\ sent \in Nat /\ transferred \in Nat
  /\ lock \in {"free", "submit", "cancel", "reap"}
  /\ result \in Status \union {"none", "REFUSED"}
IndInv == RefInv /\ OtherTypes /\ IntervalInv /\ CountInv /\ ReadyInv /\ UrbInv /\ LengthInv
\* What the data rests on.  Data lies where the URBs that brought it are, and it is
\* counted in the order in which they are reaped: there is a number of units before
\* those of each URB in the queue, which come after what has been transferred and
\* before what will be sent.  The place of a URB in the buffer is never before it.
ResultInv == flying => result = "none"
BufferOf(i) == (i - 1) * UrbLen
Streams == kind \notin {"iso", "control"}
Accounted(before) ==
  /\ \A k \in 1..Len(ready) : LET i == ready[k] IN
       /\ k = 1 => before[i] = transferred
       /\ k < Len(ready) => before[ready[k + 1]] = before[i] + urb[i].len
       /\ k = Len(ready) => sent = before[i] + urb[i].len
       /\ urb[i].len > 0 => before[i] <= BufferOf(i)
       /\ \A p \in 1..urb[i].len : buffer[BufferOf(i) + p] = before[i] + p
       /\ before[i] + urb[i].len <= sent
       /\ \A l \in (k + 1)..Len(ready) : before[i] + urb[i].len <= before[ready[l]]
  /\ ready = <<>> => transferred = sent
  /\ transferred <= sent
DataInv ==
  Streams /\ (polled \/ result # "NO_DEVICE") =>
    /\ \E before \in [Urbs -> Nat] : Accounted(before)
    /\ \A p \in 1..transferred : buffer[p] = p
    /\ \A i \in Queued : sent <= BufferOf(i)
    /\ sub > 0 => sent <= BufferOf(sub)
\* Nothing comes behind an error; until then data is received where it belongs.
TailInv ==
  Streams => \A k, l \in 1..Len(ready) :
    k < l /\ urb[ready[k]].status \in {"gone"} \union Faults => urb[ready[l]].len = 0
NoMoreData ==
  /\ Queued = {} /\ \A k \in 1..Len(ready) : urb[ready[k]].len = 0
  /\ sub > 0 => ~plugged \/ refuse
NormalInv ==
  mem /\ Streams /\ reapAction = "NORMAL" => transferred = retired * UrbLen \/ NoMoreData
\* The slots of packets are filled in the order of the URBs.
IsoInv ==
  kind = "iso" =>
    /\ mem /\ reapAction = "NORMAL" => isoSlots = [i \in 1..retired |-> i]
    /\ ev # "report"
    /\ ev = "completed" /\ reapStatus = "COMPLETED" => isoSlots = [i \in 1..n |-> i]
    /\ ~flying /\ result = "COMPLETED" => isoSlots = [i \in 1..n |-> i]
PlaceInv == ResultInv /\ DataInv /\ TailInv /\ NormalInv /\ IsoInv
=============================================================================
