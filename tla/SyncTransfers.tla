--------------------------- MODULE SyncTransfers ----------------------------
(***************************************************************************)
(* The synchronous calls of libusb (sync.c): a transfer is allocated and   *)
(* submitted, and the caller handles events until its callback has set     *)
(* "completed".  The transfer itself is the abstract one of Transfer,      *)
(* which UrbTransfer implements.  Events may also be handled by another    *)
(* thread, so the callback can come at any time.                           *)
(***************************************************************************)
EXTENDS Naturals

CONSTANT MaxCalls    \* bound on the calls followed

VARIABLES
  phase, cancelAsked, expired, status, count,   \* the transfer, see Transfer
  caller,     \* "idle", "submit" (transfer allocated), "wait" or "woken"
  control,    \* libusb_control_transfer: it has a buffer of its own
  timed,   \* the call has a timeout
  held,       \* what is allocated for the call
  completed,  \* the flag the callback sets
  returned    \* what the last call returned

syncVars == <<phase, cancelAsked, expired, status, count, caller, control, timed,
              held, completed, returned>>
callVars == <<caller, control, timed, held, completed, returned>>

T == INSTANCE Transfer WITH asked <- cancelAsked

Init ==
  /\ T!Init
  /\ caller = "idle" /\ control = FALSE /\ timed = FALSE /\ held = {}
  /\ completed = FALSE /\ returned = "none"

\* The switch over transfer->status
ReturnCode(s) ==
  CASE s = "COMPLETED" -> "SUCCESS" [] s = "TIMED_OUT" -> "TIMEOUT"
    [] s = "STALL" -> "PIPE" [] s = "NO_DEVICE" -> "NO_DEVICE"
    [] s = "OVERFLOW" -> "OVERFLOW" [] s \in {"ERROR", "CANCELLED"} -> "IO"
    [] OTHER -> "OTHER"

Return(code) ==
  /\ caller' = "idle" /\ returned' = code /\ held' = {}
  /\ control' = FALSE /\ timed' = FALSE /\ completed' = FALSE

\* libusb_control_transfer, libusb_bulk_transfer or libusb_interrupt_transfer
\* up to the submission; a buffer is only allocated for control transfers.
Call(ctl, tm) ==
  /\ caller = "idle" /\ count < MaxCalls
  /\ \/ Return("NO_MEM")
     \/ /\ caller' = "submit" /\ control' = ctl /\ timed' = tm
        /\ held' = IF ctl THEN {"transfer", "buffer"} ELSE {"transfer"}
        /\ completed' = FALSE /\ returned' = "none"
  /\ UNCHANGED <<phase, cancelAsked, expired, status, count>>

\* libusb_submit_transfer; when it fails libusb_free_transfer also frees the
\* buffer, because of LIBUSB_TRANSFER_FREE_BUFFER.
Submit ==
  /\ caller = "submit" /\ T!Submit
  /\ caller' = "wait" /\ UNCHANGED <<control, timed, held, completed, returned>>
SubmitFails ==
  /\ caller = "submit" /\ Return("SUBMIT_ERROR")
  /\ UNCHANGED <<phase, cancelAsked, expired, status, count>>

\* The transfer comes to its end in whichever thread handles events, and
\* sync_transfer_cb sets the flag.
Callback(s) ==
  /\ T!Report(s) /\ completed' = TRUE
  /\ UNCHANGED <<caller, control, timed, held, returned>>

\* handle_timeouts
Timeout == timed /\ T!Expire /\ UNCHANGED callVars

\* libusb_handle_events_completed returns, at any time, ...
HandleEvents ==
  /\ caller = "wait" /\ caller' = "woken"
  /\ UNCHANGED <<phase, cancelAsked, expired, status, count, control, timed, held,
                 completed, returned>>
\* ... or fails, after which the transfer is cancelled and waited for all the same.
HandleEventsFails ==
  /\ caller = "wait" /\ caller' = "woken"
  /\ IF phase = "flying" /\ ~cancelAsked THEN UNCHANGED expired /\ T!Cancel
     ELSE UNCHANGED <<phase, cancelAsked, expired, status, count>>
  /\ UNCHANGED <<control, timed, held, completed, returned>>

\* Mutant: returns after the first round of events.
WaitsOnce == TRUE
\* while (!*completed)
WaitIsOver == completed

\* The test of the loop, and after it the result
Loop ==
  /\ caller = "woken"
  /\ IF WaitIsOver THEN Return(ReturnCode(status))
     ELSE caller' = "wait" /\ UNCHANGED <<control, timed, held, completed, returned>>
  /\ UNCHANGED <<phase, cancelAsked, expired, status, count>>

Next ==
  \/ \E ctl, tm \in BOOLEAN : Call(ctl, tm)
  \/ Submit \/ SubmitFails \/ Timeout
  \/ HandleEvents \/ HandleEventsFails \/ Loop
  \/ \E s \in T!Outcomes : Callback(s)

Spec == Init /\ [][Next]_syncVars

CallerStep == HandleEvents \/ Loop
\* A transfer that has timed out or was cancelled is reported, as UrbTransfer
\* shows; one without a timeout may wait for the device for ever.
ReportOverdue ==
  (expired \/ cancelAsked) /\ \E s \in T!Outcomes : Callback(s)

Fairness ==
  WF_syncVars(CallerStep) /\ WF_syncVars(Timeout) /\ WF_syncVars(ReportOverdue)
FairSpec == Spec /\ Fairness

-----------------------------------------------------------------------------
TypeOK ==
  /\ caller \in {"idle", "submit", "wait", "woken"}
  /\ phase \in {"idle", "flying"} /\ status \in T!Outcomes \union {"none"}
  /\ held \in {{}, {"transfer"}, {"transfer", "buffer"}}
  /\ completed \in BOOLEAN /\ control \in BOOLEAN /\ timed \in BOOLEAN

\* While the transfer is in flight the call has not returned: the buffers and
\* the flag on its stack that the callback writes are still there, and nothing
\* stays allocated after it.
NothingOutlivesCall ==
  /\ phase = "flying" => caller \in {"wait", "woken"} /\ "transfer" \in held
  /\ caller = "idle" => held = {}

\* The callback sets the flag of a call that waits for it, which the call reads
\* before it returns.
WaitInv ==
  /\ caller # "idle" => "transfer" \in held
  /\ caller \in {"wait", "woken"} => phase = "flying" \/ completed
  /\ completed => phase = "idle" /\ caller \in {"wait", "woken"}
IndInv == TypeOK /\ NothingOutlivesCall /\ WaitInv

\* A call with a timeout returns, whatever the device does and however often
\* handling events fails.
SyncReturns == (caller = "wait" /\ timed) ~> caller = "idle"
=============================================================================
