------------------------------ MODULE Transfer ------------------------------
(***************************************************************************)
(* A transfer as the programmer of libusb's asynchronous API knows it      *)
(* (libusb/io.c, libusb.h): submitted, in flight, and then reported by one *)
(* call of its callback, with a status that tells the truth.               *)
(***************************************************************************)
EXTENDS Naturals

VARIABLES
  phase,     \* "idle" or "flying"
  asked,     \* in flight: libusb_cancel_transfer was called
  expired,   \* in flight: the timeout has expired
  status,    \* the status the callback got, "none" until it is called
  count      \* submissions so far

vars == <<phase, asked, expired, status, count>>

\* enum libusb_transfer_status
Outcomes == {"COMPLETED", "ERROR", "TIMED_OUT", "CANCELLED", "STALL",
             "NO_DEVICE", "OVERFLOW"}

Init ==
  /\ phase = "idle" /\ asked = FALSE /\ expired = FALSE /\ status = "none" /\ count = 0

Submit ==
  /\ phase = "idle" /\ phase' = "flying"
  /\ count' = count + 1 /\ status' = "none" /\ UNCHANGED <<asked, expired>>

\* libusb_submit_transfer returns an error: no callback will come
Refuse ==
  /\ phase = "flying" /\ ~expired
  /\ phase' = "idle" /\ asked' = FALSE
  /\ UNCHANGED <<expired, status, count>>

Cancel ==
  /\ phase = "flying" /\ ~asked /\ asked' = TRUE
  /\ expired' \in {expired, TRUE}
  /\ UNCHANGED <<phase, status, count>>

Expire ==
  /\ phase = "flying" /\ ~expired /\ expired' = TRUE
  /\ UNCHANGED <<phase, asked, status, count>>

\* The callback: cancelled only if asked, timed out only if the time was up.
Report(s) ==
  /\ phase = "flying"
  /\ s = "CANCELLED" => asked /\ ~expired
  /\ s = "TIMED_OUT" => expired
  /\ phase' = "idle" /\ status' = s
  /\ asked' = FALSE /\ expired' = FALSE /\ UNCHANGED count

Next == Submit \/ Refuse \/ Cancel \/ Expire \/ \E s \in Outcomes : Report(s)

Spec == Init /\ [][Next]_vars
=============================================================================
