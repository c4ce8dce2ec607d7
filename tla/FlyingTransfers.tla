-------------------------- MODULE FlyingTransfers ---------------------------
(***************************************************************************)
(* The list of transfers in flight of a libusb context and their timeouts  *)
(* (libusb/io.c), in the build without timerfd: every thread that handles  *)
(* events asks for the next timeout, sleeps at most that long and then     *)
(* cancels what is overdue.  Time is the monotonic clock in coarse ticks;  *)
(* 0 is a timeval that is not set.                                         *)
(***************************************************************************)
EXTENDS Naturals, Sequences, SequencesExt

CONSTANTS
  Xfers,       \* the transfers
  Handlers,    \* threads that handle events
  Timeouts,    \* values of transfer->timeout, 0 for none
  MaxWait,     \* 60 s, the longest a handler sleeps
  MaxTime      \* bound on the clock

NoXfer == "none"

VARIABLES
  list,        \* ctx->flying_transfers, as a sequence
  deadline,    \* itransfer->timeout, an absolute time
  overdue,     \* USBI_TRANSFER_TIMED_OUT
  alive,       \* transfers that are allocated
  now,
  at, found, until  \* of each handler: where it is, its transfer, its wake-up

flyVars == <<list, deadline, overdue, alive, now, at, found, until>>
xferVars == <<list, deadline, overdue, alive>>

Init ==
  /\ list = <<>> /\ deadline = [x \in Xfers |-> 0]
  /\ overdue = [x \in Xfers |-> FALSE] /\ alive = {}
  /\ now = 1
  /\ at = [h \in Handlers |-> "idle"] /\ found = [h \in Handlers |-> NoXfer]
  /\ until = [h \in Handlers |-> 0]

InFlight == ToSet(list)

\* libusb_alloc_transfer: calloc clears the timeout and the flags.
AllocTransfer(x) ==
  /\ x \notin alive
  /\ alive' = alive \union {x}
  /\ UNCHANGED <<list, deadline, overdue, now, at, found, until>>

\* libusb_free_transfer: not while in flight
FreeTransfer(x) ==
  /\ x \in alive \ InFlight
  /\ alive' = alive \ {x}
  /\ deadline' = [deadline EXCEPT ![x] = 0] /\ overdue' = [overdue EXCEPT ![x] = FALSE]
  /\ UNCHANGED <<list, now, at, found, until>>

\* calculate_timeout: without a timeout the old time is left as it was.
CalculateTimeout(x, t) == IF t = 0 THEN deadline[x] ELSE now + t

\* Mutant: transfers are kept in order of submission.
AtTheEnd(x, d) == Append(list, x)
\* add_to_flying_list: before the first one that is later or has no timeout
AddToFlyingList(x, d) ==
  LET after == {i \in 1..Len(list) : deadline[list[i]] = 0 \/ deadline[list[i]] > d}
      pos == CHOOSE i \in after : \A j \in after : i <= j
  IN IF d = 0 \/ after = {} THEN Append(list, x) ELSE InsertAt(list, pos, x)

\* libusb_submit_transfer; when the backend fails the transfer is taken out of
\* the list again.
SubmitTransfer(x, t, ok) ==
  /\ x \in alive \ InFlight
  /\ LET d == CalculateTimeout(x, t) IN
     /\ deadline' = [deadline EXCEPT ![x] = d]
     /\ list' = IF ok THEN AddToFlyingList(x, d) ELSE list
  /\ overdue' = [overdue EXCEPT ![x] = FALSE]
  /\ UNCHANGED <<alive, now, at, found, until>>

\* usbi_handle_transfer_completion: list_del
CompleteTransfer(x) ==
  /\ \E i \in 1..Len(list) : list[i] = x /\ list' = RemoveAt(list, i)
  /\ UNCHANGED <<deadline, overdue, alive, now, at, found, until>>

\* handle_timeouts_locked walks the list until a timeout that has not expired
\* or is not set; those it has handled before are passed over.
Stops(i) ==
  \/ deadline[list[i]] = 0
  \/ ~overdue[list[i]] /\ deadline[list[i]] > now
Walked == {i \in 1..Len(list) : \A j \in 1..i : ~Stops(j)}

\* handle_timeouts: each is marked and cancelled (see UrbTransfer)
HandleTimeouts(h) ==
  /\ at[h] = "expired"
  /\ overdue' = [x \in Xfers |-> overdue[x] \/ \E i \in Walked : list[i] = x]
  /\ at' = [at EXCEPT ![h] = "idle"]
  /\ UNCHANGED <<list, deadline, alive, now, found, until>>

\* libusb_get_next_timeout: the first that is not handled yet, under the lock ...
Pending(i) == ~overdue[list[i]] /\ deadline[list[i]] # 0
GetNextTimeout(h) ==
  /\ at[h] = "idle"
  /\ LET c == {i \in 1..Len(list) : Pending(i)} IN
     IF c = {}
       THEN /\ at' = [at EXCEPT ![h] = "asleep"]
            /\ until' = [until EXCEPT ![h] = now + MaxWait]
            /\ UNCHANGED found
       ELSE /\ at' = [at EXCEPT ![h] = "read"]
            /\ found' = [found EXCEPT
                 ![h] = list[CHOOSE i \in c : \A j \in c : i <= j]]
            /\ UNCHANGED until
  /\ UNCHANGED <<xferVars, now>>

\* ... and its timeout is read after the unlock: if the transfer was freed
\* meanwhile, whatever is there.
ReadTimeout(h, d) ==
  /\ at[h] = "read"
  /\ found[h] \in alive => d = deadline[found[h]]
  /\ IF d <= now
       THEN at' = [at EXCEPT ![h] = "expired"] /\ UNCHANGED until
       ELSE /\ at' = [at EXCEPT ![h] = "asleep"]
            /\ until' = [until EXCEPT
                 ![h] = IF d < now + MaxWait THEN d ELSE now + MaxWait]
  /\ found' = [found EXCEPT ![h] = NoXfer]
  /\ UNCHANGED <<xferVars, now>>

\* poll() or the wait for the event waiters' condition times out, ...
WakeUp(h) ==
  /\ at[h] = "asleep" /\ now >= until[h]
  /\ at' = [at EXCEPT ![h] = "expired"] /\ until' = [until EXCEPT ![h] = 0]
  /\ UNCHANGED <<xferVars, now, found>>

\* ... or something happened before.
EventComes(h) ==
  /\ at[h] = "asleep"
  /\ at' = [at EXCEPT ![h] = "idle"] /\ until' = [until EXCEPT ![h] = 0]
  /\ UNCHANGED <<xferVars, now, found>>

Tick ==
  /\ now < MaxTime /\ now' = now + 1
  /\ UNCHANGED <<xferVars, at, found, until>>

Times == 0..MaxTime
Handler(h) ==
  \/ HandleTimeouts(h) \/ GetNextTimeout(h) \/ WakeUp(h) \/ EventComes(h)
  \/ \E d \in Times : ReadTimeout(h, d)

Next ==
  \/ \E x \in Xfers :
       \/ AllocTransfer(x) \/ FreeTransfer(x) \/ CompleteTransfer(x)
       \/ \E t \in Timeouts, ok \in BOOLEAN : SubmitTransfer(x, t, ok)
  \/ \E h \in Handlers : Handler(h)
  \/ Tick

Spec == Init /\ [][Next]_flyVars

-----------------------------------------------------------------------------
TypeOK ==
  /\ list \in Seq(Xfers) /\ InFlight \subseteq alive
  /\ \A i, j \in 1..Len(list) : i # j => list[i] # list[j]
  /\ alive \subseteq Xfers /\ now \in 1..MaxTime
  /\ overdue \in [Xfers -> BOOLEAN]
  /\ at \in [Handlers -> {"idle", "read", "expired", "asleep"}]

\* Whenever a thread goes through the timeouts no transfer that is due is left
\* out, although the walk stops at the first one that is not: transfers come
\* and go, time passes and old ones stay in the list while being cancelled
\* (handle_timeouts_locked relies on the order add_to_flying_list keeps).
NoTimeoutMissed ==
  [][\A h \in Handlers : HandleTimeouts(h) =>
       \A x \in InFlight : deadline[x] # 0 /\ deadline[x] <= now => overdue'[x]]_flyVars

\* add_to_flying_list keeps the list in the order of the timeouts, those without
\* one at the end; a transfer in the list keeps its timeout.
TimesInv == deadline \in [Xfers -> Nat]
SortedInv ==
  \A i, j \in 1..Len(list) : i < j /\ deadline[list[j]] # 0 =>
    deadline[list[i]] # 0 /\ deadline[list[i]] <= deadline[list[j]]
IndInv == TypeOK /\ TimesInv /\ SortedInv
=============================================================================
