------------------------- MODULE UsbTransfersProofs -------------------------
(***************************************************************************)
(* Theorems about the parts of MCUsbTransfers, for every value of the      *)
(* constants: the calls that wait for a transfer, the timeouts, that URBs  *)
(* implement the transfer of the API, that the data of a transfer is where *)
(* the program finds it, and that cutting a transfer fills its URBs.       *)
(***************************************************************************)
EXTENDS MCUsbTransfers, FiniteSetTheorems, FunctionTheorems, SequenceTheorems,
        WellFoundedInduction, TLAPS

\* A step of MCUsbTransfers is one of the part that was chosen, or changes nothing.
LEMMA PartSteps ==
  [Next]_all =>
    /\ part' = part
    /\ part = "urb" => Urb!Next \/ UNCHANGED urbVars
    /\ part = "fly" => Fly!Next \/ UNCHANGED flyVars
    /\ part = "split" => Split!Next \/ UNCHANGED splitVars
    /\ part = "sync" => Sync!Next \/ UNCHANGED syncVars
    /\ part # "urb" => UNCHANGED urbVars
    /\ part # "fly" => UNCHANGED flyVars
  BY DEF Next, all, ByUrb, ByFly, BySplit, BySync

-----------------------------------------------------------------------------
(* Synchronous calls.                                                      *)

LEMMA SyncInit == Sync!Init => Sync!IndInv
  BY DEF Sync!Init, Sync!T!Init, Sync!IndInv, Sync!TypeOK, Sync!NothingOutlivesCall, Sync!WaitInv

LEMMA SyncStep ==
  ASSUME Sync!IndInv, Sync!Next
  PROVE  Sync!IndInv'
<1> USE DEF Sync!IndInv, Sync!TypeOK, Sync!NothingOutlivesCall, Sync!WaitInv
<1>1. ASSUME NEW ctl \in BOOLEAN, NEW tm \in BOOLEAN, Sync!Call(ctl, tm) PROVE Sync!IndInv'
  <2>1. CASE Sync!Return("NO_MEM")
    BY <1>1, <2>1 DEF Sync!Call, Sync!Return
  <2>2. CASE ~Sync!Return("NO_MEM")
    BY <1>1, <2>2 DEF Sync!Call
  <2> QED
    BY <2>1, <2>2
<1>2. CASE Sync!Submit
  <2>1. /\ caller = "submit" /\ caller' = "wait" /\ phase' = "flying" /\ status' = "none"
        /\ UNCHANGED <<control, timed, held, completed>>
    BY <1>2 DEF Sync!Submit, Sync!T!Submit
  <2>2. "transfer" \in held /\ ~completed
    BY <2>1
  <2> QED
    BY <2>1, <2>2
<1>3. CASE Sync!SubmitFails
  BY <1>3 DEF Sync!SubmitFails, Sync!Return
<1>4. CASE Sync!Timeout
  BY <1>4 DEF Sync!Timeout, Sync!T!Expire, Sync!callVars
<1>5. CASE Sync!HandleEvents
  BY <1>5 DEF Sync!HandleEvents
<1>6. CASE Sync!HandleEventsFails
  <2>1. UNCHANGED <<phase, status, control, timed, held, completed>>
    BY <1>6 DEF Sync!HandleEventsFails, Sync!T!Cancel
  <2> QED
    BY <1>6, <2>1 DEF Sync!HandleEventsFails
<1>7. CASE Sync!Loop
  BY <1>7 DEF Sync!Loop, Sync!WaitIsOver, Sync!Return
<1>8. ASSUME NEW s \in Sync!T!Outcomes, Sync!Callback(s) PROVE Sync!IndInv'
  BY <1>8 DEF Sync!Callback, Sync!T!Report
<1> QED
  BY <1>1, <1>2, <1>3, <1>4, <1>5, <1>6, <1>7, <1>8 DEF Sync!Next

\* Whoever handles the events, and however often handling them fails, a synchronous
\* call has not returned while its transfer is in flight, and leaves nothing
\* allocated (sync.c sync_transfer_wait_for_completion).
THEOREM SyncSafe == Spec => []NothingOutlivesCall
<1> DEFINE I == part = "sync" => Sync!IndInv
<1>1. Init => I
  BY SyncInit DEF Init
<1>2. I /\ [Next]_all => I'
  <2> SUFFICES ASSUME I, [Next]_all, part' = "sync" PROVE Sync!IndInv'
    OBVIOUS
  <2>1. part = "sync"
    BY PartSteps
  <2>2. CASE Sync!Next
    BY <2>1, <2>2, SyncStep
  <2>3. CASE UNCHANGED syncVars
    BY <2>1, <2>3 DEF syncVars, Sync!IndInv, Sync!TypeOK, Sync!NothingOutlivesCall, Sync!WaitInv
  <2> QED
    BY <2>1, <2>2, <2>3, PartSteps
<1>3. I => NothingOutlivesCall
  BY DEF NothingOutlivesCall, Sync!IndInv
<1> QED
  BY <1>1, <1>2, <1>3, PTL DEF Spec, Steps

-----------------------------------------------------------------------------
(* Timeouts.                                                               *)

\* What a sequence is after the removal of its k-th member
LEMMA Removed ==
  ASSUME NEW S, NEW s \in Seq(S), NEW k \in 1..Len(s)
  PROVE  /\ Fly!RemoveAt(s, k) \in Seq(S) /\ Len(Fly!RemoveAt(s, k)) = Len(s) - 1
         /\ \A i \in 1..Len(s) - 1 : Fly!RemoveAt(s, k)[i] = IF i < k THEN s[i] ELSE s[i + 1]
<1> DEFINE t == Fly!RemoveAt(s, k)
           a == SubSeq(s, 1, k - 1)
           b == SubSeq(s, k + 1, Len(s))
<1>1. /\ a \in Seq(S) /\ Len(a) = k - 1 /\ \A i \in 1..(k - 1) : a[i] = s[i]
      /\ b \in Seq(S) /\ Len(b) = Len(s) - k /\ \A i \in 1..(Len(s) - k) : b[i] = s[k + i]
  OBVIOUS
<1>2. t = a \o b
  BY DEF Fly!RemoveAt
<1> HIDE DEF t, a, b
<1>3. /\ t \in Seq(S) /\ Len(t) = Len(a) + Len(b)
      /\ \A i \in 1..Len(t) : t[i] = IF i <= Len(a) THEN a[i] ELSE b[i - Len(a)]
  <2>1. a \in Seq(S) /\ b \in Seq(S)
    BY <1>1
  <2> QED
    BY <1>2, <2>1, ConcatProperties
<1>4. Len(t) = Len(s) - 1
  BY <1>1, <1>3
<1>5. ASSUME NEW i \in 1..(Len(s) - 1) PROVE t[i] = IF i < k THEN s[i] ELSE s[i + 1]
  <2>1. CASE i < k
    <3>1. i \in 1..(k - 1) /\ i <= k - 1 /\ i \in 1..Len(t)
      BY <1>4, <2>1
    <3>2. t[i] = a[i] /\ a[i] = s[i]
      BY <1>1, <1>3, <3>1
    <3> QED
      BY <2>1, <3>2
  <2>2. CASE ~(i < k)
    <3>1. i - (k - 1) \in 1..(Len(s) - k) /\ k + (i - (k - 1)) = i + 1 /\ ~(i <= k - 1)
      BY <2>2
    <3>2. t[i] = b[i - (k - 1)]
      BY <1>1, <1>3, <1>4, <3>1
    <3> QED
      BY <1>1, <2>2, <3>1, <3>2
  <2> QED
    BY <2>1, <2>2
<1> QED
  BY <1>3, <1>4, <1>5 DEF t

\* What a sequence is after e was put before its k-th member
LEMMA Inserted ==
  ASSUME NEW S, NEW s \in Seq(S), NEW k \in 1..Len(s), NEW e \in S
  PROVE  /\ Fly!InsertAt(s, k, e) \in Seq(S) /\ Len(Fly!InsertAt(s, k, e)) = Len(s) + 1
         /\ \A i \in 1..Len(s) + 1 : Fly!InsertAt(s, k, e)[i] =
              IF i < k THEN s[i] ELSE IF i = k THEN e ELSE s[i - 1]
<1> DEFINE t == Fly!InsertAt(s, k, e)
           a == SubSeq(s, 1, k - 1)
           c == <<e>>
           d == a \o c
           b == SubSeq(s, k, Len(s))
<1>1. /\ a \in Seq(S) /\ Len(a) = k - 1 /\ \A i \in 1..(k - 1) : a[i] = s[i]
      /\ b \in Seq(S) /\ Len(b) = Len(s) - k + 1
      /\ \A i \in 1..(Len(s) - k + 1) : b[i] = s[k - 1 + i]
  OBVIOUS
<1>2. c \in Seq(S) /\ Len(c) = 1 /\ c[1] = e
  OBVIOUS
<1>3. t = d \o b
  BY DEF Fly!InsertAt
<1> HIDE DEF t, a, b, c
<1>4. /\ d \in Seq(S) /\ Len(d) = k /\ d[k] = e
      /\ \A i \in 1..(k - 1) : d[i] = s[i]
  <2>1. a \in Seq(S) /\ c \in Seq(S)
    BY <1>1, <1>2
  <2>2. /\ d \in Seq(S) /\ Len(d) = Len(a) + Len(c)
        /\ \A i \in 1..Len(d) : d[i] = IF i <= Len(a) THEN a[i] ELSE c[i - Len(a)]
    BY <2>1, ConcatProperties
  <2> HIDE DEF d
  <2>3. Len(d) = k
    BY <1>1, <1>2, <2>2
  <2>4. k \in 1..k /\ ~(k <= k - 1) /\ k - (k - 1) = 1 /\ \A i \in 1..(k - 1) : i \in 1..k /\ i <= k - 1
    OBVIOUS
  <2> QED
    BY <1>1, <1>2, <2>2, <2>3, <2>4, SMTT(30)
<1> HIDE DEF d
<1>5. /\ t \in Seq(S) /\ Len(t) = Len(d) + Len(b)
      /\ \A i \in 1..Len(t) : t[i] = IF i <= Len(d) THEN d[i] ELSE b[i - Len(d)]
  <2>1. d \in Seq(S) /\ b \in Seq(S)
    BY <1>1, <1>4
  <2> QED
    BY <1>3, <2>1, ConcatProperties
<1>6. Len(t) = Len(s) + 1
  BY <1>1, <1>4, <1>5
<1>7. ASSUME NEW i \in 1..(Len(s) + 1)
      PROVE  t[i] = IF i < k THEN s[i] ELSE IF i = k THEN e ELSE s[i - 1]
  <2>1. CASE i < k
    BY <1>4, <1>5, <1>6, <2>1
  <2>2. CASE i = k
    BY <1>4, <1>5, <1>6, <2>2
  <2>3. CASE i > k
    <3>1. i - k \in 1..(Len(s) - k + 1) /\ k - 1 + (i - k) = i - 1 /\ ~(i <= k)
      BY <2>3
    <3>2. t[i] = b[i - k]
      BY <1>4, <1>5, <1>6, <3>1
    <3>3. b[i - k] = s[i - 1]
      BY <1>1, <3>1
    <3>4. ~(i < k) /\ i # k
      BY <2>3
    <3> QED
      BY <3>2, <3>3, <3>4
  <2> QED
    BY <2>1, <2>2, <2>3
<1> QED
  BY <1>5, <1>6, <1>7 DEF t

\* A set of numbers that is not empty has a least one.
LEMMA Least ==
  ASSUME NEW S, S \subseteq Nat, S # {}
  PROVE  \E i \in S : \A j \in S : i <= j
<1>1. PICK x \in S : \A y \in S : ~(<<y, x>> \in OpToRel(<, Nat))
  BY NatLessThanWellFounded, WFMin
<1>2. ASSUME NEW y \in S PROVE x <= y
  <2>1. x \in Nat /\ y \in Nat
    OBVIOUS
  <2>2. ~(y < x)
    BY <1>1, <2>1 DEF OpToRel
  <2> QED
    BY <2>1, <2>2
<1> QED
  BY <1>2

LEMMA FlyInit == Fly!Init => Fly!IndInv
  BY TimesAssumption DEF Fly!Init, Fly!IndInv, Fly!TypeOK, Fly!TimesInv, Fly!SortedInv, Fly!InFlight, Fly!ToSet

\* What a step that leaves the list and the timeouts alone has to show
LEMMA FlyKept ==
  ASSUME Fly!IndInv, UNCHANGED <<list, deadline>>,
         alive \subseteq alive', alive' \subseteq Xfers, now' \in 1..MaxTime,
         overdue' \in [Xfers -> BOOLEAN],
         at' \in [Handlers -> {"idle", "read", "expired", "asleep"}]
  PROVE  Fly!IndInv'
  BY DEF Fly!IndInv, Fly!TypeOK, Fly!TimesInv, Fly!SortedInv, Fly!InFlight, Fly!ToSet

\* A transfer that is not in the list can go into it where its timeout belongs.
LEMMA FlyAdded ==
  ASSUME Fly!IndInv, NEW x \in alive, x \notin Fly!InFlight, NEW d \in Nat,
         deadline' = [deadline EXCEPT ![x] = d], list' = Fly!AddToFlyingList(x, d),
         UNCHANGED alive
  PROVE  /\ list' \in Seq(Xfers) /\ Fly!InFlight' \subseteq alive'
         /\ \A i, j \in 1..Len(list') : i # j => list'[i] # list'[j]
         /\ Fly!SortedInv'
<1>1. /\ list \in Seq(Xfers) /\ Fly!InFlight \subseteq alive /\ alive \subseteq Xfers
      /\ \A i, j \in 1..Len(list) : i # j => list[i] # list[j]
      /\ deadline \in [Xfers -> Nat] /\ x \in Xfers
      /\ \A i, j \in 1..Len(list) : i < j /\ deadline[list[j]] # 0 =>
           deadline[list[i]] # 0 /\ deadline[list[i]] <= deadline[list[j]]
  BY DEF Fly!IndInv, Fly!TypeOK, Fly!TimesInv, Fly!SortedInv
<1>2. \A i \in 1..Len(list) : list[i] \in alive /\ list[i] \in Xfers /\ list[i] # x
  BY <1>1 DEF Fly!InFlight, Fly!ToSet
<1>3. /\ \A i \in 1..Len(list) : deadline'[list[i]] = deadline[list[i]] /\ deadline[list[i]] \in Nat
      /\ deadline'[x] = d
  BY <1>1, <1>2
<1> DEFINE after == {i \in 1..Len(list) : deadline[list[i]] = 0 \/ deadline[list[i]] > d}
           pos == CHOOSE i \in after : \A j \in after : i <= j
<1>4. CASE d = 0 \/ after = {}
  <2>1. list' = Append(list, x)
    BY <1>4 DEF Fly!AddToFlyingList
  <2>2. /\ list' \in Seq(Xfers) /\ Len(list') = Len(list) + 1 /\ list'[Len(list) + 1] = x
        /\ \A i \in 1..Len(list) : list'[i] = list[i]
    BY <1>1, <2>1, AppendProperties
  <2>3. \A i \in 1..Len(list') : i \in 1..Len(list) \/ i = Len(list) + 1
    BY <1>1, <2>2
  <2>4. Fly!InFlight' \subseteq alive'
    BY <1>2, <2>2, <2>3 DEF Fly!InFlight, Fly!ToSet
  <2>5. ASSUME NEW i \in 1..Len(list'), NEW j \in 1..Len(list'), i # j PROVE list'[i] # list'[j]
    <3>1. CASE i \in 1..Len(list) /\ j \in 1..Len(list)
      BY <1>1, <2>2, <2>5, <3>1
    <3>2. CASE i = Len(list) + 1 /\ j \in 1..Len(list)
      BY <1>2, <2>2, <3>2
    <3>3. CASE j = Len(list) + 1 /\ i \in 1..Len(list)
      BY <1>2, <2>2, <3>3
    <3> QED
      BY <2>3, <2>5, <3>1, <3>2, <3>3
  <2>6. d # 0 => \A i \in 1..Len(list) : deadline[list[i]] # 0 /\ deadline[list[i]] <= d
    BY <1>3, <1>4
  <2>7. ASSUME NEW i \in 1..Len(list'), NEW j \in 1..Len(list'), i < j, deadline'[list'[j]] # 0
        PROVE  deadline'[list'[i]] # 0 /\ deadline'[list'[i]] <= deadline'[list'[j]]
    <3>1. i \in 1..Len(list)
      BY <1>1, <2>2, <2>7
    <3>2. CASE j \in 1..Len(list)
      BY <1>1, <1>3, <2>2, <2>7, <3>1, <3>2, ZenonT(30)
    <3>3. CASE j = Len(list) + 1
      <4>1. deadline'[list'[j]] = d /\ d # 0
        BY <1>3, <2>2, <2>7, <3>3
      <4>2. deadline'[list'[i]] = deadline[list[i]]
        BY <1>3, <2>2, <3>1
      <4> QED
        BY <2>6, <3>1, <4>1, <4>2
    <3> QED
      BY <2>3, <3>2, <3>3
  <2> QED
    BY <2>2, <2>4, <2>5, <2>7 DEF Fly!SortedInv
<1>5. CASE ~(d = 0 \/ after = {})
  <2>1. \E i \in after : \A j \in after : i <= j
    <3>1. after \subseteq Nat /\ after # {}
      BY <1>5
    <3> HIDE DEF after, pos
    <3> QED
      BY <3>1, Least
  <2>2. pos \in after /\ \A j \in after : pos <= j
    BY <2>1
  <2>3. list' = Fly!InsertAt(list, pos, x)
    BY <1>5 DEF Fly!AddToFlyingList
  <2>4. /\ pos \in 1..Len(list) /\ (deadline[list[pos]] = 0 \/ deadline[list[pos]] > d)
        /\ \A j \in 1..Len(list) : j < pos => deadline[list[j]] # 0 /\ deadline[list[j]] <= d
    <3> HIDE DEF pos
    <3>1. pos \in 1..Len(list) /\ (deadline[list[pos]] = 0 \/ deadline[list[pos]] > d)
      BY <2>2
    <3>2. ASSUME NEW j \in 1..Len(list), j < pos
          PROVE  deadline[list[j]] # 0 /\ deadline[list[j]] <= d
      <4>1. ~(pos <= j)
        BY <3>1, <3>2
      <4>2. j \notin after
        BY <2>2, <4>1
      <4>3. deadline[list[j]] # 0 /\ ~(deadline[list[j]] > d)
        BY <4>2
      <4> HIDE DEF after
      <4> QED
        BY <1>3, <4>3
    <3> QED
      BY <3>1, <3>2
  <2> HIDE DEF pos, after
  <2>5. /\ list' \in Seq(Xfers) /\ Len(list') = Len(list) + 1
        /\ \A i \in 1..Len(list) + 1 : list'[i] =
             IF i < pos THEN list[i] ELSE IF i = pos THEN x ELSE list[i - 1]
    <3>1. list \in Seq(Xfers) /\ pos \in 1..Len(list) /\ x \in Xfers
      BY <1>1, <2>4
    <3>2. ASSUME NEW k \in 1..Len(list)
          PROVE  /\ Fly!InsertAt(list, k, x) \in Seq(Xfers)
                 /\ Len(Fly!InsertAt(list, k, x)) = Len(list) + 1
                 /\ \A i \in 1..Len(list) + 1 : Fly!InsertAt(list, k, x)[i] =
                      IF i < k THEN list[i] ELSE IF i = k THEN x ELSE list[i - 1]
      BY ONLY <3>1, k \in 1..Len(list), Inserted
    <3> QED
      BY ONLY <2>3, <3>1, <3>2
  <2>6. /\ \A i \in 1..Len(list') : i < pos => i \in 1..Len(list) /\ list'[i] = list[i]
        /\ list'[pos] = x
        /\ \A i \in 1..Len(list') : i > pos => i - 1 \in 1..Len(list) /\ i - 1 >= pos /\ list'[i] = list[i - 1]
    BY <1>1, <2>4, <2>5, SMTT(30)
  <2>7. \A i \in 1..Len(list') : i < pos \/ i = pos \/ i > pos
    BY <1>1, <2>4
  <2>8. Fly!InFlight' \subseteq alive'
    <3>1. \A i \in 1..Len(list') : list'[i] \in alive
      BY <1>2, <2>6, <2>7
    <3> QED
      BY <2>5, <3>1 DEF Fly!InFlight, Fly!ToSet
  <2>9. ASSUME NEW i \in 1..Len(list'), NEW j \in 1..Len(list'), i # j PROVE list'[i] # list'[j]
    <3>1. CASE i = pos
      BY <1>2, <2>6, <2>7, <2>9, <3>1
    <3>2. CASE j = pos
      BY <1>2, <2>6, <2>7, <2>9, <3>2
    <3>3. CASE i # pos /\ j # pos
      <4> DEFINE a == IF i < pos THEN i ELSE i - 1
                 b == IF j < pos THEN j ELSE j - 1
      <4>1. a \in 1..Len(list) /\ b \in 1..Len(list) /\ list'[i] = list[a] /\ list'[j] = list[b]
        BY <2>6, <2>7, <3>3
      <4>2. a # b
        BY <2>4, <2>9, <3>3
      <4> QED
        BY <1>1, <4>1, <4>2
    <3> QED
      BY <3>1, <3>2, <3>3
  <2>10. ASSUME NEW i \in 1..Len(list'), NEW j \in 1..Len(list'), i < j, deadline'[list'[j]] # 0
         PROVE  deadline'[list'[i]] # 0 /\ deadline'[list'[i]] <= deadline'[list'[j]]
    <3>1. CASE j < pos
      <4>1. i < pos
        BY <2>4, <2>10, <3>1
      <4>2. i \in 1..Len(list) /\ j \in 1..Len(list) /\ list'[i] = list[i] /\ list'[j] = list[j]
        BY <2>6, <3>1, <4>1
      <4> QED
        BY <1>1, <1>3, <2>10, <4>2
    <3>2. CASE j = pos
      <4>1. i \in 1..Len(list) /\ list'[i] = list[i] /\ deadline'[list'[j]] = d /\ i < pos
        BY <1>3, <2>6, <2>10, <3>2
      <4> QED
        BY <1>3, <2>4, <4>1
    <3>3. CASE j > pos
      <4>1. j - 1 \in 1..Len(list) /\ j - 1 >= pos /\ deadline'[list'[j]] = deadline[list[j - 1]]
        BY <1>3, <2>6, <3>3
      <4>2. deadline[list[j - 1]] # 0
        BY <2>10, <4>1
      <4>3. deadline[list[pos]] # 0 /\ deadline[list[pos]] <= deadline[list[j - 1]]
        <5>1. CASE j - 1 = pos
          BY <1>3, <2>4, <4>2, <5>1
        <5>2. CASE pos < j - 1
          BY <1>1, <2>4, <4>1, <4>2, <5>2
        <5> QED
          BY <2>4, <4>1, <5>1, <5>2
      <4>4. d < deadline[list[pos]] /\ d # 0
        BY <1>3, <1>5, <2>4, <4>3
      <4>5. CASE i < pos
        <5>1. deadline'[list'[i]] = deadline[list[i]] /\ i \in 1..Len(list)
          BY <1>3, <2>6, <4>5
        <5>2. i < j - 1
          BY <2>4, <4>1, <4>5
        <5> QED
          BY <1>1, <4>1, <4>2, <5>1, <5>2
      <4>6. CASE i = pos
        <5>1. deadline'[list'[i]] = d
          BY <1>3, <2>6, <4>6
        <5> QED
          BY <1>3, <2>4, <4>1, <4>3, <4>4, <5>1
      <4>7. CASE i > pos
        <5>1. i - 1 \in 1..Len(list) /\ deadline'[list'[i]] = deadline[list[i - 1]]
          BY <1>3, <2>6, <4>7
        <5>2. i - 1 < j - 1
          BY <2>10
        <5> QED
          BY <1>1, <4>1, <4>2, <5>1, <5>2
      <4> QED
        BY <2>7, <4>5, <4>6, <4>7
    <3> QED
      BY <2>7, <3>1, <3>2, <3>3
  <2> QED
    BY <2>5, <2>8, <2>9, <2>10 DEF Fly!SortedInv
<1> QED
  BY <1>4, <1>5

\* Taking a transfer out of the list keeps the order of the others.
LEMMA FlyRemoved ==
  ASSUME Fly!IndInv, NEW k \in 1..Len(list), list' = Fly!RemoveAt(list, k),
         UNCHANGED <<deadline, alive>>
  PROVE  /\ list' \in Seq(Xfers) /\ Fly!InFlight' \subseteq alive'
         /\ \A i, j \in 1..Len(list') : i # j => list'[i] # list'[j]
         /\ Fly!SortedInv'
<1>1. /\ list \in Seq(Xfers) /\ Fly!InFlight \subseteq alive
      /\ \A i, j \in 1..Len(list) : i # j => list[i] # list[j]
      /\ \A i, j \in 1..Len(list) : i < j /\ deadline[list[j]] # 0 =>
           deadline[list[i]] # 0 /\ deadline[list[i]] <= deadline[list[j]]
  BY DEF Fly!IndInv, Fly!TypeOK, Fly!SortedInv
<1>2. LET t == Fly!RemoveAt(list, k) IN
        /\ t \in Seq(Xfers) /\ Len(t) = Len(list) - 1
        /\ \A i \in 1..Len(list) - 1 : t[i] = IF i < k THEN list[i] ELSE list[i + 1]
  BY <1>1, Removed
<1>3. /\ list' \in Seq(Xfers) /\ Len(list') = Len(list) - 1
      /\ \A i \in 1..Len(list') : list'[i] = IF i < k THEN list[i] ELSE list[i + 1]
  BY <1>2
<1> DEFINE old(i) == IF i < k THEN i ELSE i + 1
<1>4. /\ \A i \in 1..Len(list') : old(i) \in 1..Len(list) /\ list'[i] = list[old(i)]
      /\ \A i, j \in 1..Len(list') : i < j => old(i) < old(j)
      /\ \A i, j \in 1..Len(list') : i # j => old(i) # old(j)
  BY <1>1, <1>3
<1> HIDE DEF old
<1>5. Fly!InFlight' \subseteq alive'
  <2>1. \A i \in 1..Len(list) : list[i] \in alive
    BY <1>1 DEF Fly!InFlight, Fly!ToSet
  <2>2. \A i \in 1..Len(list') : list'[i] \in alive'
    BY <1>4, <2>1
  <2> QED
    BY <1>3, <2>2 DEF Fly!InFlight, Fly!ToSet
<1>6. \A i, j \in 1..Len(list') : i # j => list'[i] # list'[j]
  BY <1>1, <1>4
<1>7. Fly!SortedInv'
  BY <1>1, <1>4 DEF Fly!SortedInv
<1> QED
  BY <1>3, <1>5, <1>6, <1>7

LEMMA FlyStep ==
  ASSUME Fly!IndInv, Fly!Next
  PROVE  Fly!IndInv'
<1>1. ASSUME NEW x \in Xfers, Fly!AllocTransfer(x) PROVE Fly!IndInv'
  BY <1>1, FlyKept DEF Fly!AllocTransfer, Fly!IndInv, Fly!TypeOK
<1>2. ASSUME NEW x \in Xfers, Fly!FreeTransfer(x) PROVE Fly!IndInv'
  <2>1. /\ list \in Seq(Xfers) /\ \A i \in 1..Len(list) : list[i] \in Fly!InFlight
        /\ x \notin Fly!InFlight /\ UNCHANGED list /\ alive' = alive \ {x}
        /\ deadline \in [Xfers -> Nat] /\ deadline' = [deadline EXCEPT ![x] = 0]
    BY <1>2 DEF Fly!FreeTransfer, Fly!IndInv, Fly!TypeOK, Fly!TimesInv, Fly!InFlight, Fly!ToSet
  <2>2. deadline' \in [Xfers -> Nat] /\ \A i \in 1..Len(list) : deadline'[list[i]] = deadline[list[i]]
    BY <2>1
  <2>3. Fly!InFlight' = Fly!InFlight
    BY <2>1 DEF Fly!InFlight, Fly!ToSet
  <2>4. Fly!TypeOK'
    BY <1>2, <2>1, <2>3 DEF Fly!FreeTransfer, Fly!IndInv, Fly!TypeOK
  <2>5. Fly!SortedInv'
    BY <2>1, <2>2 DEF Fly!IndInv, Fly!SortedInv
  <2> QED
    BY <2>2, <2>4, <2>5 DEF Fly!IndInv, Fly!TimesInv
<1>3. ASSUME NEW x \in Xfers, Fly!CompleteTransfer(x) PROVE Fly!IndInv'
  <2>1. PICK k \in 1..Len(list) : list' = Fly!RemoveAt(list, k)
    BY <1>3 DEF Fly!CompleteTransfer
  <2>2. UNCHANGED <<deadline, overdue, alive, now, at>>
    BY <1>3 DEF Fly!CompleteTransfer
  <2>3. /\ list' \in Seq(Xfers) /\ Fly!InFlight' \subseteq alive' /\ Fly!SortedInv'
        /\ \A i, j \in 1..Len(list') : i # j => list'[i] # list'[j]
    BY <2>1, <2>2, FlyRemoved
  <2> QED
    BY <2>2, <2>3 DEF Fly!IndInv, Fly!TypeOK, Fly!TimesInv
<1>4. ASSUME NEW x \in Xfers, NEW t \in Timeouts, NEW ok \in BOOLEAN, Fly!SubmitTransfer(x, t, ok)
      PROVE  Fly!IndInv'
  <2> DEFINE d == Fly!CalculateTimeout(x, t)
  <2>1. /\ x \in alive /\ x \notin Fly!InFlight /\ deadline' = [deadline EXCEPT ![x] = d]
        /\ overdue' = [overdue EXCEPT ![x] = FALSE] /\ UNCHANGED <<alive, now, at>>
        /\ list' = IF ok THEN Fly!AddToFlyingList(x, d) ELSE list
    BY <1>4 DEF Fly!SubmitTransfer
  <2>2. /\ deadline \in [Xfers -> Nat] /\ overdue \in [Xfers -> BOOLEAN] /\ now \in 1..MaxTime
        /\ list \in Seq(Xfers)
    BY DEF Fly!IndInv, Fly!TimesInv, Fly!TypeOK
  <2>3. d \in Nat
    BY <2>2, TimesAssumption DEF Fly!CalculateTimeout
  <2> HIDE DEF d
  <2>4. deadline' \in [Xfers -> Nat] /\ overdue' \in [Xfers -> BOOLEAN]
    BY <2>1, <2>2, <2>3
  <2>5. /\ list' \in Seq(Xfers) /\ Fly!InFlight' \subseteq alive' /\ Fly!SortedInv'
        /\ \A i, j \in 1..Len(list') : i # j => list'[i] # list'[j]
    <3>1. CASE ok
      BY <2>1, <2>3, <3>1, FlyAdded
    <3>2. CASE ~ok
      <4>1. list' = list /\ \A i \in 1..Len(list) : list[i] \in Xfers /\ list[i] # x
        BY <2>1, <2>2, <3>2 DEF Fly!InFlight, Fly!ToSet
      <4>2. \A i \in 1..Len(list) : deadline'[list[i]] = deadline[list[i]]
        BY <2>1, <2>2, <4>1
      <4>3. Fly!SortedInv'
        BY <4>1, <4>2 DEF Fly!IndInv, Fly!SortedInv
      <4> QED
        BY <2>1, <4>1, <4>3 DEF Fly!IndInv, Fly!TypeOK, Fly!InFlight
    <3> QED
      BY <3>1, <3>2
  <2> QED
    BY <2>1, <2>4, <2>5 DEF Fly!IndInv, Fly!TypeOK, Fly!TimesInv
<1>5. ASSUME NEW h \in Handlers, Fly!Handler(h) PROVE Fly!IndInv'
  <2>1. UNCHANGED <<list, deadline, alive, now>>
    BY <1>5 DEF Fly!Handler, Fly!HandleTimeouts, Fly!GetNextTimeout, Fly!WakeUp, Fly!EventComes,
                Fly!ReadTimeout, Fly!xferVars
  <2>2. overdue \in [Xfers -> BOOLEAN] /\ at \in [Handlers -> {"idle", "read", "expired", "asleep"}]
    BY DEF Fly!IndInv, Fly!TypeOK
  <2>3. overdue' \in [Xfers -> BOOLEAN]
    <3>1. CASE Fly!HandleTimeouts(h)
      BY <3>1 DEF Fly!HandleTimeouts
    <3>2. CASE ~Fly!HandleTimeouts(h)
      <4>1. UNCHANGED overdue
        BY <1>5, <3>2 DEF Fly!Handler, Fly!GetNextTimeout, Fly!WakeUp, Fly!EventComes,
                    Fly!ReadTimeout, Fly!xferVars
      <4> QED
        BY <2>2, <4>1
    <3> QED
      BY <3>1, <3>2
  <2>4. \E a \in {"idle", "read", "expired", "asleep"} : at' = [at EXCEPT ![h] = a]
    BY <1>5 DEF Fly!Handler, Fly!HandleTimeouts, Fly!GetNextTimeout, Fly!WakeUp, Fly!EventComes,
                Fly!ReadTimeout
  <2>5. at' \in [Handlers -> {"idle", "read", "expired", "asleep"}]
    BY <2>2, <2>4
  <2>6. now' \in 1..MaxTime /\ alive' \subseteq Xfers
    BY <2>1 DEF Fly!IndInv, Fly!TypeOK
  <2> QED
    BY <2>1, <2>3, <2>5, <2>6, FlyKept
<1>6. CASE Fly!Tick
  <2>1. now' \in 1..MaxTime
    BY <1>6, TimesAssumption DEF Fly!Tick, Fly!IndInv, Fly!TypeOK
  <2> QED
    BY <1>6, <2>1, FlyKept DEF Fly!Tick, Fly!xferVars, Fly!IndInv, Fly!TypeOK
<1> QED
  BY <1>1, <1>2, <1>3, <1>4, <1>5, <1>6 DEF Fly!Next

\* Before a transfer that is due the walk meets none to stop at.
LEMMA WalkReaches ==
  ASSUME Fly!IndInv, NEW h \in Handlers, Fly!HandleTimeouts(h),
         NEW x \in Fly!InFlight, deadline[x] # 0, deadline[x] <= now
  PROVE  overdue'[x]
<1>1. /\ list \in Seq(Xfers) /\ deadline \in [Xfers -> Nat] /\ now \in Nat
      /\ \A i, j \in 1..Len(list) : i < j /\ deadline[list[j]] # 0 =>
           deadline[list[i]] # 0 /\ deadline[list[i]] <= deadline[list[j]]
  BY DEF Fly!IndInv, Fly!TypeOK, Fly!TimesInv, Fly!SortedInv
<1>2. PICK k \in 1..Len(list) : list[k] = x
  BY <1>1 DEF Fly!InFlight, Fly!ToSet
<1>3. ASSUME NEW j \in 1..k PROVE ~Fly!Stops(j)
  <2>1. j \in 1..Len(list) /\ (j < k \/ j = k)
    BY <1>1, <1>2
  <2>2. deadline[list[j]] # 0 /\ deadline[list[j]] <= deadline[x]
    <3>1. CASE j = k
      BY <1>1, <1>2, <3>1
    <3>2. CASE j < k
      BY <1>1, <1>2, <2>1, <3>2
    <3> QED
      BY <2>1, <3>1, <3>2
  <2>3. deadline[list[j]] \in Nat /\ deadline[x] \in Nat
    BY <1>1, <1>2, <2>1
  <2>4. ~(deadline[list[j]] > now)
    BY <1>1, <2>2, <2>3
  <2> QED
    BY <2>2, <2>4 DEF Fly!Stops
<1>4. k \in Fly!Walked
  BY <1>2, <1>3 DEF Fly!Walked
<1>5. x \in Xfers
  BY <1>1, <1>2
<1> QED
  BY <1>2, <1>4, <1>5 DEF Fly!HandleTimeouts

\* A thread that goes through the timeouts marks every transfer that is due: the
\* walk of handle_timeouts_locked may stop at the first that is not, because
\* add_to_flying_list and the removal of transfers keep the list in order.
THEOREM TimeoutsSafe == Spec => NoTimeoutMissed
<1> DEFINE I == part = "fly" => Fly!IndInv
           Marked == \A h \in Handlers : Fly!HandleTimeouts(h) =>
             \A x \in Fly!InFlight : deadline[x] # 0 /\ deadline[x] <= now => overdue'[x]
<1>1. Init => I
  BY FlyInit DEF Init
<1>2. I /\ [Next]_all => I'
  <2> SUFFICES ASSUME I, [Next]_all, part' = "fly" PROVE Fly!IndInv'
    OBVIOUS
  <2>1. part = "fly"
    BY PartSteps
  <2>2. CASE Fly!Next
    BY <2>1, <2>2, FlyStep
  <2>3. CASE UNCHANGED flyVars
    BY <2>1, <2>3 DEF flyVars, Fly!IndInv, Fly!TypeOK, Fly!TimesInv, Fly!SortedInv, Fly!InFlight
  <2> QED
    BY <2>1, <2>2, <2>3, PartSteps
<1>3. I /\ [Next]_all => [Marked]_(Fly!flyVars)
  <2> SUFFICES ASSUME I, [Next]_all, ~UNCHANGED flyVars PROVE Marked
    BY DEF Fly!flyVars, flyVars
  <2>1. part = "fly"
    BY PartSteps
  <2> QED
    BY <2>1, WalkReaches
<1> QED
  BY <1>1, <1>2, <1>3, PTL DEF Spec, Steps, NoTimeoutMissed, Fly!NoTimeoutMissed

-----------------------------------------------------------------------------
(* URBs.                                                                   *)

\* The k-th member of a set of numbers is there: the least number that has k
\* members up to it.
LEMMA Ordered ==
  ASSUME NEW M \in Nat, NEW S, S \subseteq 1..M
  PROVE  /\ IsFiniteSet(S) /\ Cardinality(S) \in Nat
         /\ \A k \in 1..Cardinality(S) : \E i \in S : Cardinality({j \in S : j <= i}) = k
<1> DEFINE below(i) == {j \in S : j <= i}
<1>0. \A j \in S : j \in Nat /\ 1 <= j /\ j <= M
  OBVIOUS
<1>1. IsFiniteSet(S)
  <2>1. IsFiniteSet(1..M)
    BY FS_Interval
  <2> QED
    BY <2>1, FS_Subset
<1>2. \A i \in Nat : IsFiniteSet(below(i)) /\ Cardinality(below(i)) \in Nat
  BY <1>1, FS_Subset, FS_CardinalityType
<1>3. Cardinality(S) \in Nat /\ below(M) = S
  <2>1. below(M) = S
    BY <1>0
  <2> QED
    BY <1>1, <2>1, FS_CardinalityType
<1>4. Cardinality(below(0)) = 0
  <2>1. below(0) = {}
    <3>1. \A j \in S : ~(j <= 0)
      BY <1>0
    <3> QED
      BY <3>1
  <2> QED
    BY <2>1, FS_EmptySet
<1>5. \A i \in Nat : i + 1 \in S => Cardinality(below(i + 1)) = Cardinality(below(i)) + 1
  <2> SUFFICES ASSUME NEW i \in Nat, i + 1 \in S
               PROVE  Cardinality(below(i + 1)) = Cardinality(below(i)) + 1
    OBVIOUS
  <2>1. \A j \in Nat : j <= i + 1 <=> j <= i \/ j = i + 1
    OBVIOUS
  <2>2. below(i + 1) = below(i) \union {i + 1} /\ i + 1 \notin below(i)
    <3>1. \A j \in S : j <= i + 1 <=> j <= i \/ j = i + 1
      BY <1>0, <2>1
    <3>2. ~(i + 1 <= i) /\ i + 1 <= i + 1
      OBVIOUS
    <3> QED
      BY <3>1, <3>2, Zenon
  <2> HIDE DEF below
  <2> QED
    BY <1>2, <2>2, FS_AddElement
<1>6. \A i \in Nat : i + 1 \notin S => below(i + 1) = below(i)
  <2> SUFFICES ASSUME NEW i \in Nat, i + 1 \notin S PROVE below(i + 1) = below(i)
    OBVIOUS
  <2>1. \A j \in Nat : j <= i + 1 <=> j <= i \/ j = i + 1
    OBVIOUS
  <2> QED
    BY <1>0, <2>1
<1>7. ASSUME NEW k \in 1..Cardinality(S)
      PROVE  \E i \in S : Cardinality(below(i)) = k
  <2> DEFINE T == {i \in Nat : Cardinality(below(i)) >= k}
  <2>1. T \subseteq Nat /\ M \in T
    BY <1>3
  <2>2. PICK i \in T : \A j \in T : i <= j
    <3> HIDE DEF T
    <3> QED
      BY <2>1, Least
  <2> HIDE DEF below
  <2>3. i \in Nat /\ i # 0
    BY <1>4, <2>2
  <2>4. i - 1 \in Nat /\ i - 1 \notin T /\ i = (i - 1) + 1
    BY <2>2, <2>3
  <2>5. Cardinality(below(i - 1)) < k /\ Cardinality(below(i)) >= k
    BY <1>2, <2>2, <2>4
  <2>6. i \in S
    BY <1>6, <2>4, <2>5
  <2>7. Cardinality(below(i)) = Cardinality(below(i - 1)) + 1
    BY <1>5, <2>4, <2>6
  <2>8. Cardinality(below(i)) = k
    BY <1>2, <2>3, <2>4, <2>5, <2>7
  <2> QED
    BY <2>6, <2>8
<1> QED
  BY <1>1, <1>3, <1>7

\* The module takes the sizes of sets from FiniteSets.
LEMMA UrbSizes == \A S : Urb!Cardinality(S) = Cardinality(S)
  BY DEF Urb!Cardinality, Cardinality, Urb!IsFiniteSet, IsFiniteSet

LEMMA InOrderType ==
  ASSUME NEW S, S \subseteq Urb!Urbs
  PROVE  /\ Urb!InOrder(S) \in Seq(Urb!Urbs) /\ Len(Urb!InOrder(S)) = Cardinality(S)
         /\ \A k \in 1..Cardinality(S) :
              /\ Urb!InOrder(S)[k] \in S
              /\ Cardinality({j \in S : j <= Urb!InOrder(S)[k]}) = k
<1>1. /\ Cardinality(S) \in Nat
      /\ \A k \in 1..Cardinality(S) : \E i \in S : Cardinality({j \in S : j <= i}) = k
  <2>1. MaxUrbs \in Nat /\ S \subseteq 1..MaxUrbs
    BY KindsAssumption DEF Urb!Urbs
  <2> QED
    BY <2>1, Ordered
<1> DEFINE c == Cardinality(S)
           f == [k \in 1..c |-> CHOOSE i \in S : Cardinality({j \in S : j <= i}) = k]
<1>2. Urb!InOrder(S) = f
  BY DEF Urb!InOrder, Urb!Cardinality, Cardinality, Urb!IsFiniteSet, IsFiniteSet
<1>3. \A k \in 1..c : f[k] \in S /\ Cardinality({j \in S : j <= f[k]}) = k
  BY <1>1
<1> HIDE DEF c
<1>4. f \in [1..c -> Urb!Urbs] /\ c \in Nat
  BY <1>1, <1>3 DEF c
<1> HIDE DEF f
<1> QED
  BY <1>2, <1>3, <1>4 DEF c

\* Completed URBs are put at the end of the queue, in order.
LEMMA CompleteType ==
  ASSUME Urb!FlagTypes, NEW i \in Urb!Urbs, NEW s \in Urb!UrbStatus, NEW len \in 0..UrbLen,
         NEW rest, rest \subseteq Urb!Urbs, Urb!Complete(i, s, len, rest)
  PROVE  /\ urb' \in [Urb!Urbs -> [st : {"none", "queued", "done", "reaped"},
                                   status : Urb!UrbStatus, len : 0..UrbLen]]
         /\ ready' \in Seq(Urb!Urbs)
<1>1. urb' \in [Urb!Urbs -> [st : {"none", "queued", "done", "reaped"},
                             status : Urb!UrbStatus, len : 0..UrbLen]]
  <2>1. "cancelled" \in Urb!UrbStatus /\ 0 \in 0..UrbLen
    BY KindsAssumption DEF Urb!UrbStatus
  <2> QED
    BY <2>1 DEF Urb!Complete, Urb!FlagTypes
<1>2. ready \in Seq(Urb!Urbs) /\ ready' = Append(ready, i) \o Urb!InOrder(rest)
  BY DEF Urb!Complete, Urb!FlagTypes
<1>3. Append(ready, i) \in Seq(Urb!Urbs) /\ Urb!InOrder(rest) \in Seq(Urb!Urbs)
  BY <1>2, InOrderType, AppendProperties
<1>4. ready' \in Seq(Urb!Urbs)
  BY <1>2, <1>3, ConcatProperties
<1> QED
  BY <1>1, <1>4

LEMMA QueuedUrbs == Urb!Queued \subseteq Urb!Urbs
  BY DEF Urb!Queued

LEMMA RefInit == Urb!Init => Urb!RefInv
<1> SUFFICES ASSUME Urb!Init PROVE Urb!RefInv
  OBVIOUS
<1>1. ~Urb!Discarding
  BY DEF Urb!Init, Urb!Discarding, Urb!NoDisc
<1>2. /\ Urb!NoUrb \in [st : {"none", "queued", "done", "reaped"}, status : Urb!UrbStatus, len : 0..UrbLen]
      /\ 1 \in Urb!Urbs /\ Urb!NoDisc \in Nat \X Nat
  BY KindsAssumption DEF Urb!NoUrb, Urb!UrbStatus, Urb!Urbs, Urb!NoDisc
<1>3. Urb!FlagTypes
  <2>1. /\ kind = "none" /\ n = 1 /\ sub = 0 /\ submits = 0 /\ ready = <<>> /\ disc = Urb!NoDisc
        /\ mem = FALSE /\ flying = FALSE /\ timedOut = FALSE /\ asked = FALSE /\ ev = "idle"
    BY DEF Urb!Init
  <2>2. urb \in [Urb!Urbs -> [st : {"none", "queued", "done", "reaped"},
                              status : Urb!UrbStatus, len : 0..UrbLen]]
    BY <1>2 DEF Urb!Init
  <2>3. ready \in Seq(Urb!Urbs) /\ sub \in 0..n
    BY <2>1
  <2> QED
    BY <1>2, <2>1, <2>2, <2>3 DEF Urb!FlagTypes
<1> QED
  BY <1>1, <1>3 DEF Urb!Init, Urb!RefInv, Urb!LockInv, Urb!ReportInv, Urb!ControlInv, Urb!Status

LEMMA RefKernelCompletes ==
  ASSUME Urb!RefInv, NEW i \in Urb!Urbs, NEW s \in Urb!UrbStatus, NEW len \in 0..UrbLen,
         Urb!KernelCompletes(i, s, len)
  PROVE  Urb!RefInv'
<1>1. /\ UNCHANGED <<kind, n, mem, reapAction, reapStatus, lock, sub, disc, ev, flying, timedOut, asked, submits>>
      /\ Urb!Complete(i, s, len, Urb!Rest(i, s))
      /\ s \in {"ok", "short"} \union Faults
  BY DEF Urb!KernelCompletes, Urb!tprivVars, Urb!flagVars
<1>2. Urb!Rest(i, s) \subseteq Urb!Urbs
  BY QueuedUrbs DEF Urb!Rest
<1>3. Urb!FlagTypes'
  <2>1. Urb!FlagTypes
    BY DEF Urb!RefInv
  <2>2. /\ urb' \in [Urb!Urbs -> [st : {"none", "queued", "done", "reaped"},
                                  status : Urb!UrbStatus, len : 0..UrbLen]]
        /\ ready' \in Seq(Urb!Urbs)
    BY <1>1, <1>2, <2>1, CompleteType
  <2> QED
    BY <1>1, <2>1, <2>2 DEF Urb!FlagTypes
<1>4. Urb!Discarding' <=> Urb!Discarding
  BY <1>1 DEF Urb!Discarding
<1>5. Urb!LockInv' /\ Urb!ReportInv'
  BY <1>1, <1>4 DEF Urb!RefInv, Urb!LockInv, Urb!ReportInv
<1>6. Urb!ControlInv'
  <2> SUFFICES ASSUME kind = "control"
               PROVE  n = 1 /\ (Urb!Discarding \/ (\E j \in Urb!Urbs : urb'[j].status = "cancelled")
                                  => reapAction = "CANCELLED")
    BY <1>1, <1>4 DEF Urb!ControlInv
  <2>1. n = 1 /\ (Urb!Discarding \/ (\E j \in Urb!Urbs : urb[j].status = "cancelled")
                    => reapAction = "CANCELLED")
    BY DEF Urb!RefInv, Urb!ControlInv
  <2>2. s # "cancelled"
    BY <1>1, KindsAssumption
  <2>3. \A j \in Urb!Urbs : urb'[j].status = "cancelled" => urb[j].status = "cancelled"
    <3>1. Urb!Rest(i, s) = {}
      BY DEF Urb!Rest
    <3>2. urb' = [j \in Urb!Urbs |->
       IF j = i THEN [st |-> "done", status |-> s, len |-> len]
       ELSE IF j \in Urb!Rest(i, s) THEN [st |-> "done", status |-> "cancelled", len |-> 0]
       ELSE urb[j]]
      BY <1>1 DEF Urb!Complete
    <3>3. \A j \in Urb!Urbs : urb'[j] = IF j = i THEN [st |-> "done", status |-> s, len |-> len] ELSE urb[j]
      BY <3>1, <3>2
    <3> QED
      BY <2>2, <3>3
  <2> QED
    BY <2>1, <2>3
<1> QED
  BY <1>3, <1>5, <1>6 DEF Urb!RefInv

LEMMA RefUnplug ==
  ASSUME Urb!RefInv, Urb!Unplug
  PROVE  Urb!RefInv'
<1>1. /\ UNCHANGED <<kind, n, mem, reapAction, reapStatus, lock, sub, disc, ev, flying, timedOut, asked, submits>>
      /\ urb' = [j \in Urb!Urbs |-> IF j \in Urb!Queued
                   THEN [st |-> "done", status |-> "gone", len |-> 0] ELSE urb[j]]
      /\ ready' = ready \o Urb!InOrder(Urb!Queued)
  BY DEF Urb!Unplug, Urb!tprivVars, Urb!flagVars
<1>2. Urb!FlagTypes'
  <2>1. Urb!FlagTypes
    BY DEF Urb!RefInv
  <2>2. "gone" \in Urb!UrbStatus /\ 0 \in 0..UrbLen
    BY KindsAssumption DEF Urb!UrbStatus
  <2>3. urb' \in [Urb!Urbs -> [st : {"none", "queued", "done", "reaped"},
                               status : Urb!UrbStatus, len : 0..UrbLen]]
    BY <1>1, <2>1, <2>2 DEF Urb!FlagTypes
  <2>4. ready \in Seq(Urb!Urbs) /\ Urb!InOrder(Urb!Queued) \in Seq(Urb!Urbs)
    BY <2>1, InOrderType, QueuedUrbs DEF Urb!FlagTypes
  <2>5. ready' \in Seq(Urb!Urbs)
    BY <1>1, <2>4, ConcatProperties
  <2> QED
    BY <1>1, <2>1, <2>3, <2>5 DEF Urb!FlagTypes
<1>3. Urb!Discarding' <=> Urb!Discarding
  BY <1>1 DEF Urb!Discarding
<1>4. Urb!LockInv' /\ Urb!ReportInv'
  BY <1>1, <1>3 DEF Urb!RefInv, Urb!LockInv, Urb!ReportInv
<1>5. \A j \in Urb!Urbs : urb'[j].status = "cancelled" => urb[j].status = "cancelled"
  BY <1>1
<1>6. Urb!ControlInv'
  BY <1>1, <1>3, <1>5 DEF Urb!RefInv, Urb!ControlInv
<1> QED
  BY <1>2, <1>4, <1>6 DEF Urb!RefInv

LEMMA RefSubmitTransfer ==
  ASSUME Urb!RefInv, Urb!SubmitTransfer
  PROVE  Urb!RefInv'
<1>1. /\ kind' \in Kinds /\ n' \in IF kind' \in {"control", "interrupt"} THEN {1} ELSE Urb!Urbs
      /\ submits' = submits + 1 /\ ~timedOut' /\ ~asked' /\ flying' /\ mem'
      /\ timedOut' \in BOOLEAN /\ asked' \in BOOLEAN /\ flying' \in BOOLEAN /\ mem' \in BOOLEAN
      /\ reapAction' = "NORMAL" /\ reapStatus' = "COMPLETED"
      /\ urb' = [i \in Urb!Urbs |-> Urb!NoUrb] /\ lock' = "submit" /\ sub' = 1
      /\ UNCHANGED <<ready, disc, ev>> /\ lock = "free" /\ ev = "idle"
  BY DEF Urb!SubmitTransfer
<1>2. 1 \in Urb!Urbs /\ Urb!Urbs \subseteq Nat
  BY KindsAssumption DEF Urb!Urbs
<1>3. Urb!NoUrb \in [st : {"none", "queued", "done", "reaped"}, status : Urb!UrbStatus, len : 0..UrbLen]
  BY KindsAssumption DEF Urb!NoUrb, Urb!UrbStatus
<1>4. n' \in Urb!Urbs /\ 1 \in 0..n'
  <2>1. n' \in Urb!Urbs
    BY <1>1, <1>2
  <2> QED
    BY <2>1, KindsAssumption DEF Urb!Urbs
<1>5. Urb!FlagTypes'
  <2>1. /\ submits \in Nat /\ ready \in Seq(Urb!Urbs) /\ disc \in Nat \X Nat
    BY DEF Urb!RefInv, Urb!FlagTypes
  <2>2. urb' \in [Urb!Urbs -> [st : {"none", "queued", "done", "reaped"}, status : Urb!UrbStatus, len : 0..UrbLen]]
    BY <1>1, <1>3
  <2> QED
    BY <1>1, <1>4, <2>1, <2>2 DEF Urb!FlagTypes
<1>6. ~Urb!Discarding /\ ~Urb!Discarding'
  BY <1>1 DEF Urb!RefInv, Urb!LockInv, Urb!Discarding
<1>7. Urb!LockInv' /\ Urb!ReportInv'
  BY <1>1, <1>6 DEF Urb!LockInv, Urb!ReportInv, Urb!Status
<1>8. \A i \in Urb!Urbs : urb'[i].status = "ok"
  BY <1>1 DEF Urb!NoUrb
<1>9. Urb!ControlInv'
  BY <1>1, <1>6, <1>8 DEF Urb!ControlInv
<1> QED
  BY <1>5, <1>7, <1>9 DEF Urb!RefInv

LEMMA RefSubmitUrb ==
  ASSUME Urb!RefInv, Urb!SubmitUrb
  PROVE  Urb!RefInv'
<1>1. /\ sub > 0 /\ urb' = [urb EXCEPT ![sub] = [Urb!NoUrb EXCEPT !.st = "queued"]]
      /\ UNCHANGED <<kind, n, ready, mem, reapAction, reapStatus, disc, ev, flying, timedOut, asked, submits>>
      /\ \/ sub = n /\ sub' = 0 /\ lock' = "free"
         \/ sub # n /\ sub' = sub + 1 /\ lock' = lock
  BY DEF Urb!SubmitUrb, Urb!LastUrb, Urb!tprivVars, Urb!flagVars
<1>2. /\ sub \in 0..n /\ n \in Urb!Urbs
      /\ flying /\ mem /\ ev = "idle" /\ lock = "submit" /\ ~timedOut /\ ~asked /\ ~Urb!Discarding
  BY <1>1 DEF Urb!RefInv, Urb!FlagTypes, Urb!LockInv
<1>3. sub \in Urb!Urbs /\ sub' \in 0..n
  BY <1>1, <1>2, KindsAssumption DEF Urb!Urbs
<1> DEFINE R == [st : {"none", "queued", "done", "reaped"}, status : Urb!UrbStatus, len : 0..UrbLen]
           q == [Urb!NoUrb EXCEPT !.st = "queued"]
<1>4. q \in R /\ q.status = "ok"
  BY KindsAssumption DEF Urb!NoUrb, Urb!UrbStatus
<1>5. urb \in [Urb!Urbs -> R]
  BY DEF Urb!RefInv, Urb!FlagTypes
<1> HIDE DEF q, R
<1>6. urb' \in [Urb!Urbs -> R] /\ \A j \in Urb!Urbs : urb'[j].status = "cancelled" => urb[j].status = "cancelled"
  <2>1. urb' = [urb EXCEPT ![sub] = q]
    BY <1>1 DEF q
  <2>2. \A j \in Urb!Urbs : urb'[j] = IF j = sub THEN q ELSE urb[j]
    BY <1>5, <2>1
  <2>3. urb' \in [Urb!Urbs -> R]
    BY <1>4, <1>5, <2>1
  <2> QED
    BY <1>4, <2>2, <2>3
<1>7. Urb!FlagTypes'
  BY <1>1, <1>3, <1>6 DEF Urb!RefInv, Urb!FlagTypes, R
<1>8. ~Urb!Discarding'
  BY <1>1, <1>2 DEF Urb!Discarding
<1>9. Urb!LockInv' /\ Urb!ReportInv'
  BY <1>1, <1>2, <1>8 DEF Urb!RefInv, Urb!LockInv, Urb!ReportInv
<1>10. Urb!ControlInv'
  BY <1>1, <1>6, <1>8 DEF Urb!RefInv, Urb!ControlInv
<1> QED
  BY <1>7, <1>9, <1>10 DEF Urb!RefInv

LEMMA RefFirstUrbFails ==
  ASSUME Urb!RefInv, Urb!FirstUrbFails
  PROVE  Urb!RefInv'
<1>1. /\ sub = 1 /\ ~mem' /\ ~flying' /\ sub' = 0 /\ lock' = "free"
      /\ mem' \in BOOLEAN /\ flying' \in BOOLEAN
      /\ UNCHANGED <<kind, n, urb, ready, reapAction, reapStatus, disc, ev, timedOut, asked, submits>>
  BY DEF Urb!FirstUrbFails, Urb!kernelVars
<1>2. ev = "idle" /\ ~Urb!Discarding /\ n \in Nat
  BY <1>1, KindsAssumption DEF Urb!RefInv, Urb!LockInv, Urb!FlagTypes, Urb!Urbs
<1>3. Urb!FlagTypes'
  BY <1>1, <1>2 DEF Urb!RefInv, Urb!FlagTypes
<1>4. ~Urb!Discarding'
  BY <1>1, <1>2 DEF Urb!Discarding
<1>5. Urb!LockInv' /\ Urb!ReportInv' /\ Urb!ControlInv'
  BY <1>1, <1>2, <1>4 DEF Urb!RefInv, Urb!LockInv, Urb!ReportInv, Urb!ControlInv
<1> QED
  BY <1>3, <1>5 DEF Urb!RefInv

LEMMA RefLaterUrbFails ==
  ASSUME Urb!RefInv, Urb!LaterUrbFails
  PROVE  Urb!RefInv'
<1>1. /\ sub > 1 /\ sub' = 0
      /\ UNCHANGED <<kind, n, urb, ready, mem, reapStatus, ev, flying, timedOut, asked, submits>>
      /\ \/ reapAction' = "COMPLETED_EARLY" /\ lock' = "free" /\ disc' = disc
         \/ reapAction' = "SUBMIT_FAILED" /\ disc' = <<1, sub - 1>> /\ lock' = lock
  BY DEF Urb!LaterUrbFails, Urb!kernelVars, Urb!flagVars
<1>2. /\ n \in Nat /\ sub \in 0..n /\ disc \in Nat \X Nat /\ kind # "control"
      /\ mem /\ ev = "idle" /\ lock = "submit" /\ ~Urb!Discarding
  BY <1>1, KindsAssumption DEF Urb!RefInv, Urb!LockInv, Urb!FlagTypes, Urb!Urbs, Urb!ControlInv
<1>3. disc' \in Nat \X Nat
  <2>1. sub - 1 \in Nat
    BY <1>1, <1>2
  <2> QED
    BY <1>1, <1>2, <2>1
<1>4. Urb!FlagTypes'
  BY <1>1, <1>2, <1>3 DEF Urb!RefInv, Urb!FlagTypes
<1>5. Urb!LockInv'
  <2>1. CASE lock' = "free" /\ disc' = disc
    BY <1>1, <1>2, <2>1 DEF Urb!LockInv, Urb!Discarding
  <2>2. CASE lock' = lock
    BY <1>1, <1>2, <2>2 DEF Urb!LockInv
  <2> QED
    BY <1>1, <2>1, <2>2
<1>6. Urb!ReportInv' /\ Urb!ControlInv'
  BY <1>1, <1>2 DEF Urb!RefInv, Urb!ReportInv, Urb!ControlInv
<1> QED
  BY <1>4, <1>5, <1>6 DEF Urb!RefInv

LEMMA RefDiscardUrb ==
  ASSUME Urb!RefInv, NEW len \in 0..UrbLen, Urb!DiscardUrb(len)
  PROVE  Urb!RefInv'
<1> DEFINE i == disc[2]
<1>1. /\ Urb!Discarding
      /\ disc' = IF i > disc[1] THEN <<disc[1], i - 1>> ELSE Urb!NoDisc
      /\ lock' = IF i > disc[1] THEN lock ELSE "free"
      /\ UNCHANGED <<kind, n, mem, reapAction, reapStatus, sub, ev, flying, timedOut, asked, submits>>
  BY DEF Urb!DiscardUrb, Urb!tprivVars, Urb!flagVars
<1>2. sub = 0 /\ lock # "free" /\ disc[1] \in Nat /\ disc[2] \in Nat
  BY <1>1 DEF Urb!RefInv, Urb!LockInv, Urb!FlagTypes
<1>3. /\ urb' \in [Urb!Urbs -> [st : {"none", "queued", "done", "reaped"},
                                status : Urb!UrbStatus, len : 0..UrbLen]]
      /\ ready' \in Seq(Urb!Urbs)
  <2>1. Urb!FlagTypes
    BY DEF Urb!RefInv
  <2>2. CASE i \in Urb!Queued
    <3>1. Urb!Complete(i, "cancelled", len, {})
      BY <2>2 DEF Urb!DiscardUrb
    <3>2. i \in Urb!Urbs /\ "cancelled" \in Urb!UrbStatus
      BY <2>2 DEF Urb!Queued, Urb!UrbStatus
    <3> QED
      BY <2>1, <3>1, <3>2, CompleteType
  <2>3. CASE i \notin Urb!Queued
    <3>1. UNCHANGED <<urb, ready>>
      BY <2>3 DEF Urb!DiscardUrb
    <3> QED
      BY <2>1, <3>1 DEF Urb!FlagTypes
  <2> QED
    BY <2>2, <2>3
<1>4. disc' \in Nat \X Nat /\ (Urb!Discarding' => lock' = lock)
  <2>1. CASE i > disc[1]
    <3>1. i - 1 \in Nat
      BY <1>2, <2>1
    <3> QED
      BY <1>1, <1>2, <2>1, <3>1
  <2>2. CASE ~(i > disc[1])
    BY <1>1, <2>2 DEF Urb!NoDisc, Urb!Discarding
  <2> QED
    BY <2>1, <2>2
<1> HIDE DEF i
<1>5. Urb!FlagTypes'
  BY <1>1, <1>3, <1>4 DEF Urb!RefInv, Urb!FlagTypes
<1>6. Urb!LockInv' /\ Urb!ReportInv'
  BY <1>1, <1>2, <1>4 DEF Urb!RefInv, Urb!LockInv, Urb!ReportInv
<1>7. Urb!ControlInv'
  BY <1>1 DEF Urb!RefInv, Urb!ControlInv
<1> QED
  BY <1>5, <1>6, <1>7 DEF Urb!RefInv

LEMMA RefCancelTransfer ==
  ASSUME Urb!RefInv, NEW timeout \in BOOLEAN, Urb!CancelTransfer(timeout)
  PROVE  Urb!RefInv'
<1>1. /\ lock = "free" /\ asked' = TRUE /\ timedOut' = (timedOut \/ timeout)
      /\ reapAction' = Urb!ActionOnCancel
      /\ UNCHANGED <<kind, n, urb, ready, mem, reapStatus, sub, ev, flying, submits>>
      /\ \/ mem /\ disc' = <<1, n>> /\ lock' = "cancel"
         \/ ~mem /\ disc' = disc /\ lock' = lock
  BY DEF Urb!CancelTransfer, Urb!kernelVars
<1>2. sub = 0 /\ ~Urb!Discarding /\ n \in Nat /\ disc \in Nat \X Nat /\ timedOut \in BOOLEAN
  BY <1>1, KindsAssumption DEF Urb!RefInv, Urb!LockInv, Urb!FlagTypes, Urb!Urbs
<1>3. disc' \in Nat \X Nat /\ timedOut' \in BOOLEAN
  BY <1>1, <1>2
<1>4. Urb!FlagTypes'
  BY <1>1, <1>3 DEF Urb!RefInv, Urb!FlagTypes
<1>5. Urb!LockInv'
  <2>1. CASE lock' = "cancel"
    BY <1>1, <1>2, <2>1 DEF Urb!LockInv
  <2>2. CASE disc' = disc
    BY <1>1, <1>2, <2>2 DEF Urb!LockInv, Urb!Discarding
  <2> QED
    BY <1>1, <2>1, <2>2
<1>6. Urb!ReportInv'
  BY <1>1 DEF Urb!RefInv, Urb!ReportInv
<1>7. Urb!ControlInv'
  BY <1>1 DEF Urb!RefInv, Urb!ControlInv, Urb!ActionOnCancel
<1> QED
  BY <1>4, <1>5, <1>6, <1>7 DEF Urb!RefInv

LEMMA RefReportTransfer ==
  ASSUME Urb!RefInv, Urb!ReportTransfer
  PROVE  Urb!RefInv'
<1>1. /\ ev # "idle" /\ lock # "submit" /\ flying' = FALSE /\ ev' = "idle"
      /\ UNCHANGED <<kind, n, urb, ready, mem, reapAction, reapStatus, lock, sub, disc, timedOut, asked, submits>>
  BY DEF Urb!ReportTransfer, Urb!kernelVars, Urb!tprivVars
<1>2. ~mem /\ ~(sub > 0)
  BY <1>1 DEF Urb!RefInv, Urb!LockInv, Urb!ReportInv
<1>3. Urb!FlagTypes'
  BY <1>1 DEF Urb!RefInv, Urb!FlagTypes
<1>4. Urb!Discarding' <=> Urb!Discarding
  BY <1>1 DEF Urb!Discarding
<1>5. Urb!LockInv' /\ Urb!ReportInv' /\ Urb!ControlInv'
  BY <1>1, <1>2, <1>4 DEF Urb!RefInv, Urb!LockInv, Urb!ReportInv, Urb!ControlInv
<1> QED
  BY <1>3, <1>5 DEF Urb!RefInv

LEMMA RefHandleDisconnect ==
  ASSUME Urb!RefInv, Urb!HandleDisconnect
  PROVE  Urb!RefInv'
<1>1. /\ ev = "idle" /\ lock = "free" /\ flying' = FALSE /\ mem' = FALSE /\ ready' = <<>>
      /\ UNCHANGED <<kind, n, urb, reapAction, reapStatus, lock, sub, disc, ev, timedOut, asked, submits>>
  BY DEF Urb!HandleDisconnect, Urb!NoneFlying
<1>2. ~(sub > 0)
  BY <1>1 DEF Urb!RefInv, Urb!LockInv
<1>3. Urb!FlagTypes'
  <2>1. ready' \in Seq(Urb!Urbs)
    BY <1>1
  <2> QED
    BY <1>1, <2>1 DEF Urb!RefInv, Urb!FlagTypes
<1>4. Urb!Discarding' <=> Urb!Discarding
  BY <1>1 DEF Urb!Discarding
<1>5. Urb!LockInv' /\ Urb!ReportInv' /\ Urb!ControlInv'
  BY <1>1, <1>2, <1>4 DEF Urb!RefInv, Urb!LockInv, Urb!ReportInv, Urb!ControlInv
<1> QED
  BY <1>3, <1>5 DEF Urb!RefInv

\* A URB that is reaped ends the transfer, with the status it is reported with
\* then, or leaves URBs to wait for or to discard.
LEMMA Reaped ==
  ASSUME Urb!RefInv, Urb!ReapForHandle
  PROVE  /\ reapStatus' \in Urb!Status \ {"TIMED_OUT"}
         /\ \/ mem' = mem /\ ev' = "idle" /\ disc' = disc /\ lock' = "free"
            \/ mem' = mem /\ ev' = "idle" /\ lock' = "reap" /\ kind # "control"
               /\ \E i \in Urb!Urbs : i < n /\ disc' = <<i + 1, n>>
            \/ mem' = FALSE /\ disc' = disc /\ lock' = "free"
               /\ ev' \in {"report", "cancelled", "completed"}
         /\ reapAction' = "CANCELLED" => reapAction = "CANCELLED"
         /\ kind = "control" => reapAction' = reapAction
         /\ ev' = "cancelled" => reapAction = "CANCELLED"
         /\ ev' = "report" => kind # "control"
         /\ reapStatus' = "CANCELLED" => kind = "control" /\ ev' # "completed"
<1> DEFINE i == Head(ready)
<1>1. /\ ev = "idle" /\ lock = "free" /\ ready # <<>> /\ mem /\ Urb!HandleCompletion(i)
  BY DEF Urb!ReapForHandle
<1>2. /\ kind \in {"bulk", "bulkcont", "interrupt", "iso", "control"} /\ ready \in Seq(Urb!Urbs)
      /\ reapStatus \in Urb!Status \ {"TIMED_OUT"}
      /\ reapStatus = "CANCELLED" => kind = "control"
  BY <1>1, KindsAssumption DEF Urb!RefInv, Urb!ReportInv, Urb!FlagTypes
<1>3. i \in Urb!Urbs
  BY <1>1, <1>2, HeadTailProperties
<1> HIDE DEF i
<1>4. CASE kind \in {"bulk", "bulkcont", "interrupt"}
  <2>1. Urb!BulkAbnormal(i) \/ Urb!BulkNormal(i)
    BY <1>1, <1>4 DEF Urb!HandleCompletion
  <2>2. reapStatus # "CANCELLED" /\ kind # "control"
    BY <1>2, <1>4
  <2>3. CASE Urb!BulkAbnormal(i)
    <3>1. reapAction' = reapAction /\ reapStatus' \in {"ERROR", reapStatus}
      BY <2>3 DEF Urb!BulkAbnormal
    <3>2. \/ mem' = mem /\ ev' = ev /\ disc' = disc /\ lock' = lock
          \/ mem' = FALSE /\ disc' = disc /\ lock' = lock /\ ev' = "report"
      BY <2>3 DEF Urb!BulkAbnormal, Urb!FinishBulk, Urb!Finish, Urb!KeepWaiting
    <3> QED
      BY <1>1, <1>2, <2>2, <3>1, <3>2 DEF Urb!Status
  <2>4. CASE Urb!BulkNormal(i)
    <3>1. reapAction' \in {"ERROR", "COMPLETED_EARLY", "NORMAL"}
      BY <2>4 DEF Urb!BulkNormal
    <3>2. reapStatus' \in {"NO_DEVICE", "STALL", "OVERFLOW", "ERROR", reapStatus}
      <4>1. reapStatus' = Urb!BulkStatus(urb[i].status)
        BY <2>4 DEF Urb!BulkNormal
      <4> QED
        BY <4>1 DEF Urb!BulkStatus, Urb!KeepFirst
    <3>3. \/ mem' = mem /\ ev' = ev /\ disc' = disc /\ lock' = lock
          \/ mem' = mem /\ ev' = ev /\ lock' = "reap" /\ i < n /\ disc' = <<i + 1, n>>
          \/ mem' = FALSE /\ disc' = disc /\ lock' = lock /\ ev' = "report"
      BY <2>4 DEF Urb!BulkNormal, Urb!FinishBulk, Urb!Finish, Urb!KeepWaiting, Urb!CancelRemaining
    <3> QED
      BY <1>1, <1>2, <1>3, <2>2, <3>1, <3>2, <3>3 DEF Urb!Status
  <2> QED
    BY <2>1, <2>3, <2>4
<1>5. CASE kind = "iso"
  <2>1. Urb!IsoCompletion(i)
    BY <1>1, <1>5 DEF Urb!HandleCompletion
  <2>2. reapAction' = reapAction /\ reapStatus' \in {"ERROR", "COMPLETED", "NO_DEVICE"}
    BY <2>1 DEF Urb!IsoCompletion
  <2>3. \/ mem' = mem /\ ev' = ev /\ disc' = disc /\ lock' = lock
        \/ mem' = FALSE /\ disc' = disc /\ lock' = lock
           /\ ev' = IF reapAction = "CANCELLED" THEN "cancelled" ELSE "completed"
    BY <2>1 DEF Urb!IsoCompletion, Urb!FinishHeld, Urb!Finish, Urb!KeepWaiting
  <2> QED
    BY <1>1, <1>5, <2>2, <2>3 DEF Urb!Status
<1>6. CASE kind = "control"
  <2>1. Urb!ControlCompletion(i)
    BY <1>1, <1>6 DEF Urb!HandleCompletion
  <2>2. /\ reapAction' = reapAction
        /\ reapStatus' \in {"COMPLETED", "CANCELLED", "NO_DEVICE", "STALL", "OVERFLOW", "ERROR"}
        /\ reapStatus' = "CANCELLED" => urb[i].status = "cancelled"
    BY <2>1 DEF Urb!ControlCompletion
  <2>3. /\ mem' = FALSE /\ disc' = disc /\ lock' = lock
        /\ ev' = IF reapAction = "CANCELLED" THEN "cancelled" ELSE "completed"
    BY <2>1 DEF Urb!ControlCompletion, Urb!FinishHeld, Urb!Finish
  <2>4. urb[i].status = "cancelled" => reapAction = "CANCELLED"
    BY <1>3, <1>6 DEF Urb!RefInv, Urb!ControlInv
  <2> QED
    BY <1>1, <1>6, <2>2, <2>3, <2>4 DEF Urb!Status
<1> QED
  BY <1>2, <1>4, <1>5, <1>6

LEMMA RefReapForHandle ==
  ASSUME Urb!RefInv, Urb!ReapForHandle
  PROVE  Urb!RefInv'
<1>1. /\ ev = "idle" /\ lock = "free" /\ ready # <<>> /\ mem
      /\ urb' = [urb EXCEPT ![Head(ready)].st = "reaped"] /\ ready' = Tail(ready)
      /\ UNCHANGED <<kind, n, sub, flying, timedOut, asked, submits>>
  BY DEF Urb!ReapForHandle, Urb!flagVars
<1>2. /\ sub = 0 /\ ~Urb!Discarding /\ n \in Nat /\ flying /\ kind \in Kinds
      /\ ready \in Seq(Urb!Urbs) /\ disc \in Nat \X Nat
      /\ reapAction = "CANCELLED" => asked
  BY <1>1, KindsAssumption DEF Urb!RefInv, Urb!LockInv, Urb!FlagTypes, Urb!Urbs, Urb!ReportInv
<1>3. Head(ready) \in Urb!Urbs /\ ready' \in Seq(Urb!Urbs)
  BY <1>1, <1>2, HeadTailProperties
<1> DEFINE R == [st : {"none", "queued", "done", "reaped"}, status : Urb!UrbStatus, len : 0..UrbLen]
<1>4. urb' \in [Urb!Urbs -> R] /\ \A j \in Urb!Urbs : urb'[j].status = urb[j].status
  <2>1. urb \in [Urb!Urbs -> R]
    BY DEF Urb!RefInv, Urb!FlagTypes
  <2> QED
    BY <1>1, <1>3, <2>1
<1>5. disc' \in Nat \X Nat
  <2>1. Urb!Urbs \subseteq Nat
    BY KindsAssumption DEF Urb!Urbs
  <2>2. disc' = disc \/ \E i \in Urb!Urbs : disc' = <<i + 1, n>>
    BY Reaped
  <2>3. \A i \in Urb!Urbs : <<i + 1, n>> \in Nat \X Nat
    BY <1>2, <2>1
  <2> QED
    BY <1>2, <2>2, <2>3
<1>6. mem' \in BOOLEAN /\ ev' \in {"idle", "report", "cancelled", "completed"}
  BY <1>1, Reaped
<1>7. Urb!FlagTypes'
  BY <1>1, <1>3, <1>4, <1>5, <1>6 DEF Urb!RefInv, Urb!FlagTypes, R
<1>8. Urb!LockInv'
  <2>1. CASE disc' = disc
    BY <1>1, <1>2, <2>1 DEF Urb!LockInv, Urb!Discarding
  <2>2. CASE lock' = "reap"
    BY <1>1, <1>2, <2>2 DEF Urb!LockInv
  <2> QED
    BY <2>1, <2>2, Reaped
<1>9. Urb!ReportInv'
  <2>1. mem' => ev' = "idle"
    BY Reaped
  <2>2. reapAction' = "CANCELLED" \/ ev' = "cancelled" => asked'
    BY <1>1, <1>2, Reaped
  <2>3. /\ reapStatus' \in Urb!Status \ {"TIMED_OUT"}
        /\ ev' = "report" => kind # "control"
        /\ reapStatus' = "CANCELLED" => kind = "control" /\ ev' # "completed"
    BY Reaped
  <2> QED
    BY <1>1, <1>2, <2>1, <2>2, <2>3 DEF Urb!ReportInv
<1>10. Urb!ControlInv'
  <2> SUFFICES ASSUME kind = "control"
               PROVE  n = 1 /\ (Urb!Discarding' \/ (\E j \in Urb!Urbs : urb[j].status = "cancelled")
                                  => reapAction = "CANCELLED")
    BY <1>1, <1>4, Reaped DEF Urb!ControlInv
  <2>1. disc' = disc
    BY Reaped
  <2>2. ~Urb!Discarding'
    BY <1>2, <2>1 DEF Urb!Discarding
  <2> QED
    BY <2>2 DEF Urb!RefInv, Urb!ControlInv
<1> QED
  BY <1>7, <1>8, <1>9, <1>10 DEF Urb!RefInv

LEMMA RefStep ==
  ASSUME Urb!RefInv, Urb!Next
  PROVE  Urb!RefInv'
  BY RefSubmitTransfer, RefSubmitUrb, RefFirstUrbFails, RefLaterUrbFails, RefDiscardUrb,
     RefCancelTransfer, RefReapForHandle, RefReportTransfer, RefHandleDisconnect, RefUnplug,
     RefKernelCompletes
  DEF Urb!Next, Urb!LibStep, Urb!EventStep

\* Every step with URBs is a step of the transfer, or none.
LEMMA UrbSimulates ==
  ASSUME Urb!RefInv, Urb!Next
  PROVE  Urb!Abstract!Next \/ UNCHANGED Urb!Abstract!vars
<1>1. CASE UNCHANGED <<flying, asked, timedOut, result, submits>>
  BY <1>1 DEF Urb!Abstract!vars
<1>2. CASE Urb!SubmitTransfer
  <2>1. ~flying /\ flying' /\ ~asked' /\ ~timedOut' /\ result' = "none" /\ submits' = submits + 1
    BY <1>2 DEF Urb!SubmitTransfer
  <2>2. Urb!Abstract!Submit
    BY <2>1 DEF Urb!Abstract!Submit
  <2> QED
    BY <2>2 DEF Urb!Abstract!Next
<1>3. CASE Urb!FirstUrbFails
  <2>1. sub = 1 /\ ~flying' /\ result' = "REFUSED" /\ submits' = submits
    BY <1>3 DEF Urb!FirstUrbFails
  <2>2. flying /\ ~timedOut
    BY <2>1 DEF Urb!RefInv, Urb!LockInv
  <2>3. Urb!Abstract!Refuse
    BY <2>1, <2>2 DEF Urb!Abstract!Refuse
  <2> QED
    BY <2>3 DEF Urb!Abstract!Next
<1>4. ASSUME NEW timeout \in BOOLEAN, Urb!CancelTransfer(timeout)
      PROVE  Urb!Abstract!Next \/ UNCHANGED Urb!Abstract!vars
  <2>1. /\ timedOut' = (timedOut \/ timeout) /\ asked' = TRUE /\ UNCHANGED <<flying, result, submits>>
        /\ IF timeout THEN flying /\ ~timedOut ELSE ~asked
    BY <1>4 DEF Urb!CancelTransfer
  <2>2. flying \in BOOLEAN /\ asked \in BOOLEAN /\ timedOut \in BOOLEAN
    BY DEF Urb!RefInv, Urb!FlagTypes
  <2>3. CASE ~flying
    <3>1. (flying /\ asked)' = (flying /\ asked) /\ (flying /\ timedOut)' = (flying /\ timedOut)
      BY <2>1, <2>3
    <3> QED
      BY <2>1, <3>1 DEF Urb!Abstract!vars
  <2>4. CASE flying /\ ~asked
    <3>1. (flying /\ timedOut)' \in {flying /\ timedOut, TRUE}
      BY <2>1, <2>2, <2>4
    <3>2. Urb!Abstract!Cancel
      BY <2>1, <2>4, <3>1 DEF Urb!Abstract!Cancel
    <3> QED
      BY <3>2 DEF Urb!Abstract!Next
  <2>5. CASE flying /\ asked
    <3>1. ~timedOut /\ timedOut' /\ flying' /\ asked'
      BY <2>1, <2>5
    <3>2. Urb!Abstract!Expire
      BY <2>1, <2>5, <3>1 DEF Urb!Abstract!Expire
    <3> QED
      BY <3>2 DEF Urb!Abstract!Next
  <2> QED
    BY <2>2, <2>3, <2>4, <2>5
<1>5. CASE Urb!ReportTransfer
  <2>1. /\ ev # "idle" /\ ~flying' /\ submits' = submits
        /\ result' = IF ev = "cancelled" \/ (ev = "report" /\ reapAction = "CANCELLED")
                     THEN Urb!CancellationStatus ELSE Urb!CompletionStatus(reapStatus)
    BY <1>5 DEF Urb!ReportTransfer
  <2>2. /\ flying /\ ev \in {"report", "cancelled", "completed"}
        /\ reapAction = "CANCELLED" \/ ev = "cancelled" => asked
        /\ reapStatus \in Urb!Status \ {"TIMED_OUT"}
        /\ reapStatus = "CANCELLED" => kind = "control" /\ ev # "completed"
        /\ ev = "report" => kind # "control"
    BY <2>1 DEF Urb!RefInv, Urb!ReportInv, Urb!FlagTypes
  <2>3. /\ result' \in Urb!Status
        /\ result' = "CANCELLED" => asked /\ ~timedOut
        /\ result' = "TIMED_OUT" => timedOut
    <3>1. CASE ev = "cancelled" \/ (ev = "report" /\ reapAction = "CANCELLED")
      BY <2>1, <2>2, <3>1 DEF Urb!CancellationStatus, Urb!Status
    <3>2. CASE ~(ev = "cancelled" \/ (ev = "report" /\ reapAction = "CANCELLED"))
      <4>1. result' \in {reapStatus, "ERROR"}
        BY <2>1, <3>2 DEF Urb!CompletionStatus
      <4>2. reapStatus # "CANCELLED"
        BY <2>2, <3>2
      <4> QED
        BY <2>2, <4>1, <4>2 DEF Urb!Status
    <3> QED
      BY <3>1, <3>2
  <2>4. Urb!Abstract!Report(result')
    <3>1. result' # "REFUSED"
      BY <2>3 DEF Urb!Status
    <3> QED
      BY <2>1, <2>2, <2>3, <3>1 DEF Urb!Abstract!Report
  <2> QED
    BY <2>3, <2>4 DEF Urb!Abstract!Next, Urb!Abstract!Outcomes, Urb!Status
<1>6. CASE Urb!HandleDisconnect
  <2>1. /\ ~flying' /\ submits' = submits
        /\ result' = IF flying THEN "NO_DEVICE" ELSE result
    BY <1>6 DEF Urb!HandleDisconnect, Urb!NoneFlying
  <2>2. CASE flying
    <3>1. Urb!Abstract!Report("NO_DEVICE")
      BY <2>1, <2>2 DEF Urb!Abstract!Report
    <3> QED
      BY <3>1 DEF Urb!Abstract!Next, Urb!Abstract!Outcomes
  <2>3. CASE ~flying
    BY <2>1, <2>3 DEF Urb!Abstract!vars
  <2> QED
    BY <2>2, <2>3
<1>7. CASE Urb!SubmitUrb \/ Urb!LaterUrbFails \/ (\E len \in 0..UrbLen : Urb!DiscardUrb(len))
           \/ Urb!ReapForHandle \/ Urb!Unplug
           \/ \E i \in Urb!Urbs, s \in Urb!UrbStatus, len \in 0..UrbLen : Urb!KernelCompletes(i, s, len)
  <2>1. UNCHANGED <<flying, asked, timedOut, result, submits>>
    BY <1>7 DEF Urb!SubmitUrb, Urb!LaterUrbFails, Urb!DiscardUrb, Urb!ReapForHandle, Urb!Unplug,
                Urb!KernelCompletes, Urb!flagVars
  <2> QED
    BY <1>1, <2>1
<1> QED
  BY <1>2, <1>3, <1>4, <1>5, <1>6, <1>7 DEF Urb!Next, Urb!LibStep, Urb!EventStep

\* What libusb does with the URBs of a transfer, whatever the order in which the
\* kernel, the device, the user and the timeouts act, is what the API promises:
\* one callback for each submission, cancelled only if that was asked for and
\* timed out only if the time was up (io.c, linux_usbfs.c against Transfer).
THEOREM TransferRefined == Spec => ImplementsTransfer
<1> DEFINE I == part = "urb" => Urb!RefInv
<1>1. Init => I /\ Urb!Abstract!Init
  <2>1. Init => Urb!Init
    BY DEF Init
  <2>2. Urb!Init => Urb!Abstract!Init
    BY DEF Urb!Init, Urb!Abstract!Init
  <2> QED
    BY <2>1, <2>2, RefInit
<1>2. I /\ [Next]_all => I'
  <2> SUFFICES ASSUME I, [Next]_all, part' = "urb" PROVE Urb!RefInv'
    OBVIOUS
  <2>1. part = "urb"
    BY PartSteps
  <2>2. CASE Urb!Next
    BY <2>1, <2>2, RefStep
  <2>3. CASE UNCHANGED urbVars
    <3>1. UNCHANGED <<kind, n, urb, ready, mem, reapAction, reapStatus, lock, sub, disc, ev,
                      flying, timedOut, asked, submits>>
      BY <2>3 DEF urbVars
    <3>2. Urb!Discarding' <=> Urb!Discarding
      BY <3>1 DEF Urb!Discarding
    <3> QED
      BY <2>1, <3>1, <3>2 DEF Urb!RefInv, Urb!FlagTypes, Urb!LockInv, Urb!ReportInv, Urb!ControlInv
  <2> QED
    BY <2>1, <2>2, <2>3, PartSteps
<1>3. I /\ [Next]_all => [Urb!Abstract!Next]_(Urb!Abstract!vars)
  <2> SUFFICES ASSUME I, [Next]_all PROVE Urb!Abstract!Next \/ UNCHANGED Urb!Abstract!vars
    OBVIOUS
  <2>1. CASE UNCHANGED urbVars
    BY <2>1 DEF urbVars, Urb!Abstract!vars
  <2>2. CASE part = "urb" /\ Urb!Next
    BY <2>2, UrbSimulates
  <2> QED
    BY <2>1, <2>2, PartSteps
<1> QED
  BY <1>1, <1>2, <1>3, PTL DEF Spec, Steps, ImplementsTransfer, Urb!ImplementsTransfer, Urb!Abstract!Spec

-----------------------------------------------------------------------------
(* When the URBs are freed.                                                *)

LEMMA IntervalSize ==
  ASSUME NEW a \in Nat, NEW b \in Nat, a <= b + 1
  PROVE  Urb!Cardinality(a..b) = b - a + 1
<1>1. Urb!Cardinality(a..b) = Cardinality(a..b)
  BY UrbSizes
<1>2. Cardinality(a..b) = IF a > b THEN 0 ELSE b - a + 1
  BY FS_Interval
<1> QED
  BY <1>1, <1>2

LEMMA SameInterval ==
  ASSUME NEW a \in Int, NEW b \in Int, NEW c \in Int, NEW d \in Int, a..b = c..d, a <= b
  PROVE  a = c /\ b = d
<1>1. a \in c..d /\ b \in c..d
  OBVIOUS
<1>2. c \in a..b /\ d \in a..b
  BY <1>1
<1> QED
  BY <1>1, <1>2

\* The URBs of an interval in order
LEMMA InOrderInterval ==
  ASSUME NEW a \in Nat, NEW b \in Nat, 1 <= a, b <= MaxUrbs, a <= b + 1
  PROVE  LET q == Urb!InOrder(a..b) IN
         /\ q \in Seq(Urb!Urbs) /\ Len(q) = b - a + 1
         /\ \A k \in 1..(b - a + 1) : q[k] = a + k - 1
<1> DEFINE q == Urb!InOrder(a..b)
           c == b - a + 1
<1>1. a..b \subseteq Urb!Urbs
  BY KindsAssumption DEF Urb!Urbs
<1>2. Cardinality(a..b) = c
  <2>1. Cardinality(a..b) = IF a > b THEN 0 ELSE b - a + 1
    BY FS_Interval
  <2> QED
    BY <2>1
<1>3. /\ q \in Seq(Urb!Urbs) /\ Len(q) = Cardinality(a..b)
      /\ \A k \in 1..Cardinality(a..b) :
           q[k] \in a..b /\ Cardinality({j \in a..b : j <= q[k]}) = k
  BY ONLY <1>1, InOrderType
<1> HIDE DEF q
<1>4. ASSUME NEW k \in 1..c PROVE q[k] = a + k - 1
  <2> DEFINE i == q[k]
  <2>1. i \in a..b /\ Cardinality({j \in a..b : j <= i}) = k
    BY <1>2, <1>3
  <2> HIDE DEF i
  <2>2. i \in Nat /\ a <= i /\ i <= b
    BY <2>1
  <2>3. {j \in a..b : j <= i} = a..i
    BY <2>2
  <2>4. Cardinality(a..i) = i - a + 1
    <3>1. Cardinality(a..i) = IF a > i THEN 0 ELSE i - a + 1
      BY <2>2, FS_Interval
    <3> QED
      BY <2>2, <3>1
  <2>5. i - a + 1 = k
    BY <2>1, <2>3, <2>4
  <2>6. i = a + k - 1
    BY <2>2, <2>5
  <2> QED
    BY <2>6 DEF i
<1> QED
  BY <1>2, <1>3, <1>4 DEF q

\* URBs a..b go from the kernel to the queue of the completed ones.
LEMMA Moves ==
  ASSUME Urb!FlagTypes, Urb!ReadyInv, mem, mem',
         NEW a \in Nat, NEW b \in Nat, a <= b + 1, a..b \subseteq Urb!Queued,
         \A j \in Urb!Urbs : urb'[j].st = IF j \in a..b THEN "done" ELSE urb[j].st,
         Len(ready') = Len(ready) + (b - a + 1), \A k \in 1..Len(ready) : ready'[k] = ready[k],
         \A k \in 1..(b - a + 1) : ready'[Len(ready) + k] = a + k - 1
  PROVE  Urb!ReadyInv'
<1>1. /\ ready \in Seq(Urb!Urbs) /\ Len(ready) \in Nat
      /\ \A k, l \in 1..Len(ready) : k # l => ready[k] # ready[l]
      /\ \A i \in Urb!Urbs : urb[i].st = "done" <=> \E k \in 1..Len(ready) : ready[k] = i
  <2>1. ready \in Seq(Urb!Urbs)
    BY DEF Urb!FlagTypes
  <2> QED
    BY <2>1 DEF Urb!ReadyInv
<1>2. \A k \in 1..Len(ready) : ready[k] \in Urb!Urbs /\ urb[ready[k]].st = "done"
  BY <1>1
<1>3. \A j \in a..b : j \in Urb!Urbs /\ urb[j].st = "queued"
  BY DEF Urb!Queued
<1>4. \A k \in 1..Len(ready') : k \in 1..Len(ready) \/ (k - Len(ready) \in 1..(b - a + 1))
  BY <1>1
<1>5. \A k \in 1..Len(ready') : k - Len(ready) \in 1..(b - a + 1) =>
        ready'[k] = a + (k - Len(ready)) - 1 /\ ready'[k] \in a..b
  <2> SUFFICES ASSUME NEW k \in 1..Len(ready'), k - Len(ready) \in 1..(b - a + 1)
               PROVE  ready'[k] = a + (k - Len(ready)) - 1 /\ ready'[k] \in a..b
    OBVIOUS
  <2>1. Len(ready) + (k - Len(ready)) = k
    BY <1>1
  <2>2. ready'[k] = a + (k - Len(ready)) - 1
    BY <2>1
  <2> QED
    BY <1>1, <2>2
<1>6. ASSUME NEW k \in 1..Len(ready'), NEW l \in 1..Len(ready'), k # l PROVE ready'[k] # ready'[l]
  <2>1. CASE k \in 1..Len(ready) /\ l \in 1..Len(ready)
    BY <1>1, <1>6, <2>1
  <2>2. CASE k \in 1..Len(ready) /\ l - Len(ready) \in 1..(b - a + 1)
    BY <1>2, <1>3, <1>5, <2>2
  <2>3. CASE l \in 1..Len(ready) /\ k - Len(ready) \in 1..(b - a + 1)
    BY <1>2, <1>3, <1>5, <2>3
  <2>4. CASE k - Len(ready) \in 1..(b - a + 1) /\ l - Len(ready) \in 1..(b - a + 1)
    <3>1. ready'[k] = a + (k - Len(ready)) - 1 /\ ready'[l] = a + (l - Len(ready)) - 1
      BY <1>5, <2>4
    <3> QED
      BY <1>1, <1>6, <3>1
  <2> QED
    BY <1>4, <2>1, <2>2, <2>3, <2>4
<1>7. ASSUME NEW i \in Urb!Urbs PROVE urb'[i].st = "done" <=> \E k \in 1..Len(ready') : ready'[k] = i
  <2>1. CASE i \in a..b
    <3>1. i - a + 1 \in 1..(b - a + 1) /\ Len(ready) + (i - a + 1) \in 1..Len(ready')
      BY <1>1, <2>1
    <3>2. ready'[Len(ready) + (i - a + 1)] = a + (i - a + 1) - 1
      BY <3>1
    <3>3. a + (i - a + 1) - 1 = i
      BY <2>1
    <3> QED
      BY <2>1, <3>1, <3>2, <3>3
  <2>2. CASE i \notin a..b
    <3>1. urb'[i].st = urb[i].st
      BY <2>2
    <3>2. \A k \in 1..Len(ready) : k \in 1..Len(ready')
      BY <1>1
    <3>3. (\E k \in 1..Len(ready) : ready[k] = i) => \E k \in 1..Len(ready') : ready'[k] = i
      BY <3>2
    <3>4. (\E k \in 1..Len(ready') : ready'[k] = i) => \E k \in 1..Len(ready) : ready[k] = i
      BY <1>4, <1>5, <2>2
    <3> QED
      BY <1>1, <3>1, <3>3, <3>4
  <2> QED
    BY <2>1, <2>2
<1> QED
  BY <1>6, <1>7 DEF Urb!ReadyInv

LEMMA Products ==
  ASSUME NEW L \in Nat
  PROVE  /\ \A x, y \in Nat : x * L \in Nat /\ (x + y) * L = x * L + y * L
         /\ \A x, y \in Nat : x <= y => x * L <= y * L
<1>1. \A x, y \in Nat : x * L \in Nat /\ (x + y) * L = x * L + y * L
  OBVIOUS
<1>2. ASSUME NEW x \in Nat, NEW y \in Nat, x <= y PROVE x * L <= y * L
  <2>1. y - x \in Nat /\ y = x + (y - x)
    BY <1>2
  <2>2. y * L = x * L + (y - x) * L /\ (y - x) * L \in Nat /\ x * L \in Nat
    BY <1>1, <2>1
  <2> QED
    BY <2>2
<1> QED
  BY <1>1, <1>2

\* The interval that the kernel has, with its size
LEMMA Window ==
  ASSUME Urb!IndInv
  PROVE  \E lo \in 1..(MaxUrbs + 1), hi \in 0..MaxUrbs :
           /\ Urb!Queued = lo..hi /\ lo <= hi + 1
           /\ sub > 0 => hi = sub - 1
           /\ Urb!Discarding => lo > hi \/ hi <= disc[2]
           /\ Urb!Cardinality(Urb!Queued) = hi - lo + 1
<1>1. PICK lo \in 1..(MaxUrbs + 1), hi \in 0..MaxUrbs :
           /\ Urb!Queued = lo..hi /\ lo <= hi + 1
           /\ sub > 0 => hi = sub - 1
           /\ Urb!Discarding => lo > hi \/ hi <= disc[2]
  BY DEF Urb!IndInv, Urb!IntervalInv
<1>2. lo \in Nat /\ hi \in Nat
  BY KindsAssumption
<1>3. Urb!Cardinality(Urb!Queued) = hi - lo + 1
  BY <1>1, <1>2, IntervalSize
<1> QED
  BY <1>1, <1>3

\* URB i completes, and the ones after it up to b with it.
LEMMA CompleteEffect ==
  ASSUME Urb!FlagTypes, NEW i \in Nat, NEW b \in Nat, i <= b, i..b \subseteq Urb!Queued,
         NEW s, NEW len, Urb!Complete(i, s, len, (i + 1)..b)
  PROVE  /\ \A j \in Urb!Urbs : urb'[j].st = IF j \in i..b THEN "done" ELSE urb[j].st
         /\ \A j \in Urb!Urbs : urb'[j].status = IF j = i THEN s
              ELSE IF j \in i..b THEN "cancelled" ELSE urb[j].status
         /\ \A j \in Urb!Urbs : urb'[j].len = IF j = i THEN len
              ELSE IF j \in i..b THEN 0 ELSE urb[j].len
         /\ Len(ready') = Len(ready) + (b - i + 1)
         /\ \A k \in 1..Len(ready) : ready'[k] = ready[k]
         /\ \A k \in 1..(b - i + 1) : ready'[Len(ready) + k] = i + k - 1
         /\ Urb!Queued' = Urb!Queued \ (i..b)
<1>1. /\ urb' = [j \in Urb!Urbs |->
           IF j = i THEN [st |-> "done", status |-> s, len |-> len]
           ELSE IF j \in (i + 1)..b THEN [st |-> "done", status |-> "cancelled", len |-> 0]
           ELSE urb[j]]
      /\ ready' = Append(ready, i) \o Urb!InOrder((i + 1)..b)
  BY DEF Urb!Complete
<1>2. \A j \in Urb!Urbs : j \in i..b <=> j = i \/ j \in (i + 1)..b
  BY KindsAssumption DEF Urb!Urbs
<1>3. \A j \in Urb!Urbs :
        /\ j = i => urb'[j].st = "done" /\ urb'[j].status = s /\ urb'[j].len = len
        /\ j # i /\ j \in (i + 1)..b =>
             urb'[j].st = "done" /\ urb'[j].status = "cancelled" /\ urb'[j].len = 0
        /\ j # i /\ j \notin (i + 1)..b => urb'[j] = urb[j]
  BY <1>1
<1>4. /\ \A j \in Urb!Urbs : urb'[j].st = IF j \in i..b THEN "done" ELSE urb[j].st
      /\ \A j \in Urb!Urbs : urb'[j].status = IF j = i THEN s
              ELSE IF j \in i..b THEN "cancelled" ELSE urb[j].status
      /\ \A j \in Urb!Urbs : urb'[j].len = IF j = i THEN len
              ELSE IF j \in i..b THEN 0 ELSE urb[j].len
  BY <1>2, <1>3
<1>5. Urb!Queued' = Urb!Queued \ (i..b)
  BY <1>4 DEF Urb!Queued
<1>6. ready \in Seq(Urb!Urbs) /\ i \in Urb!Urbs /\ b \in Urb!Urbs
  <2>1. i \in i..b /\ b \in i..b
    OBVIOUS
  <2> QED
    BY <2>1 DEF Urb!FlagTypes, Urb!Queued
<1> DEFINE p == Append(ready, i)
           q == Urb!InOrder((i + 1)..b)
<1>7. p \in Seq(Urb!Urbs) /\ Len(p) = Len(ready) + 1 /\ p[Len(ready) + 1] = i
      /\ \A k \in 1..Len(ready) : p[k] = ready[k]
  BY <1>6, AppendProperties
<1>8. q \in Seq(Urb!Urbs) /\ Len(q) = b - i /\ \A k \in 1..(b - i) : q[k] = i + k
  <2>1. i + 1 \in Nat /\ 1 <= i + 1 /\ b <= MaxUrbs /\ i + 1 <= b + 1
    BY <1>6, KindsAssumption DEF Urb!Urbs
  <2>2. /\ q \in Seq(Urb!Urbs) /\ Len(q) = b - (i + 1) + 1
        /\ \A k \in 1..(b - (i + 1) + 1) : q[k] = (i + 1) + k - 1
    BY <2>1, InOrderInterval
  <2>3. b - (i + 1) + 1 = b - i /\ \A k \in 1..(b - i) : (i + 1) + k - 1 = i + k
    OBVIOUS
  <2> HIDE DEF q
  <2> QED
    BY <2>2, <2>3
<1> HIDE DEF p, q
<1>9. /\ Len(p \o q) = Len(p) + Len(q)
      /\ \A k \in 1..(Len(p) + Len(q)) : (p \o q)[k] = IF k <= Len(p) THEN p[k] ELSE q[k - Len(p)]
  BY <1>7, <1>8, ConcatProperties
<1>10. ready' = p \o q /\ Len(ready) \in Nat
  BY <1>1, <1>6 DEF p, q
<1>11. /\ Len(ready') = Len(ready) + (b - i + 1)
       /\ \A k \in 1..Len(ready') : ready'[k] = IF k <= Len(ready) + 1 THEN p[k] ELSE q[k - (Len(ready) + 1)]
  BY <1>7, <1>8, <1>9, <1>10
<1>12. ASSUME NEW k \in 1..Len(ready) PROVE ready'[k] = ready[k]
  <2>1. k \in 1..Len(ready') /\ k <= Len(ready) + 1
    BY <1>10, <1>11
  <2> QED
    BY <1>7, <1>11, <2>1
<1>13. ASSUME NEW k \in 1..(b - i + 1) PROVE ready'[Len(ready) + k] = i + k - 1
  <2>1. Len(ready) + k \in 1..Len(ready')
    BY <1>10, <1>11
  <2>2. CASE k = 1
    BY <1>7, <1>10, <1>11, <2>1, <2>2
  <2>3. CASE k # 1
    <3>1. /\ ~(Len(ready) + k <= Len(ready) + 1) /\ Len(ready) + k - (Len(ready) + 1) = k - 1
          /\ k - 1 \in 1..(b - i) /\ i + (k - 1) = i + k - 1
      BY <1>10, <2>3
    <3>2. ready'[Len(ready) + k] = q[k - 1]
      BY <1>11, <2>1, <3>1
    <3> QED
      BY <1>8, <3>1, <3>2
  <2> QED
    BY <2>2, <2>3
<1> QED
  BY <1>4, <1>5, <1>11, <1>12, <1>13

\* What the invariant says of the numbers, when m URBs that may bring d units leave the kernel
LEMMA MovedCounts ==
  ASSUME Urb!IndInv, NEW m \in Nat, NEW d \in Nat, d <= m * UrbLen, NEW c \in Nat,
         Urb!Cardinality(Urb!Queued) = c + m, Urb!Cardinality(Urb!Queued') = c,
         Len(ready') = Len(ready) + m, sent' = sent + d,
         UNCHANGED <<n, sub, retired, mem, transferred>>
  PROVE  /\ mem => Urb!Cardinality(Urb!Queued') + Len(ready') + retired' = Urb!Given'
         /\ Urb!LengthInv'
<1>1. /\ n \in Nat /\ sub \in 0..n /\ Len(ready) \in Nat /\ retired \in Nat /\ sent \in Nat /\ transferred \in Nat
      /\ MaxUrbs \in Nat /\ UrbLen \in Nat
  <2>1. ready \in Seq(Urb!Urbs) /\ n \in Urb!Urbs /\ sub \in 0..n
    BY DEF Urb!IndInv, Urb!RefInv, Urb!FlagTypes
  <2>2. n \in Nat
    BY <2>1, KindsAssumption DEF Urb!Urbs
  <2> QED
    BY <2>1, <2>2, KindsAssumption DEF Urb!IndInv, Urb!OtherTypes
<1>2. Urb!Given' = Urb!Given /\ Urb!Unsent' = Urb!Unsent
  BY DEF Urb!Given, Urb!Unsent
<1>3. Urb!Unsent \in Nat /\ Urb!Given \in Nat
  BY <1>1 DEF Urb!Unsent, Urb!Given
<1>4. mem => Urb!Cardinality(Urb!Queued') + Len(ready') + retired' = Urb!Given'
  <2> SUFFICES ASSUME mem PROVE c + Len(ready') + retired' = Urb!Given'
    OBVIOUS
  <2>1. c + m + Len(ready) + retired = Urb!Given
    BY DEF Urb!IndInv, Urb!CountInv
  <2> QED
    BY <1>1, <1>2, <2>1
<1> DEFINE u == Urb!Unsent
           r == Len(ready)
<1>5. /\ sent + (c + m + u) * UrbLen <= Urb!Units
      /\ transferred + (r + (c + m) + u) * UrbLen <= Urb!Units
  BY DEF Urb!IndInv, Urb!LengthInv
<1>6. Urb!Units \in Nat
  BY <1>1 DEF Urb!Units
<1> HIDE DEF u, r
<1>7. /\ sent + d + (c + u) * UrbLen <= Urb!Units
      /\ transferred + (r + m + c + u) * UrbLen <= Urb!Units
  <2>1. u \in Nat /\ r \in Nat /\ c + u \in Nat
    BY <1>1, <1>3 DEF u, r
  <2>2. c + m + u = (c + u) + m /\ r + (c + m) + u = r + m + c + u
    BY <2>1
  <2>3. (c + m + u) * UrbLen = (c + u) * UrbLen + m * UrbLen
    BY <1>1, <2>1, <2>2, Products
  <2>4. (c + u) * UrbLen \in Nat /\ m * UrbLen \in Nat
    BY <1>1, <2>1, Products
  <2> QED
    BY <1>1, <1>5, <1>6, <2>2, <2>3, <2>4
<1>8. Urb!LengthInv'
  <2>1. Urb!Units' = Urb!Units
    BY DEF Urb!Units
  <2>2. (c + u) * UrbLen = (Urb!Cardinality(Urb!Queued') + Urb!Unsent') * UrbLen
    BY <1>2 DEF u
  <2>3. (r + m + c + u) * UrbLen = (Len(ready') + Urb!Cardinality(Urb!Queued') + Urb!Unsent') * UrbLen
    BY <1>2 DEF u, r
  <2> QED
    BY <1>7, <2>1, <2>2, <2>3 DEF Urb!LengthInv
<1> QED
  BY <1>4, <1>8

LEMMA UrbFacts ==
  ASSUME Urb!IndInv
  PROVE  /\ n \in Nat /\ 1 <= n /\ n <= MaxUrbs /\ sub \in 0..n /\ retired \in 0..n
         /\ ready \in Seq(Urb!Urbs) /\ Len(ready) \in Nat
         /\ sent \in Nat /\ transferred \in Nat /\ MaxUrbs \in Nat /\ UrbLen \in Nat
         /\ disc \in Nat \X Nat /\ mem \in BOOLEAN
<1>1. /\ n \in Urb!Urbs /\ sub \in 0..n /\ ready \in Seq(Urb!Urbs) /\ disc \in Nat \X Nat /\ mem \in BOOLEAN
  BY DEF Urb!IndInv, Urb!RefInv, Urb!FlagTypes
<1>2. retired \in 0..n /\ sent \in Nat /\ transferred \in Nat
  BY DEF Urb!IndInv, Urb!OtherTypes
<1>3. n \in Nat /\ 1 <= n /\ n <= MaxUrbs /\ MaxUrbs \in Nat /\ UrbLen \in Nat
  BY <1>1, KindsAssumption DEF Urb!Urbs
<1>4. Len(ready) \in Nat
  BY <1>1
<1> QED
  BY <1>1, <1>2, <1>3, <1>4

LEMMA IndKernelCompletes ==
  ASSUME Urb!IndInv, NEW i \in Urb!Urbs, NEW s \in Urb!UrbStatus, NEW len \in 0..UrbLen,
         Urb!KernelCompletes(i, s, len)
  PROVE  Urb!IndInv'
<1> DEFINE r == Len(ready)
<1>1. /\ plugged /\ Urb!Active(i) /\ Urb!Complete(i, s, len, Urb!Rest(i, s))
      /\ refuse' = (refuse \/ (kind = "bulkcont" /\ s # "ok"))
      /\ \/ s \in {"ok", "short"}
         \/ s \in Faults /\ kind \in FaultyKinds /\ (s = "overflow" => i = n)
      /\ UNCHANGED <<kind, n, plugged, polled, mem, reapAction, retired, reapStatus, isoSlots,
                     transferred, lock, sub, disc, result>>
  BY DEF Urb!KernelCompletes, Urb!tprivVars, Urb!devVars
<1>2. PICK lo \in 1..(MaxUrbs + 1), hi \in 0..MaxUrbs :
           /\ Urb!Queued = lo..hi /\ lo <= hi + 1
           /\ sub > 0 => hi = sub - 1
           /\ Urb!Discarding => lo > hi \/ hi <= disc[2]
           /\ Urb!Cardinality(Urb!Queued) = hi - lo + 1
  BY Window
<1>3. /\ n \in Nat /\ sub \in 0..n /\ retired \in Nat /\ ready \in Seq(Urb!Urbs) /\ r \in Nat
      /\ sent \in Nat /\ MaxUrbs \in Nat /\ UrbLen \in Nat
  BY UrbFacts
<1>4. lo \in Nat /\ hi \in Nat /\ i \in Nat /\ len \in Nat
  BY <1>3 DEF Urb!Urbs
<1>5. i = lo /\ lo <= hi
  <2>1. i \in lo..hi /\ \A j \in lo..hi : i <= j
    BY <1>1, <1>2 DEF Urb!Active
  <2>2. lo \in lo..hi
    BY <1>4, <2>1
  <2> QED
    BY <1>4, <2>1, <2>2
<1>6. i \in Urb!Queued /\ mem
  <2>1. i \in Urb!Queued
    BY <1>1 DEF Urb!Active
  <2> QED
    BY <2>1 DEF Urb!IndInv, Urb!CountInv
<1> DEFINE b == IF kind = "bulkcont" /\ s # "ok" THEN hi ELSE i
<1>7. b \in Nat /\ i <= b /\ b <= hi
  BY <1>4, <1>5
<1>8. Urb!Rest(i, s) = (i + 1)..b
  <2>1. CASE kind = "bulkcont" /\ s # "ok"
    <3>1. Urb!Rest(i, s) = {j \in lo..hi : j > i}
      BY <1>2, <2>1 DEF Urb!Rest
    <3>2. {j \in lo..hi : j > i} = (i + 1)..hi
      BY <1>4, <1>5
    <3> QED
      BY <2>1, <3>1, <3>2
  <2>2. CASE ~(kind = "bulkcont" /\ s # "ok")
    <3>1. Urb!Rest(i, s) = {} /\ b = i
      BY <2>2 DEF Urb!Rest
    <3>2. (i + 1)..i = {}
      BY <1>4
    <3> QED
      BY <3>1, <3>2
  <2> QED
    BY <2>1, <2>2
<1>9. refuse' => refuse \/ b = hi
  BY <1>1
<1>10. kind = "bulkcont" /\ s # "ok" => refuse'
  BY <1>1
<1> HIDE DEF b
<1>11. Urb!Complete(i, s, len, (i + 1)..b) /\ i..b \subseteq Urb!Queued
  BY <1>1, <1>2, <1>4, <1>5, <1>7, <1>8
<1>12. Urb!FlagTypes /\ Urb!ReadyInv
  BY DEF Urb!IndInv, Urb!RefInv
<1>13. /\ \A j \in Urb!Urbs : urb'[j].st = IF j \in i..b THEN "done" ELSE urb[j].st
       /\ \A j \in Urb!Urbs : urb'[j].status = IF j = i THEN s
              ELSE IF j \in i..b THEN "cancelled" ELSE urb[j].status
       /\ \A j \in Urb!Urbs : urb'[j].len = IF j = i THEN len
              ELSE IF j \in i..b THEN 0 ELSE urb[j].len
       /\ Len(ready') = r + (b - i + 1)
       /\ \A k \in 1..r : ready'[k] = ready[k]
       /\ \A k \in 1..(b - i + 1) : ready'[r + k] = i + k - 1
       /\ Urb!Queued' = Urb!Queued \ (i..b)
  BY <1>4, <1>7, <1>11, <1>12, CompleteEffect
<1>14. Urb!Queued' = (b + 1)..hi
  <2>1. (lo..hi) \ (lo..b) = (b + 1)..hi
    BY <1>4, <1>5, <1>7
  <2> QED
    BY <1>2, <1>5, <1>13, <2>1
<1>15. Urb!ReadyInv'
  <2>1. mem'
    BY <1>1, <1>6
  <2>2. i <= b + 1
    BY <1>4, <1>7
  <2> QED
    BY <1>4, <1>6, <1>7, <1>11, <1>12, <1>13, <2>1, <2>2, Moves
<1>16. Urb!Discarding' <=> Urb!Discarding
  BY <1>1 DEF Urb!Discarding
<1>17. Urb!IntervalInv'
  <2>1. /\ b + 1 \in 1..(MaxUrbs + 1) /\ b + 1 <= hi + 1
        /\ sub' > 0 => hi = sub' - 1
        /\ Urb!Discarding' => b + 1 > hi \/ hi <= disc'[2]
    BY <1>1, <1>2, <1>3, <1>4, <1>5, <1>7, <1>16
  <2> QED
    BY <1>14, <2>1 DEF Urb!IntervalInv
<1>18. /\ mem => Urb!Cardinality(Urb!Queued') + Len(ready') + retired' = Urb!Given'
       /\ Urb!LengthInv'
  <2> DEFINE m == b - i + 1
             c == hi - (b + 1) + 1
  <2>1. m \in Nat /\ 1 <= m /\ c \in Nat /\ hi - lo + 1 = c + m
    BY <1>4, <1>5, <1>7
  <2>2. Urb!Cardinality(Urb!Queued') = c
    BY <1>4, <1>7, <1>14, IntervalSize
  <2>3. sent' = sent + len
    BY <1>1 DEF Urb!Complete
  <2>4. Len(ready') = Len(ready) + m
    BY <1>13
  <2>5. Urb!Cardinality(Urb!Queued) = c + m
    BY <1>2, <2>1
  <2> HIDE DEF m, c
  <2>6. len <= m * UrbLen
    <3>1. 1 * UrbLen <= m * UrbLen /\ m * UrbLen \in Nat /\ len <= UrbLen
      BY <1>3, <2>1, Products
    <3> QED
      BY <1>3, <1>4, <3>1
  <2> QED
    BY <1>1, <1>4, <2>1, <2>2, <2>3, <2>4, <2>5, <2>6, MovedCounts
<1>19. Urb!CountInv'
  <2>1. ASSUME reapAction = "NORMAL"
        PROVE  /\ Urb!Queued' = (retired + Len(ready') + 1)..Urb!Given'
               /\ \A k \in 1..Len(ready') : ready'[k] = retired + k
               /\ ~Urb!Discarding'
    <3>1. /\ Urb!Queued = (retired + r + 1)..Urb!Given /\ \A k \in 1..r : ready[k] = retired + k
          /\ Urb!Discarding => Urb!Queued = {}
      BY <1>6, <2>1 DEF Urb!IndInv, Urb!CountInv
    <3>2. Urb!Given \in Nat /\ Urb!Given' = Urb!Given
      BY <1>1, <1>3 DEF Urb!Given
    <3>3. lo = retired + r + 1 /\ hi = Urb!Given
      <4>1. lo..hi = (retired + r + 1)..Urb!Given
        BY <1>2, <3>1
      <4> QED
        BY <1>3, <1>4, <1>5, <3>2, <4>1, SameInterval
    <3>4. b + 1 = retired + Len(ready') + 1
      BY <1>3, <1>4, <1>5, <1>7, <1>13, <3>3
    <3>5. ASSUME NEW k \in 1..Len(ready') PROVE ready'[k] = retired + k
      <4>1. CASE k \in 1..r
        BY <1>13, <3>1, <4>1
      <4>2. CASE k \notin 1..r
        <5>1. k - r \in 1..(b - i + 1) /\ r + (k - r) = k
          BY <1>3, <1>4, <1>7, <1>13, <4>2
        <5>2. ready'[r + (k - r)] = i + (k - r) - 1
          BY <1>13, <5>1
        <5>3. i + (k - r) - 1 = retired + k
          BY <1>3, <1>4, <1>5, <3>3
        <5> QED
          BY <5>1, <5>2, <5>3
      <4> QED
        BY <4>1, <4>2
    <3> QED
      BY <1>6, <1>14, <1>16, <3>1, <3>2, <3>3, <3>4, <3>5
  <2> QED
    BY <1>1, <1>6, <1>18, <2>1 DEF Urb!CountInv
<1>20. Urb!UrbInv'
  <2>1. ~refuse
    BY <1>6 DEF Urb!IndInv, Urb!UrbInv
  <2>2. ~plugged' \/ refuse' => Urb!Queued' = {}
    <3>1. b = hi => (b + 1)..hi = {}
      BY <1>4
    <3> QED
      BY <1>1, <1>9, <1>14, <2>1, <3>1
  <2>3. \A j \in i..b : urb[j].st # "none"
    BY <1>11 DEF Urb!Queued
  <2>4. /\ "cancelled" \notin Faults /\ "ok" \notin Faults /\ "short" \notin Faults /\ "gone" \notin Faults
    BY KindsAssumption
  <2>5. ASSUME NEW j \in Urb!Urbs
        PROVE  /\ urb'[j].st # "none" => j <= n /\ (sub > 0 => j < sub)
               /\ urb'[j].status \in Faults => kind \in FaultyKinds /\ (kind = "bulkcont" => refuse')
               /\ urb'[j].status = "overflow" => j = n
               /\ urb'[j].status = "gone" => ~plugged
    <3>1. /\ urb[j].st # "none" => j <= n /\ (sub > 0 => j < sub)
          /\ urb[j].status \in Faults => kind \in FaultyKinds /\ (kind = "bulkcont" => refuse)
          /\ urb[j].status = "overflow" => j = n
          /\ urb[j].status = "gone" => ~plugged
      BY DEF Urb!IndInv, Urb!UrbInv
    <3>2. urb'[j].st # "none" => j <= n /\ (sub > 0 => j < sub)
      BY <1>13, <2>3, <3>1
    <3>3. CASE j = i
      <4>1. urb'[j].status = s
        BY <1>13, <3>3
      <4> QED
        BY <1>1, <1>10, <2>4, <3>2, <3>3, <4>1
    <3>4. CASE j # i
      <4>1. urb'[j].status \in {"cancelled", urb[j].status}
        BY <1>13, <3>4
      <4> QED
        BY <2>1, <2>4, <3>1, <3>2, <4>1
    <3> QED
      BY <3>3, <3>4
  <2> QED
    BY <1>1, <2>2, <2>5 DEF Urb!IndInv, Urb!UrbInv
<1>21. Urb!OtherTypes'
  <2>1. sent' \in Nat /\ refuse' \in BOOLEAN
    BY <1>1, <1>3, <1>4 DEF Urb!Complete, Urb!IndInv, Urb!OtherTypes
  <2> QED
    BY <1>1, <2>1 DEF Urb!IndInv, Urb!OtherTypes
<1>22. Urb!RefInv'
  BY RefKernelCompletes DEF Urb!IndInv
<1> QED
  BY <1>15, <1>17, <1>18, <1>19, <1>20, <1>21, <1>22 DEF Urb!IndInv

LEMMA IndUnplug ==
  ASSUME Urb!IndInv, Urb!Unplug
  PROVE  Urb!IndInv'
<1> DEFINE r == Len(ready)
<1>1. /\ plugged' = FALSE
      /\ urb' = [j \in Urb!Urbs |-> IF j \in Urb!Queued
                   THEN [st |-> "done", status |-> "gone", len |-> 0] ELSE urb[j]]
      /\ ready' = ready \o Urb!InOrder(Urb!Queued)
      /\ UNCHANGED <<kind, n, refuse, sent, polled, mem, reapAction, retired, reapStatus, isoSlots,
                     transferred, lock, sub, disc, result>>
  BY DEF Urb!Unplug, Urb!tprivVars, Urb!dataVars
<1>2. PICK lo \in 1..(MaxUrbs + 1), hi \in 0..MaxUrbs :
           /\ Urb!Queued = lo..hi /\ lo <= hi + 1
           /\ sub > 0 => hi = sub - 1
           /\ Urb!Discarding => lo > hi \/ hi <= disc[2]
           /\ Urb!Cardinality(Urb!Queued) = hi - lo + 1
  BY Window
<1>3. /\ n \in Nat /\ sub \in 0..n /\ retired \in Nat /\ ready \in Seq(Urb!Urbs) /\ r \in Nat
      /\ sent \in Nat /\ MaxUrbs \in Nat /\ UrbLen \in Nat
  BY UrbFacts
<1>4. lo \in Nat /\ hi \in Nat /\ 1 <= lo /\ hi <= MaxUrbs
  BY <1>3
<1>5. \A j \in Urb!Urbs : urb'[j].st = IF j \in lo..hi THEN "done" ELSE urb[j].st
  BY <1>1, <1>2
<1>6. \A j \in Urb!Urbs : urb'[j].status \in {"gone", urb[j].status}
  BY <1>1
<1>7. /\ Len(ready') = r + (hi - lo + 1) /\ ready' \in Seq(Urb!Urbs)
      /\ \A k \in 1..r : ready'[k] = ready[k]
      /\ \A k \in 1..(hi - lo + 1) : ready'[r + k] = lo + k - 1
  <2> DEFINE q == Urb!InOrder(lo..hi)
  <2>1. /\ q \in Seq(Urb!Urbs) /\ Len(q) = hi - lo + 1
        /\ \A k \in 1..(hi - lo + 1) : q[k] = lo + k - 1
    BY <1>2, <1>4, InOrderInterval
  <2> HIDE DEF q
  <2>2. ready' = ready \o q
    BY <1>1, <1>2 DEF q
  <2>3. /\ ready' \in Seq(Urb!Urbs) /\ Len(ready') = r + Len(q)
        /\ \A k \in 1..(r + Len(q)) : ready'[k] = IF k <= r THEN ready[k] ELSE q[k - r]
    BY <1>3, <2>1, <2>2, ConcatProperties
  <2>4. ASSUME NEW k \in 1..r PROVE ready'[k] = ready[k]
    <3>1. k \in 1..(r + Len(q)) /\ k <= r
      BY <1>2, <1>3, <1>4, <2>1
    <3> QED
      BY <2>3, <3>1
  <2>5. ASSUME NEW k \in 1..(hi - lo + 1) PROVE ready'[r + k] = lo + k - 1
    <3>1. r + k \in 1..(r + Len(q)) /\ ~(r + k <= r) /\ (r + k) - r = k
      BY <1>3, <1>4, <2>1
    <3> QED
      BY <2>1, <2>3, <3>1
  <2> QED
    BY <2>1, <2>3, <2>4, <2>5
<1>8. Urb!Queued' = {} /\ Urb!Queued' = (hi + 1)..hi
  <2>1. Urb!Queued' = {}
    BY <1>1 DEF Urb!Queued
  <2>2. (hi + 1)..hi = {}
    BY <1>4
  <2> QED
    BY <2>1, <2>2
<1>9. Urb!ReadyInv'
  <2>1. CASE mem
    <3>1. Urb!FlagTypes /\ Urb!ReadyInv /\ mem' /\ lo..hi \subseteq Urb!Queued
      BY <1>1, <1>2, <2>1 DEF Urb!IndInv, Urb!RefInv
    <3> QED
      BY <1>2, <1>4, <1>5, <1>7, <2>1, <3>1, Moves
  <2>2. CASE ~mem
    BY <1>1, <2>2 DEF Urb!ReadyInv
  <2> QED
    BY <2>1, <2>2
<1>10. Urb!Discarding' <=> Urb!Discarding
  BY <1>1 DEF Urb!Discarding
<1>11. Urb!IntervalInv'
  <2>1. /\ hi + 1 \in 1..(MaxUrbs + 1) /\ hi + 1 <= hi + 1
        /\ sub' > 0 => hi = sub' - 1
        /\ Urb!Discarding' => hi + 1 > hi \/ hi <= disc'[2]
    BY <1>1, <1>2, <1>3, <1>4
  <2> QED
    BY <1>8, <2>1 DEF Urb!IntervalInv
<1>12. /\ mem => Urb!Cardinality(Urb!Queued') + Len(ready') + retired' = Urb!Given'
       /\ Urb!LengthInv'
  <2> DEFINE m == hi - lo + 1
  <2>1. m \in Nat /\ 0 \in Nat /\ 0 <= m * UrbLen
    <3>1. m \in Nat
      BY <1>2, <1>4
    <3> QED
      BY <1>3, <3>1, Products
  <2>2. Urb!Cardinality(Urb!Queued') = 0
    <3>1. hi + 1 \in Nat /\ hi + 1 <= hi + 1 /\ hi - (hi + 1) + 1 = 0
      BY <1>4
    <3> QED
      BY <1>4, <1>8, <3>1, IntervalSize
  <2>3. sent' = sent + 0
    BY <1>1, <1>3
  <2>4. Len(ready') = Len(ready) + m
    BY <1>7
  <2>5. Urb!Cardinality(Urb!Queued) = 0 + m
    BY <1>2, <1>4
  <2> HIDE DEF m
  <2> QED
    BY <1>1, <2>1, <2>2, <2>3, <2>4, <2>5, MovedCounts
<1>13. Urb!CountInv'
  <2>1. ASSUME reapAction = "NORMAL", mem
        PROVE  /\ Urb!Queued' = (retired + Len(ready') + 1)..Urb!Given'
               /\ \A k \in 1..Len(ready') : ready'[k] = retired + k
    <3>1. /\ Urb!Queued = (retired + r + 1)..Urb!Given /\ \A k \in 1..r : ready[k] = retired + k
          /\ Urb!Cardinality(Urb!Queued) + r + retired = Urb!Given
      BY <2>1 DEF Urb!IndInv, Urb!CountInv
    <3>2. Urb!Given \in Nat /\ Urb!Given' = Urb!Given
      BY <1>1, <1>3 DEF Urb!Given
    <3>3. lo <= hi => lo = retired + r + 1
      <4>1. lo..hi = (retired + r + 1)..Urb!Given
        BY <1>2, <3>1
      <4> QED
        BY <1>3, <1>4, <3>2, <4>1, SameInterval
    <3>4. (retired + Len(ready') + 1)..Urb!Given = {}
      BY <1>2, <1>3, <1>4, <1>7, <3>1, <3>2
    <3>5. ASSUME NEW k \in 1..Len(ready') PROVE ready'[k] = retired + k
      <4>1. CASE k \in 1..r
        BY <1>7, <3>1, <4>1
      <4>2. CASE k \notin 1..r
        <5>1. k - r \in 1..(hi - lo + 1) /\ r + (k - r) = k
          BY <1>2, <1>3, <1>4, <1>7, <4>2
        <5>2. ready'[r + (k - r)] = lo + (k - r) - 1
          BY <1>7, <5>1
        <5>3. lo + (k - r) - 1 = retired + k
          BY <1>3, <1>4, <3>3, <5>1
        <5> QED
          BY <5>1, <5>2, <5>3
      <4> QED
        BY <4>1, <4>2
    <3> QED
      BY <1>8, <3>2, <3>4, <3>5
  <2>2. ASSUME ~mem PROVE ready' = <<>>
    <3>1. lo..hi = {} /\ r = 0
      BY <1>2, <2>2 DEF Urb!IndInv, Urb!CountInv
    <3>2. ~(lo <= hi)
      BY <1>4, <3>1
    <3>3. Len(ready') = 0
      BY <1>2, <1>4, <1>7, <3>1, <3>2
    <3> QED
      BY <1>7, <3>3, EmptySeq
  <2> QED
    BY <1>1, <1>8, <1>12, <2>1, <2>2 DEF Urb!CountInv
<1>14. Urb!UrbInv'
  <2>1. \A j \in lo..hi : urb[j].st # "none"
    BY <1>2 DEF Urb!Queued
  <2>2. "gone" \notin Faults
    BY KindsAssumption
  <2>3. ASSUME NEW j \in Urb!Urbs
        PROVE  /\ urb'[j].st # "none" => j <= n /\ (sub > 0 => j < sub)
               /\ urb'[j].status \in Faults => kind \in FaultyKinds /\ (kind = "bulkcont" => refuse)
               /\ urb'[j].status = "overflow" => j = n
    <3>1. /\ urb[j].st # "none" => j <= n /\ (sub > 0 => j < sub)
          /\ urb[j].status \in Faults => kind \in FaultyKinds /\ (kind = "bulkcont" => refuse)
          /\ urb[j].status = "overflow" => j = n
      BY DEF Urb!IndInv, Urb!UrbInv
    <3> QED
      BY <1>5, <1>6, <2>1, <2>2, <3>1
  <2> QED
    BY <1>1, <1>8, <2>3 DEF Urb!IndInv, Urb!UrbInv
<1>15. Urb!OtherTypes'
  BY <1>1 DEF Urb!IndInv, Urb!OtherTypes
<1>16. Urb!RefInv'
  BY RefUnplug DEF Urb!IndInv
<1> QED
  BY <1>9, <1>11, <1>12, <1>13, <1>14, <1>15, <1>16 DEF Urb!IndInv

LEMMA IndDiscardUrb ==
  ASSUME Urb!IndInv, NEW len \in 0..UrbLen, Urb!DiscardUrb(len)
  PROVE  Urb!IndInv'
<1> DEFINE r == Len(ready)
           i == disc[2]
<1>1. /\ Urb!Discarding
      /\ disc' = IF i > disc[1] THEN <<disc[1], i - 1>> ELSE Urb!NoDisc
      /\ lock' = IF i > disc[1] THEN lock ELSE "free"
      /\ UNCHANGED <<kind, n, refuse, plugged, polled, mem, reapAction, retired, reapStatus, isoSlots,
                     transferred, sub, result>>
  BY DEF Urb!DiscardUrb, Urb!tprivVars, Urb!devVars
<1>2. PICK lo \in 1..(MaxUrbs + 1), hi \in 0..MaxUrbs :
           /\ Urb!Queued = lo..hi /\ lo <= hi + 1
           /\ sub > 0 => hi = sub - 1
           /\ Urb!Discarding => lo > hi \/ hi <= disc[2]
           /\ Urb!Cardinality(Urb!Queued) = hi - lo + 1
  BY Window
<1>3. /\ n \in Nat /\ sub \in 0..n /\ retired \in Nat /\ ready \in Seq(Urb!Urbs) /\ r \in Nat
      /\ sent \in Nat /\ MaxUrbs \in Nat /\ UrbLen \in Nat /\ disc[1] \in Nat /\ i \in Nat
  BY UrbFacts
<1>4. lo \in Nat /\ hi \in Nat /\ 1 <= lo /\ hi <= MaxUrbs
  BY <1>3
<1>5. sub = 0
  BY <1>1 DEF Urb!IndInv, Urb!RefInv, Urb!LockInv
<1>6. Urb!Discarding' => disc'[2] = i - 1
  <2>1. CASE i > disc[1]
    BY <1>1, <2>1
  <2>2. CASE ~(i > disc[1])
    BY <1>1, <2>2 DEF Urb!NoDisc, Urb!Discarding
  <2> QED
    BY <2>1, <2>2
<1>7. lock' \in {"free", "submit", "cancel", "reap"}
  BY <1>1 DEF Urb!IndInv, Urb!OtherTypes
<1> HIDE DEF i
<1>8. Urb!RefInv'
  BY RefDiscardUrb DEF Urb!IndInv
<1>9. CASE i \notin Urb!Queued
  <2>1. UNCHANGED <<urb, ready, sent>>
    BY <1>9 DEF Urb!DiscardUrb, i
  <2>2. Urb!Queued' = Urb!Queued
    BY <2>1 DEF Urb!Queued
  <2>3. Urb!IntervalInv'
    <3>1. Urb!Discarding' => lo > hi \/ hi <= disc'[2]
      <4> SUFFICES ASSUME Urb!Discarding', lo <= hi PROVE hi <= i - 1
        BY <1>4, <1>6
      <4>1. hi <= i /\ i \notin lo..hi
        BY <1>1, <1>2, <1>4, <1>9 DEF i
      <4> QED
        BY <1>3, <1>4, <4>1
    <3> QED
      BY <1>1, <1>2, <2>2, <3>1 DEF Urb!IntervalInv
  <2>4. Urb!CountInv' /\ Urb!LengthInv'
    <3>1. Urb!Given' = Urb!Given /\ Urb!Unsent' = Urb!Unsent /\ Urb!Units' = Urb!Units
      BY <1>1 DEF Urb!Given, Urb!Unsent, Urb!Units
    <3>2. mem /\ reapAction = "NORMAL" => Urb!Queued = {}
      BY <1>1 DEF Urb!IndInv, Urb!CountInv
    <3>3. Urb!CountInv'
      BY <1>1, <2>1, <2>2, <3>1, <3>2 DEF Urb!IndInv, Urb!CountInv
    <3>4. Urb!LengthInv'
      BY <1>1, <2>1, <2>2, <3>1 DEF Urb!IndInv, Urb!LengthInv
    <3> QED
      BY <3>3, <3>4
  <2>5. Urb!ReadyInv' /\ Urb!UrbInv' /\ Urb!OtherTypes'
    BY <1>1, <1>7, <2>1, <2>2 DEF Urb!IndInv, Urb!ReadyInv, Urb!UrbInv, Urb!OtherTypes
  <2> QED
    BY <1>8, <2>3, <2>4, <2>5 DEF Urb!IndInv
<1>10. CASE i \in Urb!Queued
  <2>1. Urb!Complete(i, "cancelled", len, {})
    BY <1>10 DEF Urb!DiscardUrb, i
  <2>2. i = hi /\ lo <= hi /\ len \in Nat
    BY <1>1, <1>2, <1>3, <1>4, <1>10 DEF i
  <2>3. mem /\ reapAction # "NORMAL"
    BY <1>1, <1>10 DEF Urb!IndInv, Urb!CountInv
  <2>4. Urb!Complete(i, "cancelled", len, (i + 1)..i) /\ i..i \subseteq Urb!Queued
    <3>1. (i + 1)..i = {} /\ i..i = {i}
      BY <1>3
    <3> QED
      BY <1>10, <2>1, <3>1
  <2>5. Urb!FlagTypes /\ Urb!ReadyInv
    BY DEF Urb!IndInv, Urb!RefInv
  <2>6. /\ \A j \in Urb!Urbs : urb'[j].st = IF j \in i..i THEN "done" ELSE urb[j].st
        /\ \A j \in Urb!Urbs : urb'[j].status = IF j = i THEN "cancelled"
               ELSE IF j \in i..i THEN "cancelled" ELSE urb[j].status
        /\ \A j \in Urb!Urbs : urb'[j].len = IF j = i THEN len
               ELSE IF j \in i..i THEN 0 ELSE urb[j].len
        /\ Len(ready') = r + (i - i + 1)
        /\ \A k \in 1..r : ready'[k] = ready[k]
        /\ \A k \in 1..(i - i + 1) : ready'[r + k] = i + k - 1
        /\ Urb!Queued' = Urb!Queued \ (i..i)
    <3>1. i <= i
      BY <1>3
    <3> QED
      BY <1>3, <2>4, <2>5, <3>1, CompleteEffect
  <2>7. hi - 1 \in Nat /\ lo <= (hi - 1) + 1 /\ hi - 1 \in 0..MaxUrbs
    BY <1>3, <1>4, <2>2
  <2>8. Urb!Queued' = lo..(hi - 1)
    <3>1. (lo..hi) \ (hi..hi) = lo..(hi - 1)
      BY <1>4, <2>2
    <3> QED
      BY <1>2, <2>2, <2>6, <3>1
  <2>9. Urb!ReadyInv'
    <3>1. mem' /\ i <= i + 1
      BY <1>1, <1>3, <2>3
    <3> QED
      BY <1>3, <2>3, <2>4, <2>5, <2>6, <3>1, Moves
  <2>10. Urb!IntervalInv'
    <3>1. /\ sub' > 0 => hi - 1 = sub' - 1
          /\ Urb!Discarding' => lo > hi - 1 \/ hi - 1 <= disc'[2]
      BY <1>1, <1>4, <1>5, <1>6, <2>2
    <3> QED
      BY <2>7, <2>8, <3>1 DEF Urb!IntervalInv
  <2>11. /\ mem => Urb!Cardinality(Urb!Queued') + Len(ready') + retired' = Urb!Given'
         /\ Urb!LengthInv'
    <3> DEFINE c == (hi - 1) - lo + 1
    <3>1. c \in Nat /\ hi - lo + 1 = c + 1 /\ i - i + 1 = 1
      BY <1>3, <1>4, <2>2, <2>7
    <3>2. Urb!Cardinality(Urb!Queued') = c
      BY <1>4, <2>7, <2>8, IntervalSize
    <3>3. sent' = sent + len
      BY <2>1 DEF Urb!Complete
    <3>4. Len(ready') = Len(ready) + 1
      BY <2>6, <3>1
    <3>5. Urb!Cardinality(Urb!Queued) = c + 1
      BY <1>2, <3>1
    <3>6. len <= 1 * UrbLen
      BY <1>3
    <3> HIDE DEF c
    <3> QED
      BY <1>1, <2>2, <3>1, <3>2, <3>3, <3>4, <3>5, <3>6, MovedCounts
  <2>12. Urb!CountInv'
    BY <1>1, <2>3, <2>11 DEF Urb!CountInv
  <2>13. Urb!UrbInv'
    <3>1. \A j \in Urb!Urbs : urb'[j].st # "none" => urb[j].st # "none"
      <4>1. urb[i].st # "none" /\ i..i = {i}
        BY <1>3, <1>10 DEF Urb!Queued
      <4> QED
        BY <2>6, <4>1
    <3>2. \A j \in Urb!Urbs : urb'[j].status \in {"cancelled", urb[j].status}
      BY <2>6
    <3>3. "cancelled" \notin Faults
      BY KindsAssumption
    <3>4. Urb!Queued' \subseteq Urb!Queued
      BY <2>6
    <3>5. ~plugged' \/ refuse' => Urb!Queued' = {}
      BY <1>1, <3>4 DEF Urb!IndInv, Urb!UrbInv
    <3>6. ASSUME NEW j \in Urb!Urbs
          PROVE  /\ urb'[j].st # "none" => j <= n /\ (sub > 0 => j < sub)
                 /\ urb'[j].status \in Faults => kind \in FaultyKinds /\ (kind = "bulkcont" => refuse)
                 /\ urb'[j].status = "overflow" => j = n
                 /\ urb'[j].status = "gone" => ~plugged
      BY <3>1, <3>2, <3>3 DEF Urb!IndInv, Urb!UrbInv
    <3> QED
      BY <1>1, <3>5, <3>6 DEF Urb!IndInv, Urb!UrbInv
  <2>14. Urb!OtherTypes'
    <3>1. sent' \in Nat
      BY <1>3, <2>1, <2>2 DEF Urb!Complete
    <3> QED
      BY <1>1, <1>7, <3>1 DEF Urb!IndInv, Urb!OtherTypes
  <2> QED
    BY <1>8, <2>9, <2>10, <2>11, <2>12, <2>13, <2>14 DEF Urb!IndInv
<1> QED
  BY <1>9, <1>10

\* The URB that is reaped ends the transfer only if it is the last one outstanding,
\* and as long as nothing has failed the others are discarded only if the kernel
\* has none.  This is where an error of a bulk transfer without continuation is
\* excluded.
LEMMA ReapedLast ==
  ASSUME Urb!IndInv, Urb!ReapForHandle, "bulk" \notin FaultyKinds
  PROVE  /\ retired + Len(ready) + Urb!Cardinality(Urb!Queued) = n
         /\ Len(ready) >= 1 /\ Urb!Cardinality(Urb!Queued) \in Nat
         /\ mem' = FALSE => retired + 1 = n
         /\ reapAction' = "NORMAL" => reapAction = "NORMAL" /\ (disc' = disc \/ Urb!Queued = {})
         /\ reapAction' \in Urb!ReapActions
         /\ isoSlots' \in {isoSlots, Append(isoSlots, Head(ready))}
         /\ transferred' \in {transferred, transferred + urb[Head(ready)].len}
<1> DEFINE i == Head(ready)
           r == Len(ready)
           c == Urb!Cardinality(Urb!Queued)
<1>1. /\ ev = "idle" /\ lock = "free" /\ ready # <<>> /\ mem /\ Urb!HandleCompletion(i)
  BY DEF Urb!ReapForHandle
<1>2. /\ n \in Nat /\ 1 <= n /\ retired \in Nat /\ r \in Nat /\ ready \in Seq(Urb!Urbs) /\ sub \in 0..n
      /\ MaxUrbs \in Nat
  BY UrbFacts
<1>3. r >= 1 /\ i = ready[1] /\ i \in Urb!Urbs
  <2>1. r # 0
    BY <1>1, <1>2, EmptySeq
  <2> QED
    BY <1>1, <1>2, <2>1, HeadTailProperties
<1>4. c \in Nat
  <2>1. PICK lo \in 1..(MaxUrbs + 1), hi \in 0..MaxUrbs : lo <= hi + 1 /\ c = hi - lo + 1
    BY Window
  <2> QED
    BY <1>2, <2>1
<1>5. sub = 0
  BY <1>1, <1>2 DEF Urb!IndInv, Urb!RefInv, Urb!LockInv
<1>6. retired + r + c = n
  <2>1. c + r + retired = Urb!Given /\ Urb!Given = n
    BY <1>1, <1>5 DEF Urb!IndInv, Urb!CountInv, Urb!Given
  <2> HIDE DEF c, r
  <2> QED
    BY <1>2, <1>4, <2>1
<1>7. reapAction = "NORMAL" => i = retired + 1
  BY <1>1, <1>2, <1>3 DEF Urb!IndInv, Urb!CountInv
<1>8. /\ kind \in {"bulk", "bulkcont", "interrupt", "iso", "control"}
      /\ reapAction \in Urb!ReapActions /\ urb[i].status \in Urb!UrbStatus
      /\ kind = "control" => n = 1
      /\ kind = "interrupt" => n = 1
      /\ ~plugged \/ refuse => Urb!Queued = {}
      /\ urb[i].status \in Faults => kind \in FaultyKinds /\ (kind = "bulkcont" => refuse)
      /\ urb[i].status = "overflow" => i = n
      /\ urb[i].status = "gone" => ~plugged
  <2>1. /\ urb[i].status \in Faults => kind \in FaultyKinds /\ (kind = "bulkcont" => refuse)
        /\ urb[i].status = "overflow" => i = n
        /\ urb[i].status = "gone" => ~plugged
        /\ ~plugged \/ refuse => Urb!Queued = {}
        /\ kind = "interrupt" => n = 1
    BY <1>3 DEF Urb!IndInv, Urb!UrbInv
  <2>2. reapAction \in Urb!ReapActions
    BY DEF Urb!IndInv, Urb!OtherTypes
  <2>3. urb[i].status \in Urb!UrbStatus /\ (kind = "control" => n = 1)
    BY <1>3 DEF Urb!IndInv, Urb!RefInv, Urb!FlagTypes, Urb!ControlInv
  <2>4. kind \in {"bulk", "bulkcont", "interrupt", "iso", "control"}
    BY <1>1, KindsAssumption DEF Urb!IndInv, Urb!RefInv, Urb!ReportInv
  <2> QED
    BY <2>1, <2>2, <2>3, <2>4
<1> HIDE DEF i, r, c
<1>9. /\ mem' = FALSE => retired + 1 = n
      /\ reapAction' = "NORMAL" => reapAction = "NORMAL" /\ (disc' = disc \/ Urb!Queued = {})
      /\ reapAction' \in Urb!ReapActions
      /\ isoSlots' \in {isoSlots, Append(isoSlots, i)}
      /\ transferred' \in {transferred, transferred + urb[i].len}
  <2>1. CASE kind \in {"bulk", "bulkcont", "interrupt"}
    <3>1. Urb!BulkAbnormal(i) \/ Urb!BulkNormal(i)
      BY <1>1, <2>1 DEF Urb!HandleCompletion
    <3>2. CASE Urb!BulkAbnormal(i)
      <4>1. /\ reapAction # "NORMAL" /\ reapAction' = reapAction /\ isoSlots' = isoSlots
            /\ transferred' = transferred + urb[i].len
        BY <3>2 DEF Urb!BulkAbnormal
      <4>2. mem' = FALSE => retired + 1 = n
        BY <1>1, <3>2 DEF Urb!BulkAbnormal, Urb!AllRetired, Urb!KeepWaiting
      <4> QED
        BY <1>8, <4>1, <4>2
    <3>3. CASE Urb!BulkNormal(i)
      <4> DEFINE s == urb[i].status
                 short == s \in {"ok", "short", "cancelled"} /\ urb[i].len < UrbLen /\ i < n
      <4>1. /\ reapAction = "NORMAL" /\ isoSlots' = isoSlots
            /\ transferred' = transferred + urb[i].len
            /\ reapAction' = IF s = "error" THEN "ERROR"
                             ELSE IF short THEN "COMPLETED_EARLY" ELSE "NORMAL"
            /\ IF s = "overflow" \/ (s \in {"ok", "short", "cancelled"} /\ i = n) THEN Urb!FinishBulk
               ELSE IF short \/ s \in {"gone", "stall", "error"}
                 THEN IF retired + 1 = n THEN Urb!FinishBulk ELSE Urb!CancelRemaining(i)
               ELSE Urb!KeepWaiting
        BY <3>3 DEF Urb!BulkNormal
      <4>2. reapAction' \in Urb!ReapActions
        BY <4>1 DEF Urb!ReapActions
      <4>3. s = "stall" => s \in Faults
        BY <1>8 DEF Urb!UrbStatus
      <4>4. /\ s \in Faults => kind \in FaultyKinds /\ (kind = "bulkcont" => refuse)
            /\ s = "overflow" => i = n
            /\ s = "gone" => ~plugged
        BY <1>8
      <4> HIDE DEF s, short
      <4>5. mem' = FALSE => retired + 1 = n
        <5>1. CASE s = "overflow" \/ (s \in {"ok", "short", "cancelled"} /\ i = n)
          BY <1>7, <4>1, <4>4, <5>1
        <5>2. CASE ~(s = "overflow" \/ (s \in {"ok", "short", "cancelled"} /\ i = n))
          BY <1>1, <4>1, <5>2 DEF Urb!CancelRemaining, Urb!KeepWaiting
        <5> QED
          BY <5>1, <5>2
      <4>6. reapAction' = "NORMAL" => disc' = disc \/ Urb!Queued = {}
        <5> SUFFICES ASSUME reapAction' = "NORMAL", disc' # disc PROVE Urb!Queued = {}
          OBVIOUS
        <5>1. s # "error" /\ ~short
          BY <4>1
        <5>2. s \in {"gone", "stall"} /\ i < n
          BY <4>1, <5>1 DEF Urb!FinishBulk, Urb!Finish, Urb!CancelRemaining, Urb!KeepWaiting
        <5>3. CASE s = "gone"
          BY <1>8, <4>4, <5>3
        <5>4. CASE s = "stall"
          <6>1. kind \in FaultyKinds /\ (kind = "bulkcont" => refuse)
            BY <4>3, <4>4, <5>4
          <6>2. n # 1
            BY <1>2, <1>3, <5>2 DEF Urb!Urbs
          <6>3. kind = "bulkcont"
            BY <1>8, <2>1, <6>1, <6>2
          <6> QED
            BY <1>8, <6>1, <6>3
        <5> QED
          BY <5>2, <5>3, <5>4
      <4> QED
        BY <4>1, <4>2, <4>5, <4>6
    <3> QED
      BY <3>1, <3>2, <3>3
  <2>2. CASE kind = "iso"
    <3>1. Urb!IsoCompletion(i)
      BY <1>1, <2>2 DEF Urb!HandleCompletion
    <3>2. /\ reapAction' = reapAction /\ isoSlots' = Append(isoSlots, i) /\ transferred' = transferred
          /\ disc' = disc
      BY <3>1 DEF Urb!IsoCompletion, Urb!NextSlots, Urb!FinishHeld, Urb!Finish, Urb!KeepWaiting
    <3>3. mem' = FALSE => retired + 1 = n
      BY <1>1, <1>7, <3>1 DEF Urb!IsoCompletion, Urb!AllRetired, Urb!KeepWaiting
    <3> QED
      BY <1>8, <3>2, <3>3
  <2>3. CASE kind = "control"
    <3>1. Urb!ControlCompletion(i)
      BY <1>1, <2>3 DEF Urb!HandleCompletion
    <3>2. /\ reapAction' = reapAction /\ isoSlots' = isoSlots /\ transferred' = transferred + urb[i].len
          /\ disc' = disc
      BY <3>1 DEF Urb!ControlCompletion, Urb!FinishHeld, Urb!Finish
    <3>3. n = 1
      BY <1>8, <2>3
    <3>4. retired + 1 = n
      BY <1>2, <1>3, <1>4, <1>6, <3>3
    <3> QED
      BY <1>8, <3>2, <3>4
  <2> QED
    BY <1>8, <2>1, <2>2, <2>3
<1> QED
  BY <1>3, <1>4, <1>6, <1>9 DEF i, r, c

LEMMA IndReapForHandle ==
  ASSUME Urb!IndInv, Urb!ReapForHandle, "bulk" \notin FaultyKinds
  PROVE  Urb!IndInv'
<1> DEFINE i == Head(ready)
           r == Len(ready)
           c == Urb!Cardinality(Urb!Queued)
           R == [st : {"none", "queued", "done", "reaped"}, status : Urb!UrbStatus, len : 0..UrbLen]
<1>1. /\ ev = "idle" /\ lock = "free" /\ ready # <<>> /\ mem
      /\ urb' = [urb EXCEPT ![i].st = "reaped"] /\ ready' = Tail(ready)
      /\ retired' = retired + 1
      /\ UNCHANGED <<kind, n, refuse, sent, plugged, polled, sub, result>>
  BY DEF Urb!ReapForHandle, Urb!devVars
<1>2. /\ n \in Nat /\ 1 <= n /\ n <= MaxUrbs /\ retired \in Nat /\ r \in Nat /\ ready \in Seq(Urb!Urbs)
      /\ sub \in 0..n /\ MaxUrbs \in Nat /\ UrbLen \in Nat /\ sent \in Nat /\ transferred \in Nat
  BY UrbFacts
<1>3. /\ retired + r + c = n /\ r >= 1 /\ c \in Nat
      /\ mem' = FALSE => retired + 1 = n
      /\ reapAction' = "NORMAL" => reapAction = "NORMAL" /\ (disc' = disc \/ Urb!Queued = {})
      /\ reapAction' \in Urb!ReapActions
      /\ isoSlots' \in {isoSlots, Append(isoSlots, i)}
      /\ transferred' \in {transferred, transferred + urb[i].len}
  BY ReapedLast
<1>4. sub = 0 /\ ~Urb!Discarding
  BY <1>1, <1>2 DEF Urb!IndInv, Urb!RefInv, Urb!LockInv
<1>5. /\ i = ready[1] /\ i \in Urb!Urbs /\ ready' \in Seq(Urb!Urbs) /\ Len(ready') = r - 1
      /\ \A k \in 1..(r - 1) : ready'[k] = ready[k + 1]
  BY <1>1, <1>2, HeadTailProperties
<1> HIDE DEF i, r, c
<1>6. urb \in [Urb!Urbs -> R]
  BY DEF Urb!IndInv, Urb!RefInv, Urb!FlagTypes
<1>7. /\ \A j \in Urb!Urbs : urb'[j].status = urb[j].status
      /\ \A j \in Urb!Urbs : urb'[j].st = IF j = i THEN "reaped" ELSE urb[j].st
      /\ urb[i].len \in Nat /\ urb[i].len <= UrbLen
  BY <1>1, <1>2, <1>5, <1>6, SMTT(30)
<1>8. /\ \A k, l \in 1..r : k # l => ready[k] # ready[l]
      /\ \A j \in Urb!Urbs : urb[j].st = "done" <=> \E k \in 1..r : ready[k] = j
  BY <1>1 DEF Urb!IndInv, Urb!ReadyInv, r
<1>9. urb[i].st = "done"
  <2>1. 1 \in 1..r
    BY <1>2, <1>3
  <2> QED
    BY <1>5, <1>8, <2>1
<1>10. Urb!Queued' = Urb!Queued
  BY <1>7, <1>9 DEF Urb!Queued
<1>11. Urb!ReadyInv'
  <2>1. \A k \in 1..(r - 1) : k + 1 \in 1..r /\ k + 1 # 1
    BY <1>2
  <2>2. \A k \in 1..r : k = 1 \/ k - 1 \in 1..(r - 1)
    BY <1>2
  <2>3. ASSUME NEW k \in 1..(r - 1), NEW l \in 1..(r - 1), k # l PROVE ready'[k] # ready'[l]
    <3>1. k + 1 # l + 1
      BY <2>3
    <3> QED
      BY <1>5, <1>8, <2>1, <3>1
  <2>4. ASSUME NEW j \in Urb!Urbs PROVE urb'[j].st = "done" <=> \E k \in 1..(r - 1) : ready'[k] = j
    <3>1. CASE j = i
      <4>1. \A k \in 1..(r - 1) : ready'[k] # j
        <5>1. 1 \in 1..r
          BY <1>2, <1>3
        <5> QED
          BY <1>5, <1>8, <2>1, <3>1, <5>1
      <4> QED
        BY <1>7, <3>1, <4>1
    <3>2. CASE j # i
      <4>1. urb'[j].st = "done" <=> \E k \in 1..r : ready[k] = j
        BY <1>7, <1>8, <3>2
      <4>2. (\E k \in 1..(r - 1) : ready'[k] = j) => \E k \in 1..r : ready[k] = j
        BY <1>5, <2>1
      <4>3. ASSUME NEW k \in 1..r, ready[k] = j PROVE \E l \in 1..(r - 1) : ready'[l] = j
        <5>1. k # 1
          BY <1>5, <3>2, <4>3
        <5>2. k - 1 \in 1..(r - 1) /\ (k - 1) + 1 = k
          BY <1>2, <2>2, <5>1
        <5>3. ready'[k - 1] = j
          BY <1>5, <4>3, <5>2
        <5> QED
          BY <5>2, <5>3
      <4> QED
        BY <4>1, <4>2, <4>3
    <3> QED
      BY <3>1, <3>2
  <2> QED
    BY <1>5, <2>3, <2>4 DEF Urb!ReadyInv
<1>12. PICK lo \in 1..(MaxUrbs + 1), hi \in 0..MaxUrbs :
           /\ Urb!Queued = lo..hi /\ lo <= hi + 1
           /\ c = hi - lo + 1
  BY Window DEF c
<1>13. lo \in Nat /\ hi \in Nat
  BY <1>2
<1>14. c = 0 => Urb!Queued = {}
  <2>1. c = 0 => lo..hi = {}
    BY <1>12, <1>13
  <2> QED
    BY <1>12, <2>1
<1>15. Urb!IntervalInv'
  <2>1. Urb!Discarding' => lo > hi \/ hi <= disc'[2]
    <3> SUFFICES ASSUME Urb!Discarding', lo <= hi PROVE hi <= disc'[2]
      BY <1>13
    <3>1. disc' # disc
      BY <1>4 DEF Urb!Discarding
    <3>2. PICK k \in Urb!Urbs : disc' = <<k + 1, n>>
      BY <3>1, Reaped DEF Urb!IndInv
    <3>3. hi \in Urb!Queued
      BY <1>12, <1>13
    <3>4. hi <= n
      BY <3>3 DEF Urb!IndInv, Urb!UrbInv, Urb!Queued
    <3> QED
      BY <3>2, <3>4
  <2> QED
    BY <1>1, <1>4, <1>10, <1>12, <2>1 DEF Urb!IntervalInv
<1>16. Urb!Given' = n /\ Urb!Unsent' = 0 /\ Urb!Unsent = 0 /\ Urb!Given = n /\ Urb!Cardinality(Urb!Queued') = c
  BY <1>1, <1>4, <1>10 DEF Urb!Given, Urb!Unsent, c
<1>17. mem' \in BOOLEAN
  BY <1>1, Reaped DEF Urb!IndInv
<1>18. Urb!CountInv'
  <2>1. Urb!Cardinality(Urb!Queued') + Len(ready') + retired' = Urb!Given'
    BY <1>1, <1>2, <1>3, <1>5, <1>16, SMTT(30)
  <2>2. ASSUME ~mem' PROVE Urb!Queued' = {} /\ ready' = <<>>
    <3>1. retired + 1 = n
      BY <1>3, <1>17, <2>2
    <3>2. c = 0 /\ Len(ready') = 0
      BY <1>2, <1>3, <1>5, <3>1
    <3> QED
      BY <1>5, <1>10, <1>14, <3>2, EmptySeq
  <2>3. ASSUME reapAction' = "NORMAL"
        PROVE  /\ Urb!Queued' = (retired' + Len(ready') + 1)..Urb!Given'
               /\ \A k \in 1..Len(ready') : ready'[k] = retired' + k
               /\ Urb!Discarding' => Urb!Queued' = {}
    <3>1. /\ Urb!Queued = (retired + r + 1)..Urb!Given
          /\ \A k \in 1..r : ready[k] = retired + k
      BY <1>1, <1>3, <2>3 DEF Urb!IndInv, Urb!CountInv, r
    <3>2. retired' + Len(ready') + 1 = retired + r + 1
      BY <1>1, <1>2, <1>5
    <3>3. ASSUME NEW k \in 1..Len(ready') PROVE ready'[k] = retired' + k
      <4>1. k \in 1..(r - 1) /\ k + 1 \in 1..r
        BY <1>2, <1>5
      <4>2. ready'[k] = retired + (k + 1)
        BY <1>5, <3>1, <4>1
      <4> QED
        BY <1>1, <1>2, <4>1, <4>2
    <3>4. Urb!Discarding' => Urb!Queued' = {}
      BY <1>3, <1>4, <1>10, <2>3 DEF Urb!Discarding
    <3> QED
      BY <1>10, <1>16, <3>1, <3>2, <3>3, <3>4
  <2> QED
    BY <2>1, <2>2, <2>3 DEF Urb!CountInv
<1>19. Urb!UrbInv'
  <2>1. \A j \in Urb!Urbs : urb'[j].st # "none" => urb[j].st # "none"
    BY <1>7, <1>9
  <2> QED
    BY <1>1, <1>7, <1>10, <2>1 DEF Urb!IndInv, Urb!UrbInv
<1>20. transferred' \in Nat /\ Urb!LengthInv'
  <2>1. /\ sent + (c + 0) * UrbLen <= Urb!Units
        /\ transferred + (r + c + 0) * UrbLen <= Urb!Units
    BY <1>16 DEF Urb!IndInv, Urb!LengthInv, c, r
  <2>2. transferred' \in Nat /\ transferred' <= transferred + UrbLen
    BY <1>2, <1>3, <1>7
  <2>3. (r + c + 0) * UrbLen = (r - 1 + c + 0) * UrbLen + UrbLen /\ (r - 1 + c + 0) * UrbLen \in Nat
    <3>1. r - 1 + c \in Nat /\ r + c + 0 = (r - 1 + c) + 1 /\ r - 1 + c + 0 = r - 1 + c
      BY <1>2, <1>3
    <3>2. ((r - 1 + c) + 1) * UrbLen = (r - 1 + c) * UrbLen + 1 * UrbLen /\ (r - 1 + c) * UrbLen \in Nat
      BY <1>2, <3>1, Products
    <3>3. 1 * UrbLen = UrbLen
      BY <1>2
    <3> QED
      BY <3>1, <3>2, <3>3
  <2>4. Urb!Units \in Nat /\ Urb!Units' = Urb!Units
    BY <1>2 DEF Urb!Units
  <2>5. transferred' + (r - 1 + c + 0) * UrbLen <= Urb!Units
    BY <1>2, <2>1, <2>2, <2>3, <2>4
  <2> QED
    BY <1>1, <1>5, <1>16, <2>1, <2>2, <2>4, <2>5 DEF Urb!LengthInv
<1>21. Urb!OtherTypes'
  <2>1. retired' \in 0..n
    BY <1>1, <1>2, <1>3, SMTT(30)
  <2>2. isoSlots' \in Seq(Urb!Urbs)
    <3>1. isoSlots \in Seq(Urb!Urbs)
      BY DEF Urb!IndInv, Urb!OtherTypes
    <3>2. Append(isoSlots, i) \in Seq(Urb!Urbs)
      BY <1>5, <3>1, AppendProperties
    <3> QED
      BY <1>3, <3>1, <3>2
  <2>3. lock' \in {"free", "submit", "cancel", "reap"}
    BY Reaped DEF Urb!IndInv
  <2> QED
    BY <1>1, <1>3, <1>20, <2>1, <2>2, <2>3 DEF Urb!IndInv, Urb!OtherTypes
<1>22. Urb!RefInv'
  BY RefReapForHandle DEF Urb!IndInv
<1> QED
  BY <1>11, <1>15, <1>18, <1>19, <1>20, <1>21, <1>22 DEF Urb!IndInv

\* What a step has to show that leaves the URBs, their counts and their lengths alone
LEMMA IndKept ==
  ASSUME Urb!IndInv, Urb!RefInv', Urb!OtherTypes',
         UNCHANGED <<kind, n, urb, ready, refuse, sent, plugged, mem, retired, transferred, sub>>,
         reapAction' = "NORMAL" => reapAction = "NORMAL" /\ disc' = disc,
         \A hi \in Urb!Queued : Urb!Discarding' => hi <= disc'[2]
  PROVE  Urb!IndInv'
<1>1. Urb!Queued' = Urb!Queued
  BY DEF Urb!Queued
<1>2. Urb!IntervalInv'
  <2>1. PICK lo \in 1..(MaxUrbs + 1), hi \in 0..MaxUrbs :
           /\ Urb!Queued = lo..hi /\ lo <= hi + 1
           /\ sub > 0 => hi = sub - 1
    BY Window
  <2>2. lo \in Nat /\ hi \in Nat
    BY KindsAssumption
  <2>3. Urb!Discarding' => lo > hi \/ hi <= disc'[2]
    <3>1. lo <= hi => hi \in Urb!Queued
      BY <2>1, <2>2
    <3>2. lo <= hi \/ lo > hi
      BY <2>2
    <3> QED
      BY <3>1, <3>2
  <2> QED
    BY <1>1, <2>1, <2>3 DEF Urb!IntervalInv
<1>3. Urb!Given' = Urb!Given /\ Urb!Unsent' = Urb!Unsent /\ Urb!Units' = Urb!Units
  BY DEF Urb!Given, Urb!Unsent, Urb!Units
<1>4. Urb!CountInv'
  <2>1. reapAction' = "NORMAL" => reapAction = "NORMAL" /\ (Urb!Discarding' <=> Urb!Discarding)
    BY DEF Urb!Discarding
  <2> QED
    BY <1>1, <1>3, <2>1 DEF Urb!IndInv, Urb!CountInv
<1>5. Urb!LengthInv'
  BY <1>1, <1>3 DEF Urb!IndInv, Urb!LengthInv
<1>6. Urb!ReadyInv' /\ Urb!UrbInv'
  BY <1>1 DEF Urb!IndInv, Urb!ReadyInv, Urb!UrbInv
<1> QED
  BY <1>2, <1>4, <1>5, <1>6 DEF Urb!IndInv

LEMMA IndCancelTransfer ==
  ASSUME Urb!IndInv, NEW timeout \in BOOLEAN, Urb!CancelTransfer(timeout)
  PROVE  Urb!IndInv'
<1>1. /\ lock = "free" /\ reapAction' = Urb!ActionOnCancel
      /\ UNCHANGED <<kind, n, urb, ready, refuse, sent, plugged, polled, mem, retired, isoSlots,
                     transferred, sub, result>>
      /\ \/ disc' = <<1, n>> /\ lock' = "cancel"
         \/ disc' = disc /\ lock' = lock
  BY DEF Urb!CancelTransfer, Urb!kernelVars, Urb!devVars, Urb!dataVars
<1>2. reapAction' \in {"ERROR", "CANCELLED"}
  BY <1>1 DEF Urb!ActionOnCancel
<1>3. Urb!OtherTypes'
  BY <1>1, <1>2 DEF Urb!IndInv, Urb!OtherTypes, Urb!ReapActions
<1>4. ASSUME NEW hi \in Urb!Queued, Urb!Discarding' PROVE hi <= disc'[2]
  <2>1. disc' # disc
    BY <1>1, <1>4 DEF Urb!IndInv, Urb!RefInv, Urb!LockInv, Urb!Discarding
  <2>2. disc'[2] = n
    BY <1>1, <2>1
  <2>3. hi <= n
    BY DEF Urb!IndInv, Urb!UrbInv, Urb!Queued
  <2> QED
    BY <2>2, <2>3
<1>5. Urb!RefInv'
  BY RefCancelTransfer DEF Urb!IndInv
<1> QED
  BY <1>1, <1>2, <1>3, <1>4, <1>5, IndKept

LEMMA IndReportTransfer ==
  ASSUME Urb!IndInv, Urb!ReportTransfer
  PROVE  Urb!IndInv'
<1>1. /\ ev # "idle"
      /\ result' = IF ev = "cancelled" \/ (ev = "report" /\ reapAction = "CANCELLED")
                   THEN Urb!CancellationStatus ELSE Urb!CompletionStatus(reapStatus)
      /\ UNCHANGED <<kind, n, urb, ready, refuse, sent, plugged, polled, mem, retired, isoSlots, reapAction,
                     transferred, lock, sub, disc>>
  BY DEF Urb!ReportTransfer, Urb!kernelVars, Urb!devVars, Urb!dataVars, Urb!tprivVars
<1>2. result' \in Urb!Status
  BY <1>1 DEF Urb!IndInv, Urb!RefInv, Urb!ReportInv, Urb!CancellationStatus, Urb!CompletionStatus, Urb!Status
<1>3. Urb!OtherTypes'
  BY <1>1, <1>2 DEF Urb!IndInv, Urb!OtherTypes
<1>4. ~mem
  BY <1>1 DEF Urb!IndInv, Urb!RefInv, Urb!ReportInv
<1>5. Urb!Queued = {}
  BY <1>4 DEF Urb!IndInv, Urb!CountInv
<1>6. Urb!RefInv'
  BY RefReportTransfer DEF Urb!IndInv
<1> QED
  BY <1>1, <1>3, <1>5, <1>6, IndKept

\* The kernel has no URB of the transfer any more, and none is in the queue.
LEMMA IndFreed ==
  ASSUME Urb!IndInv, Urb!RefInv', Urb!OtherTypes', ~mem', sub' = 0,
         Urb!Queued = {}, ready' = <<>>,
         UNCHANGED <<kind, n, urb, refuse, sent, plugged, transferred>>
  PROVE  Urb!IndInv'
<1>1. Urb!Queued' = {}
  BY DEF Urb!Queued
<1>2. 1 \in 1..(MaxUrbs + 1) /\ 0 \in 0..MaxUrbs /\ 1..0 = {} /\ 1 <= 0 + 1 /\ 1 > 0
  BY KindsAssumption
<1>3. Urb!IntervalInv'
  BY <1>1, <1>2 DEF Urb!IntervalInv
<1>4. Urb!CountInv' /\ Urb!ReadyInv'
  BY <1>1 DEF Urb!CountInv, Urb!ReadyInv
<1>5. Urb!UrbInv'
  BY <1>1 DEF Urb!IndInv, Urb!UrbInv
<1>6. Urb!LengthInv'
  <2>1. Urb!Unsent' = 0 /\ Urb!Units' = Urb!Units /\ Len(ready') = 0
    BY DEF Urb!Unsent, Urb!Units
  <2>2. Urb!Cardinality(Urb!Queued') = 0 /\ Urb!Cardinality(Urb!Queued) = 0
    BY <1>1, UrbSizes, FS_EmptySet
  <2>3. Urb!Unsent \in Nat /\ Len(ready) \in Nat /\ UrbLen \in Nat /\ sent \in Nat /\ transferred \in Nat
        /\ Urb!Units \in Nat
    BY UrbFacts DEF Urb!Unsent, Urb!Units
  <2>4. /\ sent + (0 + Urb!Unsent) * UrbLen <= Urb!Units
        /\ transferred + (Len(ready) + 0 + Urb!Unsent) * UrbLen <= Urb!Units
    BY <2>2 DEF Urb!IndInv, Urb!LengthInv
  <2>5. (0 + Urb!Unsent) * UrbLen \in Nat /\ (Len(ready) + 0 + Urb!Unsent) * UrbLen \in Nat
    <3>1. 0 + Urb!Unsent \in Nat /\ Len(ready) + 0 + Urb!Unsent \in Nat
      BY <2>3
    <3> QED
      BY <2>3, <3>1, Products
  <2>6. sent <= Urb!Units /\ transferred <= Urb!Units
    BY <2>3, <2>4, <2>5
  <2>7. (0 + 0) * UrbLen = 0 /\ (0 + 0 + 0) * UrbLen = 0
    BY <2>3
  <2> QED
    BY <2>1, <2>2, <2>3, <2>6, <2>7 DEF Urb!LengthInv
<1> QED
  BY <1>3, <1>4, <1>5, <1>6 DEF Urb!IndInv

LEMMA IndHandleDisconnect ==
  ASSUME Urb!IndInv, Urb!HandleDisconnect
  PROVE  Urb!IndInv'
<1>1. /\ lock = "free" /\ ~plugged /\ mem' = FALSE /\ ready' = <<>> /\ polled' = FALSE
      /\ result' = IF flying THEN "NO_DEVICE" ELSE result
      /\ UNCHANGED <<kind, n, urb, refuse, sent, plugged, reapAction, retired, isoSlots,
                     transferred, lock, sub>>
  BY DEF Urb!HandleDisconnect, Urb!dataVars
<1>2. Urb!OtherTypes'
  BY <1>1 DEF Urb!IndInv, Urb!OtherTypes, Urb!Status
<1>3. sub = 0
  BY <1>1, UrbFacts DEF Urb!IndInv, Urb!RefInv, Urb!LockInv
<1>4. Urb!Queued = {}
  BY <1>1 DEF Urb!IndInv, Urb!UrbInv
<1>5. Urb!RefInv'
  BY RefHandleDisconnect DEF Urb!IndInv
<1> QED
  BY <1>1, <1>2, <1>3, <1>4, <1>5, IndFreed

LEMMA IndFirstUrbFails ==
  ASSUME Urb!IndInv, Urb!FirstUrbFails
  PROVE  Urb!IndInv'
<1>1. /\ sub = 1 /\ mem' = FALSE /\ sub' = 0 /\ lock' = "free" /\ result' = "REFUSED"
      /\ UNCHANGED <<kind, n, urb, ready, refuse, sent, plugged, polled, reapAction, retired, isoSlots,
                     transferred>>
  BY DEF Urb!FirstUrbFails, Urb!dataVars, Urb!kernelVars, Urb!devVars
<1>2. Urb!OtherTypes'
  BY <1>1 DEF Urb!IndInv, Urb!OtherTypes
<1>3. PICK lo \in 1..(MaxUrbs + 1), hi \in 0..MaxUrbs :
           /\ Urb!Queued = lo..hi /\ lo <= hi + 1
           /\ sub > 0 => hi = sub - 1
           /\ Urb!Cardinality(Urb!Queued) = hi - lo + 1
  BY Window
<1>4. lo = 1 /\ hi = 0 /\ 1..0 = {}
  BY <1>1, <1>3, KindsAssumption
<1>5. Urb!Queued = {} /\ Urb!Cardinality(Urb!Queued) = 0
  BY <1>3, <1>4
<1>6. mem /\ Urb!Given = 0
  BY <1>1 DEF Urb!IndInv, Urb!RefInv, Urb!LockInv, Urb!Given
<1>7. 0 + Len(ready) + retired = 0
  BY <1>5, <1>6 DEF Urb!IndInv, Urb!CountInv
<1>8. ready \in Seq(Urb!Urbs) /\ Len(ready) \in Nat /\ retired \in 0..n /\ n \in Nat
  BY UrbFacts
<1>9. ready = <<>>
  BY <1>7, <1>8, EmptySeq
<1>10. Urb!RefInv'
  BY RefFirstUrbFails DEF Urb!IndInv
<1> QED
  BY <1>1, <1>2, <1>5, <1>9, <1>10, IndFreed

LEMMA IndSubmitTransfer ==
  ASSUME Urb!IndInv, Urb!SubmitTransfer
  PROVE  Urb!IndInv'
<1>1. /\ ~mem /\ lock = "free" /\ mem' = TRUE /\ kind' \in Kinds
      /\ n' \in IF kind' \in {"control", "interrupt"} THEN {1} ELSE Urb!Urbs
      /\ result' = "none" /\ transferred' = 0 /\ retired' = 0 /\ reapAction' = "NORMAL"
      /\ isoSlots' = <<>> /\ urb' = [i \in Urb!Urbs |-> Urb!NoUrb] /\ refuse' = FALSE /\ sent' = 0
      /\ lock' = "submit" /\ sub' = 1
      /\ UNCHANGED <<ready, plugged, polled, disc>>
  BY DEF Urb!SubmitTransfer, Urb!devVars
<1>2. Urb!RefInv'
  BY RefSubmitTransfer DEF Urb!IndInv
<1>3. n' \in Nat /\ 1 <= n' /\ n' <= MaxUrbs /\ MaxUrbs \in Nat /\ UrbLen \in Nat
  BY <1>2, KindsAssumption DEF Urb!RefInv, Urb!FlagTypes, Urb!Urbs
<1>4. Urb!OtherTypes'
  <2>1. isoSlots' \in Seq(Urb!Urbs) /\ retired' \in 0..n'
    BY <1>1, <1>3
  <2> QED
    BY <1>1, <2>1 DEF Urb!IndInv, Urb!OtherTypes, Urb!ReapActions
<1>5. ready' = <<>> /\ Len(ready') = 0
  BY <1>1 DEF Urb!IndInv, Urb!CountInv
<1>6. \A i \in Urb!Urbs : urb'[i].st = "none" /\ urb'[i].status = "ok"
  BY <1>1 DEF Urb!NoUrb
<1>7. Urb!Queued' = {} /\ Urb!Queued' = 1..0 /\ Urb!Cardinality(Urb!Queued') = 0
  <2>1. Urb!Queued' = {}
    BY <1>6 DEF Urb!Queued
  <2>2. 1..0 = {}
    OBVIOUS
  <2> QED
    BY <2>1, <2>2, UrbSizes, FS_EmptySet
<1>8. ~Urb!Discarding'
  BY <1>2, <1>1 DEF Urb!RefInv, Urb!LockInv
<1>9. Urb!IntervalInv'
  <2>1. 1 \in 1..(MaxUrbs + 1) /\ 0 \in 0..MaxUrbs /\ 1 <= 0 + 1 /\ 0 = sub' - 1
    BY <1>1, <1>3
  <2> QED
    BY <1>7, <1>8, <2>1 DEF Urb!IntervalInv
<1>10. Urb!Given' = 0 /\ Urb!Unsent' = n'
  <2>1. sub' = 1 /\ 1 > 0 /\ 1 - 1 = 0
    BY <1>1
  <2>2. n' - 1 + 1 = n'
    <3>1. \A x \in Nat : x - 1 + 1 = x
      OBVIOUS
    <3> QED
      BY <1>3, <3>1
  <2>3. Urb!Given' = 0
    BY <2>1 DEF Urb!Given
  <2>4. Urb!Unsent' = n'
    BY <2>1, <2>2 DEF Urb!Unsent
  <2> QED
    BY <2>3, <2>4
<1>11. Urb!CountInv'
  <2>1. 0 + 0 + 0 = 0 /\ (0 + 0 + 1)..0 = {} /\ 1..0 = {}
    OBVIOUS
  <2> QED
    BY <1>1, <1>5, <1>7, <1>8, <1>10, <2>1 DEF Urb!CountInv
<1>12. Urb!ReadyInv'
  <2>1. 1..0 = {}
    OBVIOUS
  <2> QED
    BY <1>5, <1>6, <2>1 DEF Urb!ReadyInv
<1>13. Urb!UrbInv'
  <2>1. "ok" \notin Faults
    BY KindsAssumption
  <2> QED
    BY <1>1, <1>6, <1>7, <2>1 DEF Urb!UrbInv
<1>14. Urb!LengthInv'
  <2>1. n' * UrbLen <= MaxUrbs * UrbLen /\ n' * UrbLen \in Nat
    BY <1>3, Products
  <2>2. \A x \in Nat : 0 + x = x /\ 0 + 0 + x = x
    OBVIOUS
  <2>3. 0 + n' = n' /\ 0 + 0 + n' = n'
    BY <1>3, <2>2
  <2>4. 0 + n' * UrbLen = n' * UrbLen
    BY <2>1, <2>2
  <2> QED
    BY <1>1, <1>5, <1>7, <1>10, <2>1, <2>3, <2>4 DEF Urb!LengthInv, Urb!Units
<1> QED
  BY <1>2, <1>4, <1>9, <1>11, <1>12, <1>13, <1>14 DEF Urb!IndInv

LEMMA IndSubmitUrb ==
  ASSUME Urb!IndInv, Urb!SubmitUrb
  PROVE  Urb!IndInv'
<1> DEFINE q == [Urb!NoUrb EXCEPT !.st = "queued"]
           r == Len(ready)
           c == Urb!Cardinality(Urb!Queued)
           R == [st : {"none", "queued", "done", "reaped"}, status : Urb!UrbStatus, len : 0..UrbLen]
<1>1. /\ sub > 0 /\ plugged /\ ~refuse /\ urb' = [urb EXCEPT ![sub] = q]
      /\ UNCHANGED <<kind, n, ready, refuse, sent, plugged, polled, mem, reapAction, retired,
                     isoSlots, transferred, disc, result>>
      /\ \/ sub = n /\ sub' = 0 /\ lock' = "free"
         \/ sub # n /\ sub' = sub + 1 /\ lock' = lock
  BY DEF Urb!SubmitUrb, Urb!LastUrb, Urb!tprivVars, Urb!devVars, Urb!dataVars
<1>2. /\ n \in Nat /\ 1 <= n /\ n <= MaxUrbs /\ sub \in 0..n /\ retired \in Nat /\ r \in Nat
      /\ MaxUrbs \in Nat /\ UrbLen \in Nat /\ sent \in Nat /\ transferred \in Nat
  BY UrbFacts
<1>3. sub \in Urb!Urbs /\ sub \in Nat
  BY <1>1, <1>2 DEF Urb!Urbs
<1>4. urb \in [Urb!Urbs -> R]
  BY DEF Urb!IndInv, Urb!RefInv, Urb!FlagTypes
<1>5. q.st = "queued" /\ q.status = "ok"
  BY DEF Urb!NoUrb
<1> HIDE DEF q, R, r, c
<1>6. \A j \in Urb!Urbs : urb'[j] = IF j = sub THEN q ELSE urb[j]
  BY <1>1, <1>3, <1>4
<1>7. Urb!Queued' = Urb!Queued \union {sub}
  BY <1>3, <1>5, <1>6 DEF Urb!Queued
<1>8. PICK lo \in 1..(MaxUrbs + 1), hi \in 0..MaxUrbs :
           /\ Urb!Queued = lo..hi /\ lo <= hi + 1
           /\ sub > 0 => hi = sub - 1
           /\ c = hi - lo + 1
  BY Window DEF c
<1>9. lo \in Nat /\ hi = sub - 1 /\ lo <= sub /\ hi - lo + 1 = sub - lo
  BY <1>1, <1>2, <1>8
<1>10. Urb!Queued' = lo..sub
  <2>1. (lo..hi) \union {sub} = lo..sub
    BY <1>3, <1>9
  <2> QED
    BY <1>7, <1>8, <2>1
<1>11. Urb!Cardinality(Urb!Queued') = c + 1 /\ c \in Nat
  <2>1. lo <= sub + 1
    BY <1>3, <1>9
  <2>2. Urb!Cardinality(lo..sub) = sub - lo + 1
    BY <1>3, <1>9, <2>1, IntervalSize
  <2> QED
    BY <1>3, <1>8, <1>9, <1>10, <2>2
<1>12. mem /\ ~Urb!Discarding
  BY <1>1 DEF Urb!IndInv, Urb!RefInv, Urb!LockInv
<1>13. ~Urb!Discarding'
  BY <1>1, <1>12 DEF Urb!Discarding
<1>14. Urb!IntervalInv'
  <2>1. /\ sub \in 0..MaxUrbs /\ lo <= sub + 1
        /\ sub' > 0 => sub = sub' - 1
    BY <1>1, <1>2, <1>3, <1>9
  <2> QED
    BY <1>10, <1>13, <2>1 DEF Urb!IntervalInv
<1>15. Urb!Given = sub - 1 /\ Urb!Given' = sub
  BY <1>1, <1>2, <1>3 DEF Urb!Given
<1>16. Urb!Unsent \in Nat /\ Urb!Unsent' \in Nat /\ Urb!Unsent = Urb!Unsent' + 1
  BY <1>1, <1>2, <1>3 DEF Urb!Unsent
<1>17. Urb!CountInv'
  <2>1. c + r + retired = sub - 1
    BY <1>12, <1>15 DEF Urb!IndInv, Urb!CountInv, r, c
  <2>2. Urb!Cardinality(Urb!Queued') + Len(ready') + retired' = Urb!Given'
    BY <1>1, <1>2, <1>3, <1>11, <1>15, <2>1 DEF r
  <2>3. ASSUME reapAction = "NORMAL"
        PROVE  /\ Urb!Queued' = (retired' + Len(ready') + 1)..Urb!Given'
               /\ \A k \in 1..Len(ready') : ready'[k] = retired' + k
    <3>1. \A k \in 1..r : ready[k] = retired + k
      BY <1>12, <2>3 DEF Urb!IndInv, Urb!CountInv, r
    <3>2. lo = retired + r + 1
      BY <1>2, <1>3, <1>8, <1>9, <2>1
    <3> QED
      BY <1>1, <1>10, <1>15, <3>1, <3>2 DEF r
  <2> QED
    BY <1>1, <1>12, <1>13, <2>2, <2>3 DEF Urb!CountInv
<1>18. Urb!ReadyInv'
  <2>1. urb[sub].st = "none"
    <3>1. ~(sub < sub)
      BY <1>3
    <3> QED
      BY <1>1, <1>3, <3>1 DEF Urb!IndInv, Urb!UrbInv
  <2>2. \A j \in Urb!Urbs : urb'[j].st = "done" <=> urb[j].st = "done"
    BY <1>5, <1>6, <2>1
  <2> QED
    BY <1>1, <2>2 DEF Urb!IndInv, Urb!ReadyInv
<1>19. Urb!UrbInv'
  <2>1. ASSUME NEW j \in Urb!Urbs
        PROVE  /\ urb'[j].st # "none" => j <= n /\ (sub' > 0 => j < sub')
               /\ urb'[j].status \in Faults => kind \in FaultyKinds /\ (kind = "bulkcont" => refuse)
               /\ urb'[j].status = "overflow" => j = n
               /\ urb'[j].status = "gone" => ~plugged
    <3>1. j \in Nat
      BY <1>2 DEF Urb!Urbs
    <3>2. CASE j = sub
      <4>1. urb'[j].status = "ok" /\ "ok" \notin Faults
        BY <1>5, <1>6, <3>2, KindsAssumption
      <4>2. j <= n /\ (sub' > 0 => j < sub')
        BY <1>1, <1>2, <1>3, <3>2
      <4> QED
        BY <4>1, <4>2
    <3>3. CASE j # sub
      <4>1. urb'[j] = urb[j]
        BY <1>6, <3>3
      <4>2. /\ urb[j].st # "none" => j <= n /\ j < sub
            /\ urb[j].status \in Faults => kind \in FaultyKinds /\ (kind = "bulkcont" => refuse)
            /\ urb[j].status = "overflow" => j = n
            /\ urb[j].status = "gone" => ~plugged
        BY <1>1 DEF Urb!IndInv, Urb!UrbInv
      <4>3. j < sub => (sub' > 0 => j < sub')
        BY <1>1, <1>3, <3>1
      <4> QED
        BY <4>1, <4>2, <4>3
    <3> QED
      BY <3>2, <3>3
  <2> QED
    BY <1>1, <2>1 DEF Urb!IndInv, Urb!UrbInv
<1>20. Urb!LengthInv'
  <2>1. /\ sent + (c + Urb!Unsent) * UrbLen <= Urb!Units
        /\ transferred + (r + c + Urb!Unsent) * UrbLen <= Urb!Units
    BY DEF Urb!IndInv, Urb!LengthInv, c, r
  <2>2. c + Urb!Unsent = c + 1 + Urb!Unsent' /\ r + c + Urb!Unsent = r + (c + 1) + Urb!Unsent'
    BY <1>2, <1>11, <1>16
  <2>3. Urb!Units' = Urb!Units
    BY DEF Urb!Units
  <2> QED
    BY <1>1, <1>11, <2>1, <2>2, <2>3 DEF Urb!LengthInv, r
<1>21. Urb!OtherTypes'
  BY <1>1 DEF Urb!IndInv, Urb!OtherTypes
<1>22. Urb!RefInv'
  BY RefSubmitUrb DEF Urb!IndInv
<1> QED
  BY <1>14, <1>17, <1>18, <1>19, <1>20, <1>21, <1>22 DEF Urb!IndInv

LEMMA IndLaterUrbFails ==
  ASSUME Urb!IndInv, Urb!LaterUrbFails
  PROVE  Urb!IndInv'
<1> DEFINE r == Len(ready)
           c == Urb!Cardinality(Urb!Queued)
<1>1. /\ sub > 1 /\ sub' = 0 /\ retired' = retired + (n - sub + 1)
      /\ UNCHANGED <<kind, n, urb, ready, refuse, sent, plugged, polled, mem, isoSlots,
                     transferred, result>>
      /\ \/ reapAction' = "COMPLETED_EARLY" /\ lock' = "free" /\ disc' = disc
         \/ reapAction' = "SUBMIT_FAILED" /\ disc' = <<1, sub - 1>> /\ lock' = lock
  BY DEF Urb!LaterUrbFails, Urb!NotSubmitted, Urb!kernelVars, Urb!devVars, Urb!dataVars
<1>2. /\ n \in Nat /\ 1 <= n /\ n <= MaxUrbs /\ sub \in 0..n /\ retired \in Nat /\ r \in Nat
      /\ MaxUrbs \in Nat /\ UrbLen \in Nat /\ sent \in Nat /\ transferred \in Nat
  BY UrbFacts
<1>3. mem /\ ~Urb!Discarding
  BY <1>1, <1>2 DEF Urb!IndInv, Urb!RefInv, Urb!LockInv
<1>4. PICK lo \in 1..(MaxUrbs + 1), hi \in 0..MaxUrbs :
           /\ Urb!Queued = lo..hi /\ lo <= hi + 1
           /\ sub > 0 => hi = sub - 1
           /\ c = hi - lo + 1
  BY Window
<1> HIDE DEF r, c
<1>5. hi = sub - 1 /\ c \in Nat /\ sub \in Nat
  BY <1>1, <1>2, <1>4
<1>6. Urb!Queued' = Urb!Queued
  BY <1>1 DEF Urb!Queued
<1>7. c + r + retired = sub - 1
  BY <1>1, <1>2, <1>3 DEF Urb!IndInv, Urb!CountInv, Urb!Given, r, c
<1>8. Urb!IntervalInv'
  <2>1. Urb!Discarding' => hi <= disc'[2]
    <3>1. CASE disc' = disc
      BY <1>3, <3>1 DEF Urb!Discarding
    <3>2. CASE disc' = <<1, sub - 1>>
      BY <1>5, <3>2
    <3> QED
      BY <1>1, <3>1, <3>2
  <2> QED
    BY <1>1, <1>4, <1>6, <2>1 DEF Urb!IntervalInv
<1>9. Urb!CountInv'
  <2>1. Urb!Given' = n /\ Urb!Cardinality(Urb!Queued') = c
    BY <1>1, <1>6 DEF Urb!Given, c
  <2>2. c + r + retired' = n
    BY <1>1, <1>2, <1>5, <1>7
  <2> QED
    BY <1>1, <1>3, <2>1, <2>2 DEF Urb!CountInv, r
<1>10. Urb!ReadyInv' /\ Urb!UrbInv'
  BY <1>1, <1>6 DEF Urb!IndInv, Urb!ReadyInv, Urb!UrbInv
<1>11. Urb!LengthInv'
  <2>1. /\ sent + (c + Urb!Unsent) * UrbLen <= Urb!Units
        /\ transferred + (r + c + Urb!Unsent) * UrbLen <= Urb!Units
    BY DEF Urb!IndInv, Urb!LengthInv, c, r
  <2>2. Urb!Unsent \in Nat /\ Urb!Unsent' = 0
    BY <1>1, <1>2 DEF Urb!Unsent
  <2>3. Urb!Units' = Urb!Units /\ Urb!Units \in Nat
    BY <1>2 DEF Urb!Units
  <2>4. /\ c + 0 \in Nat /\ c + Urb!Unsent \in Nat /\ c + 0 <= c + Urb!Unsent
        /\ r + c + 0 \in Nat /\ r + c + Urb!Unsent \in Nat /\ r + c + 0 <= r + c + Urb!Unsent
    BY <1>2, <1>5, <2>2
  <2>5. /\ (c + 0) * UrbLen <= (c + Urb!Unsent) * UrbLen
        /\ (r + c + 0) * UrbLen <= (r + c + Urb!Unsent) * UrbLen
        /\ (c + 0) * UrbLen \in Nat /\ (c + Urb!Unsent) * UrbLen \in Nat
        /\ (r + c + 0) * UrbLen \in Nat /\ (r + c + Urb!Unsent) * UrbLen \in Nat
    BY <1>2, <2>4, Products
  <2>6. sent + (c + 0) * UrbLen <= Urb!Units /\ transferred + (r + c + 0) * UrbLen <= Urb!Units
    BY <1>2, <2>1, <2>3, <2>5
  <2>7. Urb!Cardinality(Urb!Queued') = c /\ Len(ready') = r
    BY <1>1, <1>6 DEF c, r
  <2> QED
    BY <1>1, <2>2, <2>3, <2>6, <2>7 DEF Urb!LengthInv
<1>12. Urb!OtherTypes'
  <2>1. retired' \in 0..n
    BY <1>1, <1>2, <1>5, <1>7
  <2> QED
    BY <1>1, <2>1 DEF Urb!IndInv, Urb!OtherTypes, Urb!ReapActions
<1>13. Urb!RefInv'
  BY RefLaterUrbFails DEF Urb!IndInv
<1> QED
  BY <1>8, <1>9, <1>10, <1>11, <1>12, <1>13 DEF Urb!IndInv

LEMMA IndInit == Urb!Init => Urb!IndInv
<1> SUFFICES ASSUME Urb!Init PROVE Urb!IndInv
  OBVIOUS
<1>1. /\ kind = "none" /\ n = 1 /\ urb = [i \in Urb!Urbs |-> Urb!NoUrb] /\ ready = <<>> /\ refuse = FALSE
      /\ sent = 0 /\ plugged = TRUE /\ polled = TRUE /\ mem = FALSE /\ reapAction = "NORMAL" /\ retired = 0
      /\ isoSlots = <<>> /\ transferred = 0 /\ lock = "free" /\ sub = 0 /\ result = "none"
  BY DEF Urb!Init
<1>2. \A i \in Urb!Urbs : urb[i].st = "none" /\ urb[i].status = "ok"
  BY <1>1 DEF Urb!NoUrb
<1>3. Urb!RefInv
  BY RefInit
<1>4. Urb!Queued = {} /\ 1..0 = {} /\ Urb!Cardinality(Urb!Queued) = 0
  <2>1. Urb!Queued = {}
    BY <1>2 DEF Urb!Queued
  <2> QED
    BY <2>1, UrbSizes, FS_EmptySet
<1>5. Urb!OtherTypes
  <2>1. isoSlots \in Seq(Urb!Urbs)
    BY <1>1
  <2>2. retired \in 0..n /\ sent \in Nat /\ transferred \in Nat
    BY <1>1
  <2>3. refuse \in BOOLEAN /\ plugged \in BOOLEAN /\ polled \in BOOLEAN
    BY <1>1
  <2>4. /\ reapAction \in Urb!ReapActions /\ lock \in {"free", "submit", "cancel", "reap"}
        /\ result \in Urb!Status \union {"none", "REFUSED"}
    BY <1>1 DEF Urb!ReapActions
  <2> QED
    BY <2>1, <2>2, <2>3, <2>4 DEF Urb!OtherTypes
<1>6. Urb!IntervalInv
  <2>1. 1 \in 1..(MaxUrbs + 1) /\ 0 \in 0..MaxUrbs /\ 1 <= 0 + 1 /\ 1 > 0
    BY KindsAssumption
  <2> QED
    BY <1>1, <1>4, <2>1 DEF Urb!IntervalInv
<1>7. Urb!CountInv /\ Urb!ReadyInv
  BY <1>1, <1>4 DEF Urb!CountInv, Urb!ReadyInv
<1>8. Urb!UrbInv
  <2>1. "ok" \notin Faults
    BY KindsAssumption
  <2> QED
    BY <1>1, <1>2, <1>4, <2>1 DEF Urb!UrbInv
<1>9. Urb!LengthInv
  <2>1. Urb!Unsent = 0 /\ Len(ready) = 0
    BY <1>1 DEF Urb!Unsent
  <2>2. Urb!Units \in Nat /\ (0 + 0) * UrbLen = 0 /\ (0 + 0 + 0) * UrbLen = 0
    BY KindsAssumption DEF Urb!Units
  <2> QED
    BY <1>1, <1>4, <2>1, <2>2 DEF Urb!LengthInv
<1> QED
  BY <1>3, <1>5, <1>6, <1>7, <1>8, <1>9 DEF Urb!IndInv

LEMMA IndStep ==
  ASSUME Urb!IndInv, Urb!Next, "bulk" \notin FaultyKinds
  PROVE  Urb!IndInv'
  BY IndSubmitTransfer, IndSubmitUrb, IndFirstUrbFails, IndLaterUrbFails, IndDiscardUrb,
     IndCancelTransfer, IndReapForHandle, IndReportTransfer, IndHandleDisconnect, IndUnplug,
     IndKernelCompletes
  DEF Urb!Next, Urb!LibStep, Urb!EventStep

LEMMA IndStutter ==
  ASSUME Urb!IndInv, UNCHANGED urbVars
  PROVE  Urb!IndInv'
<1>1. UNCHANGED <<kind, n, urb, ready, refuse, sent, plugged, polled, mem, reapAction, retired,
                  reapStatus, isoSlots, transferred, lock, sub, disc, ev, flying, timedOut,
                  asked, result, submits>>
  BY DEF urbVars
<1>2. Urb!Discarding' <=> Urb!Discarding
  BY <1>1 DEF Urb!Discarding
<1>3. Urb!RefInv'
  BY <1>1, <1>2 DEF Urb!IndInv, Urb!RefInv, Urb!FlagTypes, Urb!LockInv, Urb!ReportInv, Urb!ControlInv
<1>4. Urb!Queued' = Urb!Queued
  BY <1>1 DEF Urb!Queued
<1>5. Urb!Given' = Urb!Given /\ Urb!Unsent' = Urb!Unsent /\ Urb!Units' = Urb!Units
  BY <1>1 DEF Urb!Given, Urb!Unsent, Urb!Units
<1>6. Urb!IntervalInv' /\ Urb!CountInv'
  BY <1>1, <1>2, <1>4, <1>5 DEF Urb!IndInv, Urb!IntervalInv, Urb!CountInv
<1>7. Urb!ReadyInv' /\ Urb!UrbInv' /\ Urb!OtherTypes'
  BY <1>1, <1>4 DEF Urb!IndInv, Urb!ReadyInv, Urb!UrbInv, Urb!OtherTypes
<1>8. Urb!LengthInv'
  BY <1>1, <1>4, <1>5 DEF Urb!IndInv, Urb!LengthInv
<1> QED
  BY <1>3, <1>6, <1>7, <1>8 DEF Urb!IndInv

\* As many URBs are done as are in the queue.
LEMMA OutstandingSize ==
  ASSUME Urb!IndInv, mem
  PROVE  Urb!Cardinality({i \in Urb!Urbs : urb[i].st \in {"queued", "done"}})
           = Urb!Cardinality(Urb!Queued) + Len(ready)
<1> DEFINE D == {i \in Urb!Urbs : urb[i].st = "done"}
           Q == Urb!Queued
           r == Len(ready)
<1>1. /\ ready \in Seq(Urb!Urbs) /\ r \in Nat /\ MaxUrbs \in Nat
  BY UrbFacts
<1>2. /\ \A k, l \in 1..r : k # l => ready[k] # ready[l]
      /\ \A i \in Urb!Urbs : urb[i].st = "done" <=> \E k \in 1..r : ready[k] = i
  BY DEF Urb!IndInv, Urb!ReadyInv
<1>3. \A k \in 1..r : ready[k] \in D
  BY <1>1, <1>2
<1>4. ready \in Bijection(1..r, D)
  <2>1. ready \in [1..r -> D]
    <3>1. ready \in [1..r -> Urb!Urbs]
      BY <1>1
    <3> QED
      BY <1>3, <3>1
  <2>2. ready \in Injection(1..r, D)
    <3>1. \A k, l \in 1..r : ready[k] = ready[l] => k = l
      BY <1>2
    <3> HIDE DEF D, r
    <3> QED
      BY <2>1, <3>1, Fun_IsInj
  <2>3. ready \in Surjection(1..r, D)
    BY <1>2, <2>1 DEF Surjection
  <2> QED
    BY <2>2, <2>3 DEF Bijection
<1>5. IsFiniteSet(1..r) /\ Cardinality(1..r) = r
  <2>1. IsFiniteSet(1..r) /\ Cardinality(1..r) = IF 1 > r THEN 0 ELSE r - 1 + 1
    BY <1>1, FS_Interval
  <2> QED
    BY <1>1, <2>1
<1>6. IsFiniteSet(D) /\ Cardinality(D) = r
  <2>1. ExistsBijection(1..r, D)
    BY <1>4 DEF ExistsBijection
  <2> HIDE DEF D, r
  <2> QED
    BY <1>5, <2>1, FS_Bijection
<1>7. IsFiniteSet(Q)
  <2>1. IsFiniteSet(Urb!Urbs)
    BY <1>1, FS_Interval DEF Urb!Urbs
  <2> QED
    BY <2>1, QueuedUrbs, FS_Subset
<1>8. Q \intersect D = {} /\ {i \in Urb!Urbs : urb[i].st \in {"queued", "done"}} = Q \union D
  BY DEF Urb!Queued
<1> HIDE DEF D, Q, r
<1>9. Cardinality(Q \union D) = Cardinality(Q) + r
  <2>1. Cardinality(Q \union D) = Cardinality(Q) + Cardinality(D) - Cardinality(Q \intersect D)
    BY <1>6, <1>7, FS_Union
  <2>2. Cardinality(Q \intersect D) = 0 /\ Cardinality(Q) \in Nat
    BY <1>7, <1>8, FS_EmptySet, FS_CardinalityType
  <2> QED
    BY <1>1, <1>6, <2>1, <2>2
<1> QED
  BY <1>8, <1>9, UrbSizes DEF Q, r

\* The URBs of a transfer are freed when the kernel has given back every one of
\* them, and num_retired counts exactly those that need no more waiting for,
\* however URBs complete, fail, are discarded and time out, for any number of
\* them (linux_usbfs.c submit_..._transfer, handle_..._completion, discard_urbs).
\* A bulk transfer without continuation must be spared faults: UrbTransferStall
\* shows what becomes of it otherwise.
THEOREM FreedSafe ==
  ASSUME "bulk" \notin FaultyKinds
  PROVE  Spec => []FreedOnlyWhenReaped
<1> DEFINE I == part = "urb" => Urb!IndInv
<1>1. Init => I
  BY IndInit DEF Init
<1>2. I /\ [Next]_all => I'
  <2> SUFFICES ASSUME I, [Next]_all, part' = "urb" PROVE Urb!IndInv'
    OBVIOUS
  <2>1. part = "urb"
    BY PartSteps
  <2>2. CASE Urb!Next
    BY <2>1, <2>2, IndStep
  <2>3. CASE UNCHANGED urbVars
    BY <2>1, <2>3, IndStutter
  <2> QED
    BY <2>1, <2>2, <2>3, PartSteps
<1>3. I => FreedOnlyWhenReaped
  <2> SUFFICES ASSUME Urb!IndInv PROVE Urb!TypeOK /\ Urb!FreedOnlyWhenReaped /\ Urb!RetiredExact
    BY DEF FreedOnlyWhenReaped
  <2> DEFINE r == Len(ready)
             c == Urb!Cardinality(Urb!Queued)
  <2>1. /\ n \in Nat /\ 1 <= n /\ n <= MaxUrbs /\ sub \in 0..n /\ retired \in 0..n /\ r \in Nat
        /\ MaxUrbs \in Nat /\ UrbLen \in Nat /\ sent \in Nat /\ transferred \in Nat /\ mem \in BOOLEAN
    BY UrbFacts
  <2>2. c \in Nat
    <3>1. PICK lo \in 1..(MaxUrbs + 1), hi \in 0..MaxUrbs : lo <= hi + 1 /\ c = hi - lo + 1
      BY Window
    <3> QED
      BY <2>1, <3>1
  <2>3. mem => c + r + retired = Urb!Given
    BY DEF Urb!IndInv, Urb!CountInv
  <2>4. ~mem => Urb!Queued = {} /\ ready = <<>>
    BY DEF Urb!IndInv, Urb!CountInv
  <2>5. Urb!Given \in Nat /\ Urb!Given <= n
    BY <2>1 DEF Urb!Given
  <2>6. r <= n
    <3>1. CASE mem
      <4>1. c + r + retired = Urb!Given
        BY <2>3, <3>1
      <4> HIDE DEF c, r
      <4> QED
        BY <2>1, <2>2, <2>5, <4>1
    <3>2. CASE ~mem
      BY <2>1, <2>4, <3>2
    <3> QED
      BY <2>1, <3>1, <3>2
  <2>7. sent \in 0..Urb!Units /\ transferred \in 0..Urb!Units
    <3> DEFINE u == Urb!Unsent
    <3>1. /\ sent + (c + u) * UrbLen <= Urb!Units
          /\ transferred + (r + c + u) * UrbLen <= Urb!Units
      BY DEF Urb!IndInv, Urb!LengthInv
    <3>2. u \in Nat /\ Urb!Units \in Nat
      BY <2>1 DEF Urb!Unsent, Urb!Units
    <3> HIDE DEF u, c, r
    <3>3. c + u \in Nat /\ r + c + u \in Nat
      BY <2>1, <2>2, <3>2
    <3>4. (c + u) * UrbLen \in Nat /\ (r + c + u) * UrbLen \in Nat
      BY <2>1, <3>3, Products
    <3> QED
      BY <2>1, <3>1, <3>2, <3>4
  <2>8. Urb!TypeOK
    <3>1. Urb!FlagTypes /\ Urb!OtherTypes /\ reapStatus \in Urb!Status
      BY DEF Urb!IndInv, Urb!RefInv, Urb!ReportInv
    <3> QED
      BY <2>6, <2>7, <3>1 DEF Urb!TypeOK, Urb!FlagTypes, Urb!OtherTypes
  <2>9. Urb!FreedOnlyWhenReaped
    BY <2>4 DEF Urb!FreedOnlyWhenReaped
  <2>10. Urb!RetiredExact
    <3> SUFFICES ASSUME mem, lock # "submit"
                 PROVE  n - retired = Urb!Cardinality({i \in Urb!Urbs : urb[i].st \in {"queued", "done"}})
      BY DEF Urb!RetiredExact
    <3>1. Urb!Given = n
      BY <2>1 DEF Urb!IndInv, Urb!RefInv, Urb!LockInv, Urb!Given
    <3>2. c + r + retired = n
      BY <2>3, <3>1
    <3>3. Urb!Cardinality({i \in Urb!Urbs : urb[i].st \in {"queued", "done"}}) = c + r
      BY OutstandingSize
    <3> HIDE DEF c, r
    <3> QED
      BY <2>1, <2>2, <3>2, <3>3
  <2> QED
    BY <2>8, <2>9, <2>10
<1> QED
  BY <1>1, <1>2, <1>3, PTL DEF Spec, Steps

-----------------------------------------------------------------------------
(* The data of a transfer.                                                 *)

\* Where the parts of the buffer are
LEMMA Places ==
  /\ Urb!Units \in Nat
  /\ \A i \in Urb!Urbs : /\ i \in Nat /\ 1 <= i /\ Urb!BufferOf(i) \in Nat
                         /\ Urb!BufferOf(i) + UrbLen <= Urb!Units
  /\ \A i, j \in Urb!Urbs : i < j => Urb!BufferOf(i) + UrbLen <= Urb!BufferOf(j)
<1>1. MaxUrbs \in Nat /\ UrbLen \in Nat
  BY KindsAssumption
<1>2. \A x, y \in Nat : x * UrbLen \in Nat /\ (x + y) * UrbLen = x * UrbLen + y * UrbLen
  BY <1>1, Products
<1>3. \A x, y \in Nat : x <= y => x * UrbLen <= y * UrbLen
  BY <1>1, Products
<1>4. 1 * UrbLen = UrbLen
  BY <1>1
<1>5. ASSUME NEW i \in Urb!Urbs
      PROVE  /\ i \in Nat /\ 1 <= i /\ i <= MaxUrbs /\ Urb!BufferOf(i) \in Nat
             /\ Urb!BufferOf(i) + UrbLen = i * UrbLen
  <2>1. i \in Nat /\ 1 <= i /\ i <= MaxUrbs /\ i - 1 \in Nat /\ i = (i - 1) + 1
    BY <1>1 DEF Urb!Urbs
  <2>2. ((i - 1) + 1) * UrbLen = (i - 1) * UrbLen + 1 * UrbLen
    BY <1>2, <2>1
  <2> QED
    BY <1>2, <1>4, <2>1, <2>2 DEF Urb!BufferOf
<1>6. ASSUME NEW i \in Urb!Urbs, NEW j \in Urb!Urbs, i < j
      PROVE  Urb!BufferOf(i) + UrbLen <= Urb!BufferOf(j)
  <2>1. i \in Nat /\ j \in Nat /\ j - 1 \in Nat /\ i <= j - 1
    BY <1>5, <1>6
  <2>2. i * UrbLen <= (j - 1) * UrbLen
    BY <1>3, <2>1
  <2> QED
    BY <1>5, <2>2 DEF Urb!BufferOf
<1>7. Urb!Units \in Nat /\ \A i \in Urb!Urbs : i * UrbLen <= Urb!Units
  <2>1. MaxUrbs * UrbLen \in Nat
    BY <1>1, <1>2
  <2>2. \A i \in Urb!Urbs : i * UrbLen <= MaxUrbs * UrbLen
    BY <1>1, <1>3, <1>5
  <2> QED
    BY <2>1, <2>2 DEF Urb!Units
<1> QED
  BY <1>5, <1>6, <1>7

\* URBs a..b go to the queue of the completed ones, the first with len units of data.
LEMMA DataMoved ==
  ASSUME Urb!IndInv, mem, NEW before \in [Urb!Urbs -> Nat], Urb!Accounted(before),
         \A p \in 1..transferred : buffer[p] = p,
         \A j \in Urb!Queued : sent <= Urb!BufferOf(j),
         NEW a \in Nat, NEW b \in Nat, a <= b, a..b \subseteq Urb!Queued, NEW len \in 0..UrbLen,
         Len(ready') = Len(ready) + (b - a + 1), \A k \in 1..Len(ready) : ready'[k] = ready[k],
         \A k \in 1..(b - a + 1) : ready'[Len(ready) + k] = a + k - 1,
         \A j \in Urb!Urbs : urb'[j].len = IF j = a THEN len ELSE IF j \in a..b THEN 0 ELSE urb[j].len,
         \A p \in 1..Urb!Units : buffer'[p] = Urb!Filled(a, len)[p], sent' = sent + len,
         transferred' = transferred
  PROVE  /\ \E f \in [Urb!Urbs -> Nat] : Urb!Accounted(f)'
         /\ \A p \in 1..transferred : buffer'[p] = p
<1> DEFINE r == Len(ready)
           g == [j \in Urb!Urbs |-> IF j = a THEN sent ELSE IF j \in a..b THEN sent + len ELSE before[j]]
<1>1. /\ r \in Nat /\ ready \in Seq(Urb!Urbs) /\ sent \in Nat /\ transferred \in Nat /\ UrbLen \in Nat
      /\ len \in Nat /\ len <= UrbLen
  <2>1. UrbLen \in Nat
    BY UrbFacts
  <2> QED
    BY <2>1, UrbFacts
<1>2. \A k \in 1..r : ready[k] \in Urb!Urbs
  BY <1>1
<1>3. \A j \in a..b : j \in Urb!Urbs /\ urb[j].st = "queued"
  BY DEF Urb!Queued
<1>4. \A k \in 1..r : ready[k] \notin a..b
  <2>1. \A k \in 1..r : urb[ready[k]].st = "done"
    BY <1>2 DEF Urb!IndInv, Urb!ReadyInv
  <2> QED
    BY <1>3, <2>1
<1>5. a \in a..b /\ a \in Urb!Urbs /\ sent <= Urb!BufferOf(a)
  <2>1. a \in a..b
    OBVIOUS
  <2> QED
    BY <1>3, <2>1
<1>6. PICK f \in [Urb!Urbs -> Nat] : f = g
  <2>1. g \in [Urb!Urbs -> Nat]
    BY <1>1
  <2> QED
    BY <2>1
<1>7. /\ f[a] = sent
      /\ \A j \in a..b : j # a => f[j] = sent + len
      /\ \A k \in 1..r : f[ready[k]] = before[ready[k]] /\ before[ready[k]] \in Nat
  <2>1. f[a] = sent
    BY <1>5, <1>6
  <2>2. \A j \in a..b : j # a => f[j] = sent + len
    BY <1>3, <1>6
  <2>3. \A k \in 1..r : ready[k] # a
    BY <1>4, <1>5
  <2> QED
    BY <1>2, <1>4, <1>6, <2>1, <2>2, <2>3
<1> HIDE DEF g
<1>8. \A j \in Urb!Urbs : urb[j].len \in Nat /\ urb[j].len <= UrbLen
  <2>1. urb \in [Urb!Urbs -> [st : {"none", "queued", "done", "reaped"}, status : Urb!UrbStatus, len : 0..UrbLen]]
    BY DEF Urb!IndInv, Urb!RefInv, Urb!FlagTypes
  <2> QED
    BY <1>1, <2>1
<1>9. /\ \A k \in 1..r : urb'[ready[k]].len = urb[ready[k]].len
      /\ urb'[a].len = len
      /\ \A j \in a..b : j # a => urb'[j].len = 0
  <2>1. \A k \in 1..r : ready[k] # a
    BY <1>4, <1>5
  <2> QED
    BY <1>2, <1>3, <1>4, <1>5, <2>1
<1>10. \A k \in 1..r :
         /\ k = 1 => before[ready[k]] = transferred
         /\ k < r => before[ready[k + 1]] = before[ready[k]] + urb[ready[k]].len
         /\ k = r => sent = before[ready[k]] + urb[ready[k]].len
         /\ urb[ready[k]].len > 0 => before[ready[k]] <= Urb!BufferOf(ready[k])
         /\ \A p \in 1..urb[ready[k]].len : buffer[Urb!BufferOf(ready[k]) + p] = before[ready[k]] + p
         /\ before[ready[k]] + urb[ready[k]].len <= sent
         /\ \A l \in (k + 1)..r : before[ready[k]] + urb[ready[k]].len <= before[ready[l]]
  BY DEF Urb!Accounted
<1>11. transferred <= sent /\ (r = 0 => transferred = sent)
  <2>1. r = 0 => ready = <<>>
    BY <1>1, EmptySeq
  <2> QED
    BY <2>1 DEF Urb!Accounted
<1>12. \A k \in 1..Len(ready') : k \in 1..r \/ k - r \in 1..(b - a + 1)
  BY <1>1
<1>13. \A k \in 1..Len(ready') : k - r \in 1..(b - a + 1) =>
         /\ ready'[k] \in a..b
         /\ k = r + 1 => ready'[k] = a
         /\ k # r + 1 => ready'[k] # a
  <2> SUFFICES ASSUME NEW k \in 1..Len(ready'), k - r \in 1..(b - a + 1)
               PROVE  /\ ready'[k] \in a..b
                      /\ k = r + 1 => ready'[k] = a
                      /\ k # r + 1 => ready'[k] # a
    OBVIOUS
  <2>1. r + (k - r) = k
    BY <1>1
  <2> DEFINE m == k - r
  <2>2. ready'[k] = a + m - 1
    BY <2>1
  <2>3. m \in Nat /\ 1 <= m /\ m <= b - a + 1 /\ (m = 1 <=> k = r + 1)
    BY <1>1
  <2> HIDE DEF m
  <2>4. a + m - 1 \in a..b /\ (a + m - 1 = a <=> m = 1)
    BY <2>3
  <2> QED
    BY <2>2, <2>3, <2>4
\* the buffer
<1>14. \A p \in 1..Urb!Units : buffer'[p] = IF p \in (Urb!BufferOf(a) + 1)..(Urb!BufferOf(a) + len)
                                           THEN sent + p - Urb!BufferOf(a) ELSE buffer[p]
  BY DEF Urb!Filled, Urb!BufferOf
<1>15. /\ Urb!Units \in Nat /\ Urb!BufferOf(a) \in Nat /\ Urb!BufferOf(a) + UrbLen <= Urb!Units
       /\ \A i \in Urb!Urbs : /\ i \in Nat /\ Urb!BufferOf(i) \in Nat
                              /\ Urb!BufferOf(i) + UrbLen <= Urb!Units
                              /\ i < a => Urb!BufferOf(i) + UrbLen <= Urb!BufferOf(a)
                              /\ a < i => Urb!BufferOf(a) + UrbLen <= Urb!BufferOf(i)
  BY <1>5, Places
<1>16. \A p \in 1..len : buffer'[Urb!BufferOf(a) + p] = sent + p
  <2> SUFFICES ASSUME NEW p \in 1..len PROVE buffer'[Urb!BufferOf(a) + p] = sent + p
    OBVIOUS
  <2>1. Urb!BufferOf(a) + p \in 1..Urb!Units /\ Urb!BufferOf(a) + p \in (Urb!BufferOf(a) + 1)..(Urb!BufferOf(a) + len)
    BY <1>1, <1>15
  <2>2. buffer'[Urb!BufferOf(a) + p] = sent + (Urb!BufferOf(a) + p) - Urb!BufferOf(a)
    BY <1>14, <2>1
  <2> QED
    BY <1>1, <1>15, <2>2
<1>17. ASSUME NEW k \in 1..r, NEW p \in 1..urb[ready[k]].len
       PROVE  buffer'[Urb!BufferOf(ready[k]) + p] = before[ready[k]] + p
  <2> DEFINE i == ready[k]
             x == Urb!BufferOf(i) + p
  <2>1. i \in Urb!Urbs /\ i # a /\ i \in Nat /\ urb[i].len \in Nat /\ urb[i].len <= UrbLen
    BY <1>2, <1>4, <1>5, <1>8, <1>15
  <2>2. p \in Nat /\ 1 <= p /\ p <= UrbLen
    <3> DEFINE l == urb[i].len
    <3>1. l \in Nat /\ l <= UrbLen /\ p \in 1..l /\ UrbLen \in Nat
      BY <1>1, <2>1
    <3> HIDE DEF l
    <3> QED
      BY <3>1
  <2>6. /\ Urb!BufferOf(i) \in Nat /\ Urb!BufferOf(i) + UrbLen <= Urb!Units
        /\ Urb!BufferOf(i) + UrbLen <= Urb!BufferOf(a) \/ Urb!BufferOf(a) + UrbLen <= Urb!BufferOf(i)
    <3>1. i < a \/ a < i
      BY <2>1
    <3> QED
      BY <1>15, <2>1, <3>1
  <2> DEFINE y == Urb!BufferOf(i)
             z == Urb!BufferOf(a)
  <2>7. y \in Nat /\ z \in Nat /\ y + UrbLen <= Urb!Units /\ (y + UrbLen <= z \/ z + UrbLen <= y)
    BY <1>15, <2>6
  <2> HIDE DEF y, z, i
  <2>3. x \in 1..Urb!Units
    <3>1. y + p \in 1..Urb!Units
      BY <1>1, <1>15, <2>2, <2>7
    <3> QED
      BY <3>1 DEF y
  <2>4. x \notin (Urb!BufferOf(a) + 1)..(Urb!BufferOf(a) + len)
    <3>1. y + p \notin (z + 1)..(z + len)
      BY <1>1, <2>2, <2>7
    <3> QED
      BY <3>1 DEF y, z
  <2>5. buffer'[x] = buffer[x]
    BY <1>14, <2>3, <2>4
  <2> QED
    BY <1>10, <2>5 DEF i
<1>18. ASSUME NEW p \in 1..transferred PROVE buffer'[p] = p
  <2>1. p \in 1..Urb!Units /\ p \notin (Urb!BufferOf(a) + 1)..(Urb!BufferOf(a) + len)
    BY <1>1, <1>5, <1>11, <1>15
  <2> QED
    BY <1>14, <2>1
<1>19. ASSUME NEW k \in 1..Len(ready')
       PROVE  /\ k = 1 => f[ready'[k]] = transferred
              /\ k < Len(ready') => f[ready'[k + 1]] = f[ready'[k]] + urb'[ready'[k]].len
              /\ k = Len(ready') => sent' = f[ready'[k]] + urb'[ready'[k]].len
              /\ urb'[ready'[k]].len > 0 => f[ready'[k]] <= Urb!BufferOf(ready'[k])
              /\ \A p \in 1..urb'[ready'[k]].len : buffer'[Urb!BufferOf(ready'[k]) + p] = f[ready'[k]] + p
              /\ f[ready'[k]] + urb'[ready'[k]].len <= sent'
              /\ \A l \in (k + 1)..Len(ready') : f[ready'[k]] + urb'[ready'[k]].len <= f[ready'[l]]
  <2>1. CASE k \in 1..r
    <3>1. ready'[k] = ready[k] /\ f[ready[k]] = before[ready[k]] /\ urb'[ready[k]].len = urb[ready[k]].len
          /\ before[ready[k]] \in Nat /\ urb[ready[k]].len \in Nat
      BY <1>2, <1>7, <1>8, <1>9, <2>1
    <3>2. k = 1 => f[ready'[k]] = transferred
      BY <1>10, <2>1, <3>1
    <3>3. k < Len(ready') => f[ready'[k + 1]] = f[ready'[k]] + urb'[ready'[k]].len
      <4>1. CASE k < r
        <5>1. k + 1 \in 1..r
          BY <1>1, <2>1, <4>1
        <5>2. before[ready[k + 1]] = before[ready[k]] + urb[ready[k]].len
          BY <1>10, <2>1, <4>1
        <5>3. f[ready'[k + 1]] = before[ready[k + 1]]
          BY <1>7, <5>1
        <5> QED
          BY <3>1, <5>2, <5>3
      <4>2. CASE k = r
        <5>1. k + 1 \in 1..Len(ready') /\ k + 1 - r \in 1..(b - a + 1) /\ k + 1 = r + 1
          BY <1>1, <4>2
        <5>2. ready'[k + 1] = a
          BY <1>13, <5>1, SMTT(30)
        <5> QED
          BY <1>7, <1>10, <2>1, <3>1, <4>2, <5>2, SMTT(30)
      <4> QED
        BY <1>1, <2>1, <4>1, <4>2
    <3>4. k # Len(ready')
      BY <1>1, <2>1
    <3>5. /\ urb'[ready'[k]].len > 0 => f[ready'[k]] <= Urb!BufferOf(ready'[k])
          /\ \A p \in 1..urb'[ready'[k]].len : buffer'[Urb!BufferOf(ready'[k]) + p] = f[ready'[k]] + p
      BY <1>10, <1>17, <2>1, <3>1, SMTT(30)
    <3>6. f[ready'[k]] + urb'[ready'[k]].len <= sent /\ sent <= sent'
      BY <1>1, <1>10, <2>1, <3>1, SMTT(30)
    <3>7. ASSUME NEW l \in (k + 1)..Len(ready') PROVE f[ready'[k]] + urb'[ready'[k]].len <= f[ready'[l]]
      <4>1. l \in 1..Len(ready')
        BY <2>1
      <4>2. CASE l \in 1..r
        <5>1. l \in (k + 1)..r
          BY <3>7, <4>2
        <5>2. before[ready[k]] + urb[ready[k]].len <= before[ready[l]]
          BY <1>10, <2>1, <5>1
        <5>3. f[ready'[l]] = before[ready[l]]
          BY <1>7, <4>2
        <5> QED
          BY <3>1, <5>2, <5>3
      <4>3. CASE l - r \in 1..(b - a + 1)
        <5>1. ready'[l] \in a..b
          BY <1>13, <4>1, <4>3
        <5>2. f[ready'[l]] \in {sent, sent + len}
          BY <1>7, <5>1
        <5>3. sent <= f[ready'[l]] /\ f[ready'[l]] \in Nat
          BY <1>1, <5>2
        <5>4. f[ready'[k]] + urb'[ready'[k]].len \in Nat
          BY <3>1, SMTT(30)
        <5> QED
          BY <1>1, <3>6, <5>3, <5>4
      <4> QED
        BY <1>12, <4>1, <4>2, <4>3
    <3>8. f[ready'[k]] + urb'[ready'[k]].len <= sent'
      BY <1>1, <3>1, <3>6, SMTT(30)
    <3> QED
      BY <3>2, <3>3, <3>4, <3>5, <3>7, <3>8
  <2>2. CASE k - r \in 1..(b - a + 1)
    <3>1. ready'[k] \in a..b /\ (k = r + 1 => ready'[k] = a) /\ (k # r + 1 => ready'[k] # a)
      BY <1>13, <2>2
    <3>2. \A l \in (k + 1)..Len(ready') : ready'[l] \in a..b /\ ready'[l] # a
      <4> SUFFICES ASSUME NEW l \in (k + 1)..Len(ready') PROVE ready'[l] \in a..b /\ ready'[l] # a
        OBVIOUS
      <4>1. l \in 1..Len(ready') /\ l - r \in 1..(b - a + 1) /\ l # r + 1
        BY <1>1, <2>2
      <4> QED
        BY <1>13, <4>1
    <3>3. \A l \in (k + 1)..Len(ready') : f[ready'[l]] = sent + len
      BY <1>7, <3>2
    <3>4. k < Len(ready') => k + 1 \in (k + 1)..Len(ready')
      BY <1>1
    <3>5. CASE k = r + 1
      <4>1. f[ready'[k]] = sent /\ urb'[ready'[k]].len = len /\ ready'[k] = a
        BY <1>7, <1>9, <3>1, <3>5
      <4>2. k = 1 => sent = transferred
        BY <1>1, <1>11, <3>5
      <4> QED
        BY <1>1, <1>5, <1>16, <3>3, <3>4, <4>1, <4>2
    <3>6. CASE k # r + 1
      <4>1. f[ready'[k]] = sent + len /\ urb'[ready'[k]].len = 0 /\ k # 1
        <5>1. k # 1
          BY <1>1, <2>2, <3>6
        <5> QED
          BY <1>7, <1>9, <3>1, <3>6, <5>1
      <4> QED
        BY <1>1, <3>3, <3>4, <4>1
    <3> QED
      BY <3>5, <3>6
  <2> QED
    BY <1>12, <2>1, <2>2
<1>20. ready' # <<>> /\ transferred' <= sent'
  <2>1. Len(ready') # 0
    BY <1>1
  <2> QED
    BY <1>1, <1>11, <2>1
<1>21. Urb!Accounted(f)'
  BY <1>19, <1>20 DEF Urb!Accounted, Urb!BufferOf
<1> QED
  BY <1>6, <1>18, <1>21

\* The first URB of the queue is reaped: what it brought is moved to the end of what has been
\* transferred, or is there already.
LEMMA DataReaped ==
  ASSUME Urb!IndInv, ready # <<>>, NEW before \in [Urb!Urbs -> Nat], Urb!Accounted(before),
         \A p \in 1..transferred : buffer[p] = p,
         NEW i \in Urb!Urbs, i = ready[1], ready' = Tail(ready), sent' = sent,
         \A j \in Urb!Urbs : urb'[j].len = urb[j].len, transferred' = transferred + urb[i].len,
         \/ buffer' = Urb!Moved(i)
         \/ buffer' = buffer /\ (urb[i].len = 0 \/ transferred = Urb!BufferOf(i))
  PROVE  Urb!Accounted(before)' /\ \A p \in 1..transferred' : buffer'[p] = p
<1> DEFINE r == Len(ready)
           len == urb[i].len
<1>1. /\ r \in Nat /\ ready \in Seq(Urb!Urbs) /\ sent \in Nat /\ transferred \in Nat /\ UrbLen \in Nat
  BY UrbFacts
<1>2. /\ r >= 1 /\ ready' \in Seq(Urb!Urbs) /\ Len(ready') = r - 1
      /\ \A k \in 1..(r - 1) : ready'[k] = ready[k + 1]
  <2>1. r # 0
    BY <1>1, EmptySeq
  <2> QED
    BY <1>1, <2>1, HeadTailProperties
<1>3. \A j \in Urb!Urbs : urb[j].len \in Nat /\ urb[j].len <= UrbLen
  <2>1. urb \in [Urb!Urbs -> [st : {"none", "queued", "done", "reaped"}, status : Urb!UrbStatus, len : 0..UrbLen]]
    BY DEF Urb!IndInv, Urb!RefInv, Urb!FlagTypes
  <2> QED
    BY <1>1, <2>1
<1>4. \A k \in 1..r : ready[k] \in Urb!Urbs /\ before[ready[k]] \in Nat
  BY <1>1
<1>5. \A k \in 1..r :
         /\ k = 1 => before[ready[k]] = transferred
         /\ k < r => before[ready[k + 1]] = before[ready[k]] + urb[ready[k]].len
         /\ k = r => sent = before[ready[k]] + urb[ready[k]].len
         /\ urb[ready[k]].len > 0 => before[ready[k]] <= Urb!BufferOf(ready[k])
         /\ \A p \in 1..urb[ready[k]].len : buffer[Urb!BufferOf(ready[k]) + p] = before[ready[k]] + p
         /\ before[ready[k]] + urb[ready[k]].len <= sent
         /\ \A l \in (k + 1)..r : before[ready[k]] + urb[ready[k]].len <= before[ready[l]]
  BY DEF Urb!Accounted
<1>6. /\ 1 \in 1..r /\ before[i] = transferred /\ transferred + len <= sent
      /\ (r = 1 => sent = transferred + len)
      /\ (1 < r => before[ready[2]] = transferred + len)
      /\ \A p \in 1..len : buffer[Urb!BufferOf(i) + p] = transferred + p
      /\ \A l \in 2..r : transferred + len <= before[ready[l]]
  <2>1. 1 \in 1..r
    BY <1>1, <1>2
  <2>2. before[i] = transferred
    BY <1>5, <2>1
  <2>3. 1 + 1 = 2
    OBVIOUS
  <2> QED
    BY <1>1, <1>5, <2>1, <2>2, <2>3
<1>7. len \in Nat /\ len <= UrbLen
  BY <1>3
<1>8. /\ Urb!Units \in Nat
      /\ \A j \in Urb!Urbs : Urb!BufferOf(j) \in Nat /\ Urb!BufferOf(j) + UrbLen <= Urb!Units
  BY Places
<1>9. transferred + len <= Urb!Units
  <2> DEFINE x == (Urb!Cardinality(Urb!Queued) + Urb!Unsent) * UrbLen
  <2>1. sent + x <= Urb!Units
    BY DEF Urb!IndInv, Urb!LengthInv
  <2>2. x \in Nat
    <3>1. Urb!Unsent \in Nat
      BY UrbFacts DEF Urb!Unsent
    <3>2. Urb!Cardinality(Urb!Queued) \in Nat
      <4>1. PICK lo \in 1..(MaxUrbs + 1), hi \in 0..MaxUrbs :
              lo <= hi + 1 /\ Urb!Cardinality(Urb!Queued) = hi - lo + 1
        BY Window
      <4> QED
        BY <4>1, KindsAssumption
    <3>3. Urb!Cardinality(Urb!Queued) + Urb!Unsent \in Nat
      BY <3>1, <3>2
    <3> QED
      BY <1>1, <3>3, Products
  <2> HIDE DEF x
  <2> QED
    BY <1>1, <1>6, <1>7, <1>8, <2>1, <2>2
<1> DEFINE Front == \A p \in 1..(transferred + len) : buffer'[p] = p
           Others == \A k \in 2..r : \A p \in 1..urb[ready[k]].len :
                       buffer'[Urb!BufferOf(ready[k]) + p] = buffer[Urb!BufferOf(ready[k]) + p]
<1> HIDE DEF len
<1>10. ASSUME buffer' = Urb!Moved(i) PROVE Front /\ Others
  <2>1. \A p \in 1..Urb!Units : buffer'[p] = IF p \in (transferred + 1)..(transferred + len)
                                  THEN buffer[p - transferred + Urb!BufferOf(i)] ELSE buffer[p]
    BY <1>10 DEF Urb!Moved, Urb!BufferOf, len
  <2>2. ASSUME NEW p \in 1..(transferred + len) PROVE buffer'[p] = p
    <3>1. p \in 1..Urb!Units
      BY <1>1, <1>7, <1>8, <1>9
    <3>2. CASE p \in 1..transferred
      <4>1. p \notin (transferred + 1)..(transferred + len)
        BY <1>1, <3>2
      <4> QED
        BY <2>1, <3>1, <3>2, <4>1
    <3>3. CASE p \notin 1..transferred
      <4>1. p \in (transferred + 1)..(transferred + len) /\ p - transferred \in 1..len
        BY <1>1, <1>7, <3>3
      <4>2. p - transferred + Urb!BufferOf(i) = Urb!BufferOf(i) + (p - transferred)
            /\ transferred + (p - transferred) = p
        BY <1>1, <1>8
      <4> QED
        BY <1>6, <2>1, <3>1, <4>1, <4>2
    <3> QED
      BY <3>2, <3>3
  <2>3. ASSUME NEW k \in 2..r, NEW p \in 1..urb[ready[k]].len
        PROVE  buffer'[Urb!BufferOf(ready[k]) + p] = buffer[Urb!BufferOf(ready[k]) + p]
    <3> DEFINE j == ready[k]
               y == Urb!BufferOf(j)
    <3>1. k \in 1..r
      BY <1>1
    <3>2. j \in Urb!Urbs /\ urb[j].len \in Nat /\ urb[j].len <= UrbLen /\ before[j] \in Nat
      BY <1>3, <1>4, <3>1
    <3>3. y \in Nat /\ y + UrbLen <= Urb!Units
      BY <1>8, <3>2
    <3>4. p \in Nat /\ 1 <= p /\ p <= UrbLen /\ urb[j].len > 0
      BY <1>1, <3>2
    <3>5. before[j] <= y /\ transferred + len <= before[j]
      BY <1>5, <1>6, <3>1, <3>4
    <3> HIDE DEF y, j
    <3>6. y + p \in 1..Urb!Units /\ y + p \notin (transferred + 1)..(transferred + len)
      <4>1. y + p \in Nat /\ 1 <= y + p /\ y + p <= Urb!Units
        BY <1>1, <1>8, <3>3, <3>4
      <4>2. transferred + len <= y
        BY <1>1, <1>7, <3>2, <3>3, <3>5
      <4>3. ~(y + p <= transferred + len)
        BY <1>1, <1>7, <3>3, <3>4, <4>2
      <4> QED
        BY <1>8, <4>1, <4>3
    <3>7. buffer'[y + p] = buffer[y + p]
      BY <2>1, <3>6
    <3> QED
      BY <3>7 DEF y, j
  <2> QED
    BY <2>2, <2>3
<1>11. ASSUME buffer' = buffer, len = 0 \/ transferred = Urb!BufferOf(i) PROVE Front /\ Others
  <2>1. ASSUME NEW p \in 1..(transferred + len) PROVE buffer[p] = p
    <3>1. CASE p \in 1..transferred
      BY <3>1
    <3>2. CASE p \notin 1..transferred
      <4>1. p - transferred \in 1..len /\ len # 0 /\ transferred + (p - transferred) = p
        BY <1>1, <1>7, <3>2
      <4>2. Urb!BufferOf(i) = transferred
        BY <1>11, <4>1
      <4> QED
        BY <1>6, <4>1, <4>2
    <3> QED
      BY <3>1, <3>2
  <2> QED
    BY <1>11, <2>1
<1>12. Front /\ Others
  BY <1>10, <1>11 DEF len
<1> HIDE DEF Front, Others
<1>13. ASSUME NEW k \in 1..Len(ready')
       PROVE  /\ k = 1 => before[ready'[k]] = transferred'
              /\ k < Len(ready') => before[ready'[k + 1]] = before[ready'[k]] + urb'[ready'[k]].len
              /\ k = Len(ready') => sent' = before[ready'[k]] + urb'[ready'[k]].len
              /\ urb'[ready'[k]].len > 0 => before[ready'[k]] <= Urb!BufferOf(ready'[k])
              /\ \A p \in 1..urb'[ready'[k]].len : buffer'[Urb!BufferOf(ready'[k]) + p] = before[ready'[k]] + p
              /\ before[ready'[k]] + urb'[ready'[k]].len <= sent'
              /\ \A l \in (k + 1)..Len(ready') : before[ready'[k]] + urb'[ready'[k]].len <= before[ready'[l]]
  <2> DEFINE m == k + 1
  <2>1. k \in 1..(r - 1) /\ m \in 1..r /\ m \in 2..r /\ ready'[k] = ready[m] /\ (k = 1 => m = 2 /\ 1 < r)
    BY <1>1, <1>2
  <2>2. urb'[ready[m]].len = urb[ready[m]].len
    BY <1>4, <2>1
  <2>3. k < Len(ready') => m < r /\ ready'[k + 1] = ready[m + 1]
    BY <1>1, <1>2, <2>1
  <2>4. k = Len(ready') => m = r
    BY <1>1, <1>2
  <2>5. \A l \in (k + 1)..Len(ready') : l + 1 \in (m + 1)..r /\ ready'[l] = ready[l + 1]
    BY <1>1, <1>2, <2>1
  <2> HIDE DEF m
  <2>6. \A p \in 1..urb[ready[m]].len : buffer'[Urb!BufferOf(ready[m]) + p] = before[ready[m]] + p
    BY <1>5, <1>12, <2>1 DEF Others
  <2>7. k = 1 => before[ready[m]] = transferred'
    BY <1>6, <2>1 DEF len
  <2>8. /\ k < Len(ready') => before[ready'[k + 1]] = before[ready[m]] + urb[ready[m]].len
        /\ k = Len(ready') => sent = before[ready[m]] + urb[ready[m]].len
    BY <1>5, <2>1, <2>3, <2>4
  <2>9. /\ urb[ready[m]].len > 0 => before[ready[m]] <= Urb!BufferOf(ready[m])
        /\ before[ready[m]] + urb[ready[m]].len <= sent
        /\ \A l \in (k + 1)..Len(ready') : before[ready[m]] + urb[ready[m]].len <= before[ready'[l]]
    BY <1>5, <2>1, <2>5
  <2> QED
    BY <2>1, <2>2, <2>6, <2>7, <2>8, <2>9
<1>14. /\ transferred' <= sent'
       /\ ready' = <<>> => transferred' = sent'
  <2>1. ready' = <<>> => r = 1
    <3>1. ready' = <<>> => Len(ready') = 0
      OBVIOUS
    <3> QED
      BY <1>1, <1>2, <3>1
  <2> QED
    BY <1>6, <2>1 DEF len
<1>15. Urb!Accounted(before)'
  BY <1>13, <1>14 DEF Urb!Accounted, Urb!BufferOf
<1> QED
  BY <1>12, <1>15 DEF Front, len

\* What a step has to show that leaves the data, the URBs and the queue alone
LEMMA DataKept ==
  ASSUME Urb!DataInv, Urb!TailInv, UNCHANGED <<kind, urb, ready, sent, buffer, transferred>>,
         sub' = sub \/ sub' = 0,
         polled' \/ result' # "NO_DEVICE" => polled \/ result # "NO_DEVICE"
  PROVE  Urb!DataInv' /\ Urb!TailInv'
<1>1. Urb!Queued' = Urb!Queued /\ (Urb!Streams' <=> Urb!Streams)
  BY DEF Urb!Queued, Urb!Streams
<1>2. Urb!TailInv'
  BY <1>1 DEF Urb!TailInv
<1>3. ASSUME Urb!Streams, polled \/ result # "NO_DEVICE"
      PROVE  /\ \E before \in [Urb!Urbs -> Nat] : Urb!Accounted(before)'
             /\ \A p \in 1..transferred' : buffer'[p] = p
             /\ \A i \in Urb!Queued' : sent' <= Urb!BufferOf(i)
             /\ sub' > 0 => sent' <= Urb!BufferOf(sub')
  <2>1. PICK before \in [Urb!Urbs -> Nat] : Urb!Accounted(before)
    BY <1>3 DEF Urb!DataInv
  <2>2. Urb!Accounted(before)'
    BY <2>1 DEF Urb!Accounted, Urb!BufferOf
  <2>3. \A p \in 1..transferred' : buffer'[p] = p
    BY <1>3 DEF Urb!DataInv
  <2>4. \A i \in Urb!Queued' : sent' <= Urb!BufferOf(i)
    BY <1>1, <1>3 DEF Urb!DataInv
  <2>5. sub' > 0 => sent' <= Urb!BufferOf(sub')
    BY <1>3 DEF Urb!DataInv
  <2> QED
    BY <2>2, <2>3, <2>4, <2>5
<1>4. Urb!DataInv'
  BY <1>1, <1>3 DEF Urb!DataInv, Urb!BufferOf
<1> QED
  BY <1>2, <1>4

LEMMA PlaceCancelTransfer ==
  ASSUME Urb!IndInv, Urb!PlaceInv, NEW timeout \in BOOLEAN, Urb!CancelTransfer(timeout)
  PROVE  Urb!PlaceInv'
<1>1. /\ reapAction' = Urb!ActionOnCancel
      /\ UNCHANGED <<kind, n, urb, ready, sent, polled, isoSlots, reapStatus, buffer, transferred, sub,
                     ev, flying, result>>
  BY DEF Urb!CancelTransfer, Urb!kernelVars, Urb!devVars, Urb!dataVars
<1>2. reapAction' # "NORMAL"
  BY <1>1 DEF Urb!ActionOnCancel
<1>3. Urb!DataInv' /\ Urb!TailInv'
  BY <1>1, DataKept DEF Urb!PlaceInv
<1> QED
  BY <1>1, <1>2, <1>3 DEF Urb!PlaceInv, Urb!ResultInv, Urb!NormalInv, Urb!IsoInv

LEMMA PlaceLaterUrbFails ==
  ASSUME Urb!IndInv, Urb!PlaceInv, Urb!LaterUrbFails
  PROVE  Urb!PlaceInv'
<1>1. /\ reapAction' # "NORMAL" /\ sub' = 0
      /\ UNCHANGED <<kind, n, urb, ready, sent, polled, isoSlots, reapStatus, buffer, transferred,
                     ev, flying, result>>
  BY DEF Urb!LaterUrbFails, Urb!kernelVars, Urb!devVars, Urb!dataVars, Urb!flagVars
<1>2. Urb!DataInv' /\ Urb!TailInv'
  BY <1>1, DataKept DEF Urb!PlaceInv
<1> QED
  BY <1>1, <1>2 DEF Urb!PlaceInv, Urb!ResultInv, Urb!NormalInv, Urb!IsoInv

LEMMA PlaceFirstUrbFails ==
  ASSUME Urb!IndInv, Urb!PlaceInv, Urb!FirstUrbFails
  PROVE  Urb!PlaceInv'
<1>1. /\ sub = 1 /\ mem' = FALSE /\ flying' = FALSE /\ sub' = 0 /\ result' = "REFUSED"
      /\ UNCHANGED <<kind, n, urb, ready, sent, polled, isoSlots, reapStatus, buffer, transferred, ev>>
  BY DEF Urb!FirstUrbFails, Urb!kernelVars, Urb!devVars, Urb!dataVars
<1>2. flying /\ result = "none"
  BY <1>1 DEF Urb!IndInv, Urb!RefInv, Urb!LockInv, Urb!PlaceInv, Urb!ResultInv
<1>3. Urb!DataInv' /\ Urb!TailInv'
  BY <1>1, <1>2, DataKept DEF Urb!PlaceInv
<1> QED
  BY <1>1, <1>3 DEF Urb!PlaceInv, Urb!ResultInv, Urb!NormalInv, Urb!IsoInv

LEMMA PlaceReportTransfer ==
  ASSUME Urb!IndInv, Urb!PlaceInv, Urb!ReportTransfer
  PROVE  Urb!PlaceInv'
<1>1. /\ ev # "idle" /\ flying' = FALSE /\ ev' = "idle"
      /\ result' = IF ev = "cancelled" \/ (ev = "report" /\ reapAction = "CANCELLED")
                   THEN Urb!CancellationStatus ELSE Urb!CompletionStatus(reapStatus)
      /\ UNCHANGED <<kind, n, urb, ready, sent, polled, mem, isoSlots, reapStatus, buffer, transferred, sub>>
  BY DEF Urb!ReportTransfer, Urb!kernelVars, Urb!devVars, Urb!dataVars, Urb!tprivVars
<1>2. flying /\ result = "none" /\ ~mem /\ ev \in {"report", "cancelled", "completed"}
  BY <1>1 DEF Urb!IndInv, Urb!RefInv, Urb!FlagTypes, Urb!ReportInv, Urb!PlaceInv, Urb!ResultInv
<1>3. Urb!DataInv' /\ Urb!TailInv'
  BY <1>1, <1>2, DataKept DEF Urb!PlaceInv
<1>4. kind = "iso" /\ result' = "COMPLETED" => isoSlots = [i \in 1..n |-> i]
  <2> SUFFICES ASSUME kind = "iso", result' = "COMPLETED" PROVE isoSlots = [i \in 1..n |-> i]
    OBVIOUS
  <2>1. ev # "report"
    BY DEF Urb!PlaceInv, Urb!IsoInv
  <2>2. ev = "completed" /\ reapStatus = "COMPLETED"
    BY <1>1, <1>2, <2>1 DEF Urb!CancellationStatus, Urb!CompletionStatus
  <2> QED
    BY <2>2 DEF Urb!PlaceInv, Urb!IsoInv
<1> QED
  BY <1>1, <1>2, <1>3, <1>4 DEF Urb!PlaceInv, Urb!ResultInv, Urb!NormalInv, Urb!IsoInv

LEMMA PlaceHandleDisconnect ==
  ASSUME Urb!IndInv, Urb!PlaceInv, Urb!HandleDisconnect
  PROVE  Urb!PlaceInv'
<1>1. /\ ev = "idle" /\ polled' = FALSE /\ mem' = FALSE /\ ready' = <<>> /\ flying' = FALSE
      /\ result' = IF flying THEN "NO_DEVICE" ELSE result
      /\ UNCHANGED <<kind, n, urb, sent, isoSlots, reapStatus, buffer, transferred, sub, ev>>
  BY DEF Urb!HandleDisconnect, Urb!dataVars, Urb!NoneFlying
<1>2. Urb!DataInv' /\ Urb!TailInv'
  <2>1. CASE flying
    <3>1. result' = "NO_DEVICE" /\ ~polled' /\ Len(ready') = 0 /\ 1..0 = {}
      BY <1>1, <2>1
    <3> QED
      BY <3>1 DEF Urb!DataInv, Urb!TailInv
  <2>2. CASE ~flying
    <3>1. ready = <<>>
      BY <2>2 DEF Urb!IndInv, Urb!RefInv, Urb!ReportInv, Urb!CountInv
    <3> QED
      BY <1>1, <2>2, <3>1, DataKept DEF Urb!PlaceInv
  <2> QED
    BY <2>1, <2>2
<1>3. kind = "iso" /\ result' = "COMPLETED" => isoSlots = [i \in 1..n |-> i]
  BY <1>1 DEF Urb!PlaceInv, Urb!IsoInv
<1> QED
  BY <1>1, <1>2, <1>3 DEF Urb!PlaceInv, Urb!ResultInv, Urb!NormalInv, Urb!IsoInv

LEMMA PlaceSubmitTransfer ==
  ASSUME Urb!IndInv, Urb!PlaceInv, Urb!SubmitTransfer
  PROVE  Urb!PlaceInv'
<1>1. /\ ~mem /\ ev = "idle" /\ flying' = TRUE /\ mem' = TRUE /\ result' = "none" /\ transferred' = 0
      /\ retired' = 0 /\ isoSlots' = <<>> /\ urb' = [i \in Urb!Urbs |-> Urb!NoUrb]
      /\ sent' = 0 /\ sub' = 1 /\ UNCHANGED <<ready, ev>>
  BY DEF Urb!SubmitTransfer
<1>2. ready' = <<>> /\ Len(ready') = 0 /\ 1..0 = {}
  BY <1>1 DEF Urb!IndInv, Urb!CountInv
<1>3. Urb!Queued' = {}
  BY <1>1 DEF Urb!Queued, Urb!NoUrb
<1>4. Urb!TailInv'
  BY <1>2 DEF Urb!TailInv
<1>5. 0 * UrbLen = 0 /\ (1 - 1) * UrbLen = 0 /\ 0 <= 0
  BY KindsAssumption
<1>6. Urb!DataInv'
  <2>1. PICK before \in [Urb!Urbs -> Nat] : TRUE
    <3>1. [i \in Urb!Urbs |-> 0] \in [Urb!Urbs -> Nat]
      OBVIOUS
    <3> QED
      BY <3>1
  <2>2. Urb!Accounted(before)'
    BY <1>1, <1>2, <1>5 DEF Urb!Accounted
  <2>3. sub' > 0 => sent' <= Urb!BufferOf(sub)'
    BY <1>1, <1>5 DEF Urb!BufferOf
  <2> QED
    BY <1>1, <1>2, <1>3, <2>2, <2>3 DEF Urb!DataInv
<1>7. Urb!NormalInv'
  BY <1>1, <1>5 DEF Urb!NormalInv
<1>8. Urb!IsoInv'
  <2>1. isoSlots' = [i \in 1..retired' |-> i]
    BY <1>1, <1>2
  <2> QED
    BY <1>1, <2>1 DEF Urb!IsoInv
<1> QED
  BY <1>1, <1>4, <1>6, <1>7, <1>8 DEF Urb!PlaceInv, Urb!ResultInv

\* The same for the whole invariant; only the first of the URBs in the kernel's hands brings data.
LEMMA PlaceMoved ==
  ASSUME Urb!IndInv, Urb!PlaceInv, "bulk" \notin FaultyKinds,
         NEW a \in Nat, NEW b \in Nat, a <= b, a..b \subseteq Urb!Queued, NEW len \in 0..UrbLen,
         len = 0 \/ \A j \in Urb!Queued : a <= j,
         Len(ready') = Len(ready) + (b - a + 1), \A k \in 1..Len(ready) : ready'[k] = ready[k],
         \A k \in 1..(b - a + 1) : ready'[Len(ready) + k] = a + k - 1,
         \A j \in Urb!Urbs : urb'[j].len = IF j = a THEN len ELSE IF j \in a..b THEN 0 ELSE urb[j].len,
         \A j \in Urb!Urbs : j \in a..b \/ urb'[j].status = urb[j].status,
         Urb!Queued' = Urb!Queued \ (a..b),
         \A p \in 1..Urb!Units : buffer'[p] = Urb!Filled(a, len)[p], sent' = sent + len,
         UNCHANGED <<kind, n, polled, mem, reapAction, retired, reapStatus, isoSlots, transferred, sub, ev,
                     flying, result>>
  PROVE  Urb!PlaceInv'
<1> DEFINE r == Len(ready)
<1>1. /\ r \in Nat /\ ready \in Seq(Urb!Urbs) /\ sent \in Nat /\ transferred \in Nat /\ UrbLen \in Nat
      /\ len \in Nat /\ len <= UrbLen /\ n \in Nat /\ n <= MaxUrbs /\ sub \in 0..n
  <2>1. UrbLen \in Nat
    BY UrbFacts
  <2> QED
    BY <2>1, UrbFacts
<1>2. a \in a..b /\ a \in Urb!Queued /\ a \in Urb!Urbs
  <2>1. a \in a..b
    OBVIOUS
  <2> QED
    BY <2>1, QueuedUrbs
<1>3. mem
  BY <1>2 DEF Urb!IndInv, Urb!CountInv
<1>4. Urb!Streams' <=> Urb!Streams
  BY DEF Urb!Streams
<1>5. Urb!ResultInv' /\ Urb!IsoInv'
  BY DEF Urb!PlaceInv, Urb!ResultInv, Urb!IsoInv
<1>6. Urb!NormalInv'
  <2>1. ~Urb!NoMoreData
    BY <1>2 DEF Urb!NoMoreData
  <2> QED
    BY <1>4, <2>1 DEF Urb!PlaceInv, Urb!NormalInv
<1>7. Urb!DataInv'
  <2> SUFFICES ASSUME Urb!Streams, polled \/ result # "NO_DEVICE"
               PROVE  /\ \E before \in [Urb!Urbs -> Nat] : Urb!Accounted(before)'
                      /\ \A p \in 1..transferred : buffer'[p] = p
                      /\ \A i \in Urb!Queued' : sent' <= Urb!BufferOf(i)
                      /\ sub > 0 => sent' <= Urb!BufferOf(sub)
    BY <1>4 DEF Urb!DataInv, Urb!BufferOf
  <2>1. PICK before \in [Urb!Urbs -> Nat] : Urb!Accounted(before)
    BY DEF Urb!PlaceInv, Urb!DataInv
  <2>2. /\ \A p \in 1..transferred : buffer[p] = p
        /\ \A j \in Urb!Queued : sent <= Urb!BufferOf(j)
        /\ sub > 0 => sent <= Urb!BufferOf(sub)
    BY DEF Urb!PlaceInv, Urb!DataInv
  <2>3. /\ \E f \in [Urb!Urbs -> Nat] : Urb!Accounted(f)'
        /\ \A p \in 1..transferred : buffer'[p] = p
    BY <1>3, <2>1, <2>2, DataMoved, ZenonT(30)
  <2>4. ASSUME len = 0 PROVE sent' = sent
    BY <1>1, <2>4
  <2>5. ASSUME NEW j \in Urb!Urbs, a < j PROVE sent' <= Urb!BufferOf(j)
    <3>1. sent <= Urb!BufferOf(a)
      BY <1>2, <2>2
    <3>2. Urb!BufferOf(a) + UrbLen <= Urb!BufferOf(j) /\ Urb!BufferOf(a) \in Nat /\ Urb!BufferOf(j) \in Nat
      BY <1>2, <2>5, Places
    <3> QED
      BY <1>1, <3>1, <3>2
  <2>6. ASSUME NEW j \in Urb!Queued' PROVE sent' <= Urb!BufferOf(j)
    <3>1. j \in Urb!Queued /\ j \notin a..b /\ j \in Urb!Urbs
      BY <2>6, QueuedUrbs
    <3>2. CASE len = 0
      BY <2>2, <2>4, <3>1, <3>2
    <3>3. CASE len # 0
      <4>1. a <= j /\ a # j /\ j \in Nat
        BY <1>2, <3>1, <3>3, Places
      <4> QED
        BY <2>5, <3>1, <4>1
    <3> QED
      BY <3>2, <3>3
  <2>7. ASSUME sub > 0 PROVE sent' <= Urb!BufferOf(sub)
    <3>1. sub \in Urb!Urbs
      BY <1>1, <2>7, KindsAssumption DEF Urb!Urbs
    <3>2. a < sub
      <4>1. urb[a].st # "none"
        BY <1>2 DEF Urb!Queued
      <4> QED
        BY <1>2, <2>7, <4>1 DEF Urb!IndInv, Urb!UrbInv
    <3> QED
      BY <2>5, <3>1, <3>2
  <2> QED
    BY <2>3, <2>6, <2>7
<1>8. Urb!TailInv'
  <2> SUFFICES ASSUME Urb!Streams, NEW k \in 1..Len(ready'), NEW l \in 1..Len(ready'), k < l,
                      urb'[ready'[k]].status \in {"gone"} \union Faults
               PROVE  urb'[ready'[l]].len = 0
    BY <1>4 DEF Urb!TailInv
  <2>1. \A j \in a..b : j \in Urb!Urbs /\ urb[j].st = "queued"
    BY DEF Urb!Queued
  <2>2. \A m \in 1..r : ready[m] \in Urb!Urbs /\ ready[m] \notin a..b /\ urb[ready[m]].st = "done"
    <3>1. \A m \in 1..r : ready[m] \in Urb!Urbs /\ urb[ready[m]].st = "done"
      BY <1>1, <1>3 DEF Urb!IndInv, Urb!ReadyInv
    <3> QED
      BY <2>1, <3>1
  <2>3. \A m \in 1..r : ready'[m] = ready[m] /\ urb'[ready[m]].status = urb[ready[m]].status
                        /\ urb'[ready[m]].len = urb[ready[m]].len
    <3>1. \A m \in 1..r : ready[m] # a
      BY <1>2, <2>2
    <3> QED
      BY <2>2, <3>1
  <2>4. k \in Nat /\ l \in Nat /\ 1 <= k /\ l <= r + (b - a + 1)
    BY <1>1
  <2>5. CASE l <= r
    <3>1. k \in 1..r /\ l \in 1..r
      BY <1>1, <2>4, <2>5
    <3>2. urb[ready[k]].status \in {"gone"} \union Faults
      BY <2>3, <3>1
    <3> QED
      BY <2>3, <3>1, <3>2 DEF Urb!PlaceInv, Urb!TailInv
  <2>6. CASE k <= r /\ l > r
    <3>1. k \in 1..r
      BY <1>1, <2>4, <2>6
    <3>2. urb[ready[k]].status \in {"gone"} \union Faults /\ ready[k] \in Urb!Urbs
      BY <2>2, <2>3, <3>1
    <3>3. urb[ready[k]].status # "gone" /\ ~refuse
      BY <1>2, <3>2 DEF Urb!IndInv, Urb!UrbInv
    <3>4. kind \in FaultyKinds /\ (kind = "bulkcont" => refuse) /\ (kind = "interrupt" => n = 1)
      BY <3>2, <3>3 DEF Urb!IndInv, Urb!UrbInv
    <3>5. kind = "interrupt"
      <4>1. kind \in Kinds
        BY <1>3 DEF Urb!IndInv, Urb!RefInv, Urb!ReportInv
      <4> QED
        BY <3>3, <3>4, <4>1, KindsAssumption DEF Urb!Streams
    <3>6. urb[ready[k]].st # "none" /\ urb[a].st # "none"
      BY <1>2, <2>2, <3>1 DEF Urb!Queued
    <3>7. ready[k] <= 1 /\ a <= 1
      BY <1>2, <3>2, <3>4, <3>5, <3>6 DEF Urb!IndInv, Urb!UrbInv
    <3>8. ready[k] = a
      <4>1. ready[k] \in Nat /\ 1 <= ready[k] /\ 1 <= a
        BY <1>2, <3>2, Places
      <4> QED
        BY <3>7, <4>1
    <3> QED
      BY <1>2, <2>2, <3>1, <3>8
  <2>7. CASE k > r
    <3> DEFINE m == l - r
    <3>1. m \in 1..(b - a + 1) /\ m # 1 /\ l = r + m /\ m \in Nat
      BY <1>1, <2>4, <2>7
    <3> HIDE DEF m
    <3>2. ready'[l] = a + m - 1
      BY <3>1
    <3>3. a + m - 1 \in a..b /\ a + m - 1 # a
      BY <3>1
    <3>4. a + m - 1 \in Urb!Urbs
      BY <2>1, <3>3
    <3> QED
      BY <3>2, <3>3, <3>4
  <2> QED
    BY <1>1, <2>4, <2>5, <2>6, <2>7
<1> QED
  BY <1>5, <1>6, <1>7, <1>8 DEF Urb!PlaceInv

LEMMA PlaceKernelCompletes ==
  ASSUME Urb!IndInv, Urb!PlaceInv, "bulk" \notin FaultyKinds,
         NEW i \in Urb!Urbs, NEW s \in Urb!UrbStatus, NEW len \in 0..UrbLen,
         Urb!KernelCompletes(i, s, len)
  PROVE  Urb!PlaceInv'
<1>1. /\ Urb!Active(i) /\ Urb!Complete(i, s, len, Urb!Rest(i, s))
      /\ UNCHANGED <<kind, n, polled, mem, reapAction, retired, reapStatus, isoSlots, transferred, sub, ev,
                     flying, result>>
  BY DEF Urb!KernelCompletes, Urb!tprivVars, Urb!devVars, Urb!flagVars
<1>2. PICK lo \in 1..(MaxUrbs + 1), hi \in 0..MaxUrbs : Urb!Queued = lo..hi
  BY Window
<1>3. lo \in Nat /\ hi \in Nat /\ i \in Nat
  BY KindsAssumption, Places
<1>4. i \in lo..hi /\ \A j \in Urb!Queued : i <= j
  BY <1>1, <1>2 DEF Urb!Active
<1> DEFINE b == IF kind = "bulkcont" /\ s # "ok" THEN hi ELSE i
<1>5. PICK c \in Nat : c = b
  BY <1>3
<1>6. i <= c /\ c <= hi
  BY <1>3, <1>4, <1>5
<1>7. Urb!Rest(i, s) = (i + 1)..c
  <2>1. CASE kind = "bulkcont" /\ s # "ok"
    <3>1. Urb!Rest(i, s) = {j \in lo..hi : j > i}
      BY <1>2, <2>1 DEF Urb!Rest
    <3>2. {j \in lo..hi : j > i} = (i + 1)..hi
      BY <1>3, <1>4
    <3> QED
      BY <1>5, <2>1, <3>1, <3>2
  <2>2. CASE ~(kind = "bulkcont" /\ s # "ok")
    <3>1. Urb!Rest(i, s) = {} /\ c = i
      BY <1>5, <2>2 DEF Urb!Rest
    <3>2. (i + 1)..i = {}
      BY <1>3
    <3> QED
      BY <3>1, <3>2
  <2> QED
    BY <2>1, <2>2
<1> HIDE DEF b
<1>8. Urb!Complete(i, s, len, (i + 1)..c) /\ i..c \subseteq Urb!Queued
  BY <1>1, <1>2, <1>3, <1>4, <1>6, <1>7
<1>9. Urb!FlagTypes
  BY DEF Urb!IndInv, Urb!RefInv
<1>10. /\ \A j \in Urb!Urbs : urb'[j].st = IF j \in i..c THEN "done" ELSE urb[j].st
       /\ \A j \in Urb!Urbs : urb'[j].status = IF j = i THEN s
              ELSE IF j \in i..c THEN "cancelled" ELSE urb[j].status
       /\ \A j \in Urb!Urbs : urb'[j].len = IF j = i THEN len
              ELSE IF j \in i..c THEN 0 ELSE urb[j].len
       /\ Len(ready') = Len(ready) + (c - i + 1)
       /\ \A k \in 1..Len(ready) : ready'[k] = ready[k]
       /\ \A k \in 1..(c - i + 1) : ready'[Len(ready) + k] = i + k - 1
       /\ Urb!Queued' = Urb!Queued \ (i..c)
  <2>1. i \in Nat /\ c \in Nat /\ i <= c
    BY <1>3, <1>6
  <2>2. Urb!Complete(i, s, len, (i + 1)..c)
    BY <1>8
  <2>3. i..c \subseteq Urb!Queued
    BY <1>8
  <2> QED
    BY <1>9, <2>1, <2>2, <2>3, CompleteEffect, Zenon
<1>11. i \in i..c
  BY <1>3, <1>6
<1>12. \A j \in Urb!Urbs : j \in i..c \/ urb'[j].status = urb[j].status
  BY <1>10, <1>11
<1>13. /\ \A p \in 1..Urb!Units : buffer'[p] = Urb!Filled(i, len)[p]
       /\ sent' = sent + len
  BY <1>1 DEF Urb!Complete
<1> QED
  BY <1>1, <1>3, <1>4, <1>6, <1>8, <1>10, <1>12, <1>13, PlaceMoved, ZenonT(30)

LEMMA PlaceDiscardUrb ==
  ASSUME Urb!IndInv, Urb!PlaceInv, "bulk" \notin FaultyKinds, NEW len \in 0..UrbLen, Urb!DiscardUrb(len)
  PROVE  Urb!PlaceInv'
<1>1. UNCHANGED <<kind, n, refuse, plugged, polled, mem, reapAction, retired, reapStatus, isoSlots, transferred,
                  sub, ev, flying, result>>
  BY DEF Urb!DiscardUrb, Urb!tprivVars, Urb!devVars, Urb!flagVars
<1>2. PICK i \in Nat : i = disc[2]
  BY UrbFacts
<1>3. CASE i \notin Urb!Queued
  <2>1. UNCHANGED <<urb, ready, sent, buffer>>
    BY <1>2, <1>3 DEF Urb!DiscardUrb
  <2>2. Urb!DataInv' /\ Urb!TailInv'
    BY <1>1, <2>1, DataKept DEF Urb!PlaceInv
  <2>3. Urb!Queued' = Urb!Queued
    BY <2>1 DEF Urb!Queued
  <2>4. Urb!NormalInv'
    BY <1>1, <2>1, <2>3 DEF Urb!PlaceInv, Urb!NormalInv, Urb!NoMoreData, Urb!Streams
  <2> QED
    BY <1>1, <2>2, <2>4 DEF Urb!PlaceInv, Urb!ResultInv, Urb!IsoInv
<1>4. CASE i \in Urb!Queued
  <2>1. Urb!Complete(i, "cancelled", len, {}) /\ (len = 0 \/ Urb!Active(i))
    BY <1>2, <1>4 DEF Urb!DiscardUrb
  <2>2. Urb!Complete(i, "cancelled", len, (i + 1)..i) /\ i..i \subseteq Urb!Queued /\ i <= i
    <3>1. (i + 1)..i = {} /\ i..i = {i}
      OBVIOUS
    <3> QED
      BY <1>4, <2>1, <3>1
  <2>3. Urb!FlagTypes
    BY DEF Urb!IndInv, Urb!RefInv
  <2>4. /\ \A j \in Urb!Urbs : urb'[j].status = IF j = i THEN "cancelled"
               ELSE IF j \in i..i THEN "cancelled" ELSE urb[j].status
        /\ \A j \in Urb!Urbs : urb'[j].len = IF j = i THEN len
               ELSE IF j \in i..i THEN 0 ELSE urb[j].len
        /\ Len(ready') = Len(ready) + (i - i + 1)
        /\ \A k \in 1..Len(ready) : ready'[k] = ready[k]
        /\ \A k \in 1..(i - i + 1) : ready'[Len(ready) + k] = i + k - 1
        /\ Urb!Queued' = Urb!Queued \ (i..i)
    BY <2>2, <2>3, CompleteEffect
  <2>5. \A j \in Urb!Urbs : j \in i..i \/ urb'[j].status = urb[j].status
    <3>1. i \in i..i
      OBVIOUS
    <3> QED
      BY <2>4, <3>1
  <2>6. /\ \A p \in 1..Urb!Units : buffer'[p] = Urb!Filled(i, len)[p]
        /\ sent' = sent + len
    BY <2>1 DEF Urb!Complete
  <2>7. len = 0 \/ \A j \in Urb!Queued : i <= j
    BY <2>1 DEF Urb!Active
  <2> QED
    BY <1>1, <2>2, <2>4, <2>5, <2>6, <2>7, PlaceMoved
<1> QED
  BY <1>3, <1>4

LEMMA PlaceUnplug ==
  ASSUME Urb!IndInv, Urb!PlaceInv, "bulk" \notin FaultyKinds, Urb!Unplug
  PROVE  Urb!PlaceInv'
<1>1. /\ plugged' = FALSE
      /\ urb' = [j \in Urb!Urbs |-> IF j \in Urb!Queued
                   THEN [st |-> "done", status |-> "gone", len |-> 0] ELSE urb[j]]
      /\ ready' = ready \o Urb!InOrder(Urb!Queued)
      /\ UNCHANGED <<kind, n, refuse, sent, polled, mem, reapAction, retired, reapStatus, isoSlots,
                     buffer, transferred, sub, ev, flying, result>>
  BY DEF Urb!Unplug, Urb!tprivVars, Urb!dataVars, Urb!flagVars
<1>2. PICK lo \in 1..(MaxUrbs + 1), hi \in 0..MaxUrbs : Urb!Queued = lo..hi /\ lo <= hi + 1
  BY Window
<1>3. lo \in Nat /\ hi \in Nat /\ 1 <= lo /\ hi <= MaxUrbs /\ UrbLen \in Nat
  BY KindsAssumption
<1>4. ready \in Seq(Urb!Urbs) /\ Len(ready) \in Nat /\ sent \in Nat
  BY UrbFacts
<1> DEFINE q == Urb!InOrder(lo..hi)
<1>5. /\ q \in Seq(Urb!Urbs) /\ Len(q) = hi - lo + 1
      /\ \A k \in 1..(hi - lo + 1) : q[k] = lo + k - 1
  BY <1>2, <1>3, InOrderInterval
<1>6. ready' = ready \o q
  BY <1>1, <1>2
<1> HIDE DEF q
<1>7. CASE lo <= hi
  <2>1. /\ Len(ready') = Len(ready) + Len(q)
        /\ \A k \in 1..(Len(ready) + Len(q)) :
             ready'[k] = IF k <= Len(ready) THEN ready[k] ELSE q[k - Len(ready)]
    BY <1>4, <1>5, <1>6, ConcatProperties
  <2>2. ASSUME NEW k \in 1..Len(ready) PROVE ready'[k] = ready[k]
    <3>1. k \in 1..(Len(ready) + Len(q)) /\ k <= Len(ready)
      BY <1>3, <1>4, <1>5, <1>7
    <3> QED
      BY <2>1, <3>1
  <2>3. ASSUME NEW k \in 1..(hi - lo + 1) PROVE ready'[Len(ready) + k] = lo + k - 1
    <3>1. /\ Len(ready) + k \in 1..(Len(ready) + Len(q)) /\ ~(Len(ready) + k <= Len(ready))
          /\ (Len(ready) + k) - Len(ready) = k
      BY <1>3, <1>4, <1>5
    <3> QED
      BY <1>5, <2>1, <3>1
  <2>4. \A j \in Urb!Urbs : j \in lo..hi => urb'[j].len = 0 /\ urb'[j].st = "done"
    BY <1>1, <1>2
  <2>5. \A j \in Urb!Urbs : j \notin lo..hi => urb'[j] = urb[j]
    BY <1>1, <1>2
  <2>6. lo \in lo..hi /\ lo..hi \subseteq Urb!Queued
    BY <1>2, <1>3, <1>7
  <2>7. /\ \A j \in Urb!Urbs : urb'[j].len = IF j = lo THEN 0 ELSE IF j \in lo..hi THEN 0 ELSE urb[j].len
        /\ \A j \in Urb!Urbs : j \in lo..hi \/ urb'[j].status = urb[j].status
    BY <2>4, <2>5, <2>6
  <2>8. Urb!Queued' = Urb!Queued \ (lo..hi)
    BY <1>2, <2>4, <2>5 DEF Urb!Queued
  <2>9. /\ 0 \in 0..UrbLen /\ sent' = sent + 0
        /\ \A p \in 1..Urb!Units : buffer'[p] = Urb!Filled(lo, 0)[p]
    <3>1. 0 \in 0..UrbLen /\ sent' = sent + 0
      BY <1>1, <1>3, <1>4
    <3>2. (lo - 1) * UrbLen \in Nat
      <4>1. lo - 1 \in Nat
        BY <1>3
      <4> QED
        BY <1>3, <4>1, Products
    <3>3. ((lo - 1) * UrbLen + 1)..((lo - 1) * UrbLen + 0) = {}
      BY <3>2
    <3>4. \A p \in 1..Urb!Units : buffer[p] = Urb!Filled(lo, 0)[p]
      BY <3>3 DEF Urb!Filled
    <3> QED
      BY <1>1, <3>1, <3>4
  <2>10. Len(ready') = Len(ready) + (hi - lo + 1)
    BY <1>5, <2>1
  <2> QED
    BY <1>1, <1>3, <1>7, <2>2, <2>3, <2>6, <2>7, <2>8, <2>9, <2>10, PlaceMoved
<1>8. CASE ~(lo <= hi)
  <2>1. Urb!Queued = {} /\ Len(q) = 0
    <3>1. lo..hi = {} /\ hi - lo + 1 = 0
      BY <1>2, <1>3, <1>8
    <3> QED
      BY <1>2, <1>5, <3>1
  <2>2. ready' = ready
    <3>1. q = <<>>
      BY <1>5, <2>1, EmptySeq
    <3> QED
      BY <1>4, <1>6, <3>1, ConcatEmptySeq
  <2>3. urb' = urb
    <3>1. urb \in [Urb!Urbs -> [st : {"none", "queued", "done", "reaped"}, status : Urb!UrbStatus, len : 0..UrbLen]]
      BY DEF Urb!IndInv, Urb!RefInv, Urb!FlagTypes
    <3> QED
      BY <1>1, <2>1, <3>1
  <2>4. Urb!DataInv' /\ Urb!TailInv'
    BY <1>1, <2>2, <2>3, DataKept DEF Urb!PlaceInv
  <2>5. Urb!Queued' = Urb!Queued
    BY <2>3 DEF Urb!Queued
  <2>6. Urb!NormalInv'
    BY <1>1, <2>2, <2>3, <2>5 DEF Urb!PlaceInv, Urb!NormalInv, Urb!NoMoreData, Urb!Streams
  <2> QED
    BY <1>1, <2>4, <2>6 DEF Urb!PlaceInv, Urb!ResultInv, Urb!IsoInv
<1> QED
  BY <1>7, <1>8

LEMMA PlaceSubmitUrb ==
  ASSUME Urb!IndInv, Urb!PlaceInv, Urb!SubmitUrb
  PROVE  Urb!PlaceInv'
<1> DEFINE q == [Urb!NoUrb EXCEPT !.st = "queued"]
           R == [st : {"none", "queued", "done", "reaped"}, status : Urb!UrbStatus, len : 0..UrbLen]
<1>1. /\ sub > 0 /\ plugged /\ ~refuse /\ urb' = [urb EXCEPT ![sub] = q]
      /\ UNCHANGED <<kind, n, ready, sent, polled, mem, reapAction, retired, reapStatus, isoSlots, buffer,
                     transferred, ev, flying, result>>
      /\ \/ sub = n /\ sub' = 0
         \/ sub # n /\ sub' = sub + 1
  BY DEF Urb!SubmitUrb, Urb!LastUrb, Urb!tprivVars, Urb!devVars, Urb!dataVars, Urb!flagVars
<1>2. /\ n \in Nat /\ n <= MaxUrbs /\ sub \in 0..n /\ MaxUrbs \in Nat /\ UrbLen \in Nat /\ sent \in Nat
      /\ ready \in Seq(Urb!Urbs) /\ Len(ready) \in Nat
  BY UrbFacts
<1>3. sub \in Urb!Urbs /\ sub \in Nat
  BY <1>1, <1>2 DEF Urb!Urbs
<1>4. q.st = "queued"
  BY DEF Urb!NoUrb
<1>5. urb \in [Urb!Urbs -> R]
  BY DEF Urb!IndInv, Urb!RefInv, Urb!FlagTypes
<1> HIDE DEF q, R
<1>6. \A j \in Urb!Urbs : urb'[j] = IF j = sub THEN q ELSE urb[j]
  BY <1>1, <1>3, <1>5
<1>7. mem
  BY <1>1 DEF Urb!IndInv, Urb!RefInv, Urb!LockInv
<1>8. \A k \in 1..Len(ready) : ready[k] \in Urb!Urbs /\ urb'[ready[k]] = urb[ready[k]]
  <2>1. urb[sub].st = "none"
    <3>1. ~(sub < sub)
      BY <1>3
    <3> QED
      BY <1>1, <1>3, <3>1 DEF Urb!IndInv, Urb!UrbInv
  <2>2. \A k \in 1..Len(ready) : ready[k] \in Urb!Urbs /\ urb[ready[k]].st = "done"
    BY <1>2, <1>7 DEF Urb!IndInv, Urb!ReadyInv
  <2> QED
    BY <1>6, <2>1, <2>2
<1>9. Urb!Queued' = Urb!Queued \union {sub}
  BY <1>3, <1>4, <1>6 DEF Urb!Queued
<1>10. Urb!Streams' <=> Urb!Streams
  BY <1>1 DEF Urb!Streams
<1>11. Urb!TailInv'
  BY <1>1, <1>8, <1>10 DEF Urb!PlaceInv, Urb!TailInv
<1>12. Urb!NormalInv'
  <2>1. ~Urb!NoMoreData
    BY <1>1 DEF Urb!NoMoreData
  <2> QED
    BY <1>1, <1>10, <2>1 DEF Urb!PlaceInv, Urb!NormalInv
<1>13. Urb!DataInv'
  <2> SUFFICES ASSUME Urb!Streams, polled \/ result # "NO_DEVICE"
               PROVE  /\ \E before \in [Urb!Urbs -> Nat] : Urb!Accounted(before)'
                      /\ \A p \in 1..transferred : buffer[p] = p
                      /\ \A i \in Urb!Queued' : sent <= Urb!BufferOf(i)
                      /\ sub' > 0 => sent <= Urb!BufferOf(sub')
    BY <1>1, <1>10 DEF Urb!DataInv, Urb!BufferOf
  <2>1. /\ \A p \in 1..transferred : buffer[p] = p
        /\ \A i \in Urb!Queued : sent <= Urb!BufferOf(i)
        /\ sent <= Urb!BufferOf(sub)
    BY <1>1 DEF Urb!PlaceInv, Urb!DataInv
  <2>2. PICK before \in [Urb!Urbs -> Nat] : Urb!Accounted(before)
    BY DEF Urb!PlaceInv, Urb!DataInv
  <2>3. Urb!Accounted(before)'
    BY <1>1, <1>8, <2>2 DEF Urb!Accounted, Urb!BufferOf
  <2>4. ASSUME sub' > 0 PROVE sent <= Urb!BufferOf(sub')
    <3>1. sub' = sub + 1 /\ sub + 1 \in Urb!Urbs /\ sub < sub + 1
      BY <1>1, <1>2, <1>3, <2>4 DEF Urb!Urbs
    <3>2. /\ Urb!BufferOf(sub) + UrbLen <= Urb!BufferOf(sub + 1)
          /\ Urb!BufferOf(sub) \in Nat /\ Urb!BufferOf(sub + 1) \in Nat
      BY <1>3, <3>1, Places
    <3>3. sent <= Urb!BufferOf(sub + 1)
      BY <1>2, <2>1, <3>2
    <3> QED
      BY <3>1, <3>3
  <2> QED
    BY <1>9, <2>1, <2>2, <2>3, <2>4
<1> QED
  BY <1>1, <1>11, <1>12, <1>13 DEF Urb!PlaceInv, Urb!ResultInv, Urb!IsoInv


\* The slots that have been filled, with one more.
LEMMA SlotsGrow ==
  ASSUME NEW m \in Nat
  PROVE  Append([j \in 1..m |-> j], m + 1) = [j \in 1..(m + 1) |-> j]
<1> DEFINE a == [j \in 1..m |-> j]
           b == [j \in 1..(m + 1) |-> j]
<1>1. a \in Seq(Nat) /\ Len(a) = m
  OBVIOUS
<1>2. b \in Seq(Nat) /\ Len(b) = m + 1
  OBVIOUS
<1>3. \A j \in 1..m : a[j] = j
  OBVIOUS
<1>4. \A j \in 1..(m + 1) : b[j] = j
  OBVIOUS
<1> HIDE DEF a, b
<1>5. /\ Append(a, m + 1) \in Seq(Nat) /\ Len(Append(a, m + 1)) = m + 1
      /\ \A j \in 1..m : Append(a, m + 1)[j] = a[j]
      /\ Append(a, m + 1)[m + 1] = m + 1
  BY <1>1, AppendProperties
<1>6. \A j \in 1..(m + 1) : j = m + 1 \/ j \in 1..m
  OBVIOUS
<1>7. \A j \in 1..(m + 1) : Append(a, m + 1)[j] = b[j]
  BY <1>3, <1>4, <1>5, <1>6
<1>8. Append(a, m + 1) = b
  BY <1>2, <1>5, <1>7, SeqEqual
<1> QED
  BY <1>8 DEF a, b

LEMMA PlaceReapForHandle ==
  ASSUME Urb!IndInv, Urb!PlaceInv, Urb!ReapForHandle, "bulk" \notin FaultyKinds
  PROVE  Urb!PlaceInv'
<1> DEFINE i == Head(ready)
           r == Len(ready)
           R == [st : {"none", "queued", "done", "reaped"}, status : Urb!UrbStatus, len : 0..UrbLen]
<1>1. /\ ev = "idle" /\ lock = "free" /\ ready # <<>> /\ mem
      /\ urb' = [urb EXCEPT ![i].st = "reaped"] /\ ready' = Tail(ready)
      /\ retired' = retired + 1 /\ Urb!HandleCompletion(i)
      /\ UNCHANGED <<kind, n, refuse, sent, plugged, polled, sub, flying, result>>
  BY DEF Urb!ReapForHandle, Urb!devVars, Urb!flagVars
<1>2. /\ n \in Nat /\ 1 <= n /\ n <= MaxUrbs /\ retired \in Nat /\ r \in Nat /\ ready \in Seq(Urb!Urbs)
      /\ sub \in 0..n /\ MaxUrbs \in Nat /\ UrbLen \in Nat /\ sent \in Nat /\ transferred \in Nat
  BY UrbFacts
<1>3. /\ r >= 1
      /\ mem' = FALSE => retired + 1 = n
      /\ reapAction' = "NORMAL" => reapAction = "NORMAL"
  BY ReapedLast
<1>4. sub = 0
  BY <1>1, <1>2 DEF Urb!IndInv, Urb!RefInv, Urb!LockInv
<1>5. /\ i = ready[1] /\ i \in Urb!Urbs /\ ready' \in Seq(Urb!Urbs) /\ Len(ready') = r - 1
      /\ \A k \in 1..(r - 1) : ready'[k] = ready[k + 1]
  BY <1>1, <1>2, HeadTailProperties
<1> HIDE DEF i, r
<1>6. urb \in [Urb!Urbs -> R]
  BY DEF Urb!IndInv, Urb!RefInv, Urb!FlagTypes
<1>7. /\ \A j \in Urb!Urbs : urb'[j].status = urb[j].status
      /\ \A j \in Urb!Urbs : urb'[j].len = urb[j].len
      /\ \A j \in Urb!Urbs : urb'[j].st = IF j = i THEN "reaped" ELSE urb[j].st
      /\ urb[i].len \in Nat /\ urb[i].len <= UrbLen /\ urb[i].status \in Urb!UrbStatus
  BY <1>1, <1>2, <1>5, <1>6, SMTT(30)
<1>8. 1 \in 1..r /\ \A k \in 1..(r - 1) : k + 1 \in 1..r /\ 1 < k + 1
  BY <1>2, <1>3
<1>9. urb[i].st = "done"
  <2>1. \A j \in Urb!Urbs : urb[j].st = "done" <=> \E k \in 1..r : ready[k] = j
    BY <1>1 DEF Urb!IndInv, Urb!ReadyInv, r
  <2> QED
    BY <1>5, <1>8, <2>1
<1>10. Urb!Queued' = Urb!Queued
  BY <1>7, <1>9 DEF Urb!Queued
<1>11. Urb!Streams' <=> Urb!Streams
  BY <1>1 DEF Urb!Streams
<1>12. Urb!ResultInv'
  BY <1>1 DEF Urb!PlaceInv, Urb!ResultInv
<1>13. \A k \in 1..r : ready[k] \in Urb!Urbs
  BY <1>2 DEF r
<1>14. Urb!TailInv'
  <2> SUFFICES ASSUME Urb!Streams, NEW k \in 1..(r - 1), NEW l \in 1..(r - 1), k < l,
                      urb'[ready'[k]].status \in {"gone"} \union Faults
               PROVE  urb'[ready'[l]].len = 0
    BY <1>5, <1>11 DEF Urb!TailInv
  <2>1. k + 1 \in 1..r /\ l + 1 \in 1..r /\ k + 1 < l + 1
    BY <1>2
  <2>2. /\ urb'[ready'[k]].status = urb[ready[k + 1]].status
        /\ urb'[ready'[l]].len = urb[ready[l + 1]].len
    BY <1>5, <1>7, <1>13, <2>1
  <2> QED
    BY <2>1, <2>2 DEF Urb!PlaceInv, Urb!TailInv, r
<1>15. reapAction = "NORMAL" => i = retired + 1
  BY <1>1, <1>2, <1>5, <1>8 DEF Urb!IndInv, Urb!CountInv, r
<1>16. kind \in {"bulk", "bulkcont", "interrupt", "iso", "control"}
  BY <1>1, KindsAssumption DEF Urb!IndInv, Urb!RefInv, Urb!ReportInv
<1>17. flying
  BY <1>1 DEF Urb!IndInv, Urb!RefInv, Urb!ReportInv
<1>18. CASE kind \in {"bulk", "bulkcont", "interrupt"}
  <2>1. (Urb!BulkAbnormal(i) \/ Urb!BulkNormal(i)) /\ Urb!Streams
    BY <1>1, <1>18 DEF Urb!HandleCompletion, Urb!Streams
  <2>3. Urb!NoMoreData => Urb!NoMoreData' /\ urb[i].len = 0
    <3> SUFFICES ASSUME Urb!NoMoreData PROVE Urb!NoMoreData' /\ urb[i].len = 0
      OBVIOUS
    <3>1. Urb!Queued = {} /\ \A k \in 1..r : urb[ready[k]].len = 0
      BY DEF Urb!NoMoreData, r
    <3>2. \A k \in 1..(r - 1) : urb'[ready'[k]].len = 0
      BY <1>5, <1>7, <1>8, <1>13, <3>1
    <3>3. ~(sub' > 0)
      BY <1>1, <1>4
    <3> QED
      BY <1>5, <1>8, <1>10, <3>1, <3>2, <3>3 DEF Urb!NoMoreData
  <2>4. /\ transferred' = transferred + urb[i].len
        /\ \/ buffer' = Urb!Moved(i)
           \/ buffer' = buffer /\ (urb[i].len = 0 \/ transferred = Urb!BufferOf(i))
    <3>1. CASE Urb!BulkAbnormal(i)
      BY <3>1 DEF Urb!BulkAbnormal
    <3>2. CASE Urb!BulkNormal(i)
      <4>1. reapAction = "NORMAL" /\ transferred' = transferred + urb[i].len /\ buffer' = buffer
        BY <3>2 DEF Urb!BulkNormal
      <4>2. transferred = retired * UrbLen \/ Urb!NoMoreData
        BY <1>1, <2>1, <4>1 DEF Urb!PlaceInv, Urb!NormalInv
      <4>3. i = retired + 1
        BY <1>15, <4>1
      <4>4. Urb!BufferOf(i) = retired * UrbLen
        <5>1. Urb!BufferOf(i) = (i - 1) * UrbLen
          BY DEF Urb!BufferOf
        <5>2. i - 1 = retired
          BY <1>2, <4>3
        <5> QED
          BY <5>1, <5>2
      <4> QED
        BY <2>3, <4>1, <4>2, <4>4
    <3> QED
      BY <2>1, <3>1, <3>2
  <2>5. Urb!DataInv'
    <3> SUFFICES ASSUME polled \/ result # "NO_DEVICE"
                 PROVE  /\ \E before \in [Urb!Urbs -> Nat] : Urb!Accounted(before)'
                        /\ \A p \in 1..transferred' : buffer'[p] = p
                        /\ \A j \in Urb!Queued : sent <= Urb!BufferOf(j)
      BY <1>1, <1>4, <1>10 DEF Urb!DataInv, Urb!BufferOf
    <3>1. PICK before \in [Urb!Urbs -> Nat] : Urb!Accounted(before)
      BY <2>1 DEF Urb!PlaceInv, Urb!DataInv
    <3>2. /\ \A p \in 1..transferred : buffer[p] = p
          /\ \A j \in Urb!Queued : sent <= Urb!BufferOf(j)
      BY <2>1 DEF Urb!PlaceInv, Urb!DataInv
    <3>3. Urb!Accounted(before)' /\ \A p \in 1..transferred' : buffer'[p] = p
      BY <1>1, <1>5, <1>7, <2>4, <3>1, <3>2, DataReaped
    <3> QED
      BY <3>2, <3>3
  <2>6. urb[i].status \in {"gone"} \union Faults => Urb!NoMoreData'
    <3> SUFFICES ASSUME urb[i].status \in {"gone"} \union Faults PROVE Urb!NoMoreData'
      OBVIOUS
    <3>1. \A k \in 1..(r - 1) : urb'[ready'[k]].len = 0
      <4>1. ASSUME NEW k \in 1..(r - 1) PROVE urb[ready[k + 1]].len = 0
        BY <1>5, <1>8, <2>1 DEF Urb!PlaceInv, Urb!TailInv, r
      <4> QED
        BY <1>5, <1>7, <1>8, <1>13, <4>1
    <3>2. ~(sub' > 0)
      BY <1>1, <1>4
    <3>3. Urb!Queued = {}
      <4>1. CASE urb[i].status = "gone"
        BY <1>5, <4>1 DEF Urb!IndInv, Urb!UrbInv
      <4>2. CASE urb[i].status \in Faults
        <5>1. kind \in FaultyKinds /\ (kind = "bulkcont" => refuse) /\ (kind = "interrupt" => n = 1)
          BY <1>5, <4>2 DEF Urb!IndInv, Urb!UrbInv
        <5>2. CASE kind = "bulkcont"
          BY <5>1, <5>2 DEF Urb!IndInv, Urb!UrbInv
        <5>3. CASE kind = "interrupt"
          <6>1. \A j \in Urb!Urbs : urb[j].st # "none" => j <= 1
            BY <5>1, <5>3 DEF Urb!IndInv, Urb!UrbInv
          <6>2. \A j \in Urb!Urbs : j \in Nat /\ 1 <= j
            BY Places
          <6>3. \A j \in Urb!Urbs : urb[j].st # "none" => j = i
            <7>1. \A j \in Urb!Urbs : urb[j].st # "none" => j = 1
              BY <6>1, <6>2
            <7> QED
              BY <1>5, <1>9, <7>1
          <6> QED
            BY <1>9, <6>3 DEF Urb!Queued
        <5> QED
          BY <1>18, <5>1, <5>2, <5>3
      <4> QED
        BY <4>1, <4>2
    <3> QED
      BY <1>5, <1>10, <3>1, <3>2, <3>3 DEF Urb!NoMoreData
  <2>7. Urb!NormalInv'
    <3> SUFFICES ASSUME mem', reapAction' = "NORMAL"
                 PROVE  transferred' = retired' * UrbLen \/ Urb!NoMoreData'
      BY DEF Urb!NormalInv
    <3>1. reapAction = "NORMAL" /\ Urb!BulkNormal(i)
      BY <1>3, <2>1 DEF Urb!BulkAbnormal
    <3>2. transferred = retired * UrbLen \/ Urb!NoMoreData
      BY <1>1, <2>1, <3>1 DEF Urb!PlaceInv, Urb!NormalInv
    <3>3. CASE urb[i].status \in {"gone"} \union Faults
      BY <2>6, <3>3
    <3>4. CASE urb[i].status \in {"ok", "short", "cancelled"}
      <4>1. i # n
        BY <3>1, <3>4 DEF Urb!BulkNormal, Urb!FinishBulk, Urb!Finish
      <4>2. ~(urb[i].len < UrbLen /\ i < n)
        BY <3>1, <3>4 DEF Urb!BulkNormal
      <4>3. i <= n
        BY <1>5, <1>9 DEF Urb!IndInv, Urb!UrbInv
      <4>4. i \in Nat
        BY <1>5, Places
      <4>5. urb[i].len = UrbLen
        BY <1>2, <1>7, <4>1, <4>2, <4>3, <4>4
      <4>6. (retired + 1) * UrbLen = retired * UrbLen + UrbLen
        BY <1>2
      <4> QED
        BY <1>1, <2>3, <2>4, <3>2, <4>5, <4>6
    <3> QED
      BY <1>7, <3>3, <3>4 DEF Urb!UrbStatus
  <2>8. Urb!IsoInv'
    BY <1>1, <1>18 DEF Urb!IsoInv
  <2> QED
    BY <1>12, <1>14, <2>5, <2>7, <2>8 DEF Urb!PlaceInv
<1>19. CASE kind = "iso"
  <2>1. Urb!IsoCompletion(i) /\ ~Urb!Streams
    BY <1>1, <1>19 DEF Urb!HandleCompletion, Urb!Streams
  <2>2. /\ isoSlots' = Append(isoSlots, i) /\ reapAction' = reapAction
        /\ reapAction # "NORMAL" => reapStatus' = "ERROR"
        /\ ev' # "report" /\ (ev' # "idle" /\ reapAction = "NORMAL" => i = n)
    BY <1>1, <2>1 DEF Urb!IsoCompletion, Urb!NextSlots, Urb!FinishHeld, Urb!Finish, Urb!KeepWaiting
  <2>3. reapAction = "NORMAL" => isoSlots' = [j \in 1..(retired + 1) |-> j]
    <3> SUFFICES ASSUME reapAction = "NORMAL" PROVE isoSlots' = [j \in 1..(retired + 1) |-> j]
      OBVIOUS
    <3>1. isoSlots = [j \in 1..retired |-> j]
      BY <1>1, <1>19 DEF Urb!PlaceInv, Urb!IsoInv
    <3> QED
      BY <1>2, <1>15, <2>2, <3>1, SlotsGrow
  <2>4. Urb!IsoInv'
    <3>1. reapAction' = "NORMAL" => isoSlots' = [j \in 1..retired' |-> j]
      BY <1>1, <2>2, <2>3
    <3>2. ev' = "completed" /\ reapStatus' = "COMPLETED" => isoSlots' = [j \in 1..n' |-> j]
      <4> SUFFICES ASSUME ev' = "completed", reapStatus' = "COMPLETED" PROVE isoSlots' = [j \in 1..n |-> j]
        BY <1>1
      <4>1. reapAction = "NORMAL" /\ i = n
        BY <2>2
      <4> QED
        BY <1>15, <2>3, <4>1
    <3> QED
      BY <1>1, <1>17, <2>2, <3>1, <3>2 DEF Urb!IsoInv
  <2> QED
    BY <1>11, <1>12, <1>14, <2>1, <2>4 DEF Urb!PlaceInv, Urb!DataInv, Urb!NormalInv
<1>20. CASE kind = "control"
  <2>1. ~Urb!Streams
    BY <1>20 DEF Urb!Streams
  <2> QED
    BY <1>1, <1>11, <1>12, <1>14, <1>20, <2>1 DEF Urb!PlaceInv, Urb!DataInv, Urb!NormalInv, Urb!IsoInv
<1> QED
  BY <1>16, <1>18, <1>19, <1>20


LEMMA PlaceInit == Urb!Init => Urb!PlaceInv
<1> SUFFICES ASSUME Urb!Init PROVE Urb!PlaceInv
  OBVIOUS
<1>1. /\ kind = "none" /\ urb = [i \in Urb!Urbs |-> Urb!NoUrb] /\ ready = <<>> /\ sent = 0 /\ mem = FALSE
      /\ transferred = 0 /\ sub = 0 /\ flying = FALSE /\ result = "none"
  BY DEF Urb!Init
<1>2. Len(ready) = 0 /\ 1..0 = {} /\ 0 <= 0
  BY <1>1
<1>3. Urb!Queued = {}
  BY <1>1 DEF Urb!Queued, Urb!NoUrb
<1>4. Urb!DataInv
  <2>1. PICK before \in [Urb!Urbs -> Nat] : TRUE
    <3>1. [i \in Urb!Urbs |-> 0] \in [Urb!Urbs -> Nat]
      OBVIOUS
    <3> QED
      BY <3>1
  <2>2. Urb!Accounted(before)
    BY <1>1, <1>2 DEF Urb!Accounted
  <2> QED
    BY <1>1, <1>2, <1>3, <2>2 DEF Urb!DataInv
<1> QED
  BY <1>1, <1>2, <1>4 DEF Urb!PlaceInv, Urb!ResultInv, Urb!TailInv, Urb!NormalInv, Urb!IsoInv

LEMMA PlaceStep ==
  ASSUME Urb!IndInv, Urb!PlaceInv, Urb!Next, "bulk" \notin FaultyKinds
  PROVE  Urb!PlaceInv'
  BY PlaceSubmitTransfer, PlaceSubmitUrb, PlaceFirstUrbFails, PlaceLaterUrbFails, PlaceDiscardUrb,
     PlaceCancelTransfer, PlaceReapForHandle, PlaceReportTransfer, PlaceHandleDisconnect, PlaceUnplug,
     PlaceKernelCompletes
  DEF Urb!Next, Urb!LibStep, Urb!EventStep

LEMMA PlaceStutter ==
  ASSUME Urb!PlaceInv, UNCHANGED urbVars
  PROVE  Urb!PlaceInv'
<1>1. UNCHANGED <<kind, n, urb, ready, refuse, sent, plugged, polled, mem, reapAction, retired,
                  reapStatus, isoSlots, buffer, transferred, sub, ev, flying, result>>
  BY DEF urbVars
<1>2. Urb!DataInv' /\ Urb!TailInv'
  BY <1>1, DataKept DEF Urb!PlaceInv
<1>3. Urb!Queued' = Urb!Queued
  BY <1>1 DEF Urb!Queued
<1>4. Urb!NormalInv'
  BY <1>1, <1>3 DEF Urb!PlaceInv, Urb!NormalInv, Urb!NoMoreData, Urb!Streams
<1> QED
  BY <1>1, <1>2, <1>4 DEF Urb!PlaceInv, Urb!ResultInv, Urb!IsoInv

\* A transfer that is over has no URB in the queue: what was transferred is what was sent.
LEMMA PlaceEnough ==
  ASSUME Urb!IndInv, Urb!PlaceInv
  PROVE  Urb!DataContiguous /\ Urb!IsoResultsInPlace
<1>1. Urb!DataContiguous
  <2> SUFFICES ASSUME kind \notin {"iso", "control"}, ~flying, polled \/ result # "NO_DEVICE"
               PROVE  transferred = sent /\ \A p \in 1..transferred : buffer[p] = p
    BY DEF Urb!DataContiguous
  <2>1. ready = <<>>
    BY DEF Urb!IndInv, Urb!RefInv, Urb!ReportInv, Urb!CountInv
  <2>2. PICK before \in [Urb!Urbs -> Nat] : Urb!Accounted(before)
    BY DEF Urb!PlaceInv, Urb!DataInv, Urb!Streams
  <2>3. transferred = sent
    BY <2>1, <2>2 DEF Urb!Accounted
  <2> QED
    BY <2>3 DEF Urb!PlaceInv, Urb!DataInv, Urb!Streams
<1>2. Urb!IsoResultsInPlace
  BY DEF Urb!PlaceInv, Urb!IsoInv, Urb!IsoResultsInPlace
<1> QED
  BY <1>1, <1>2


-----------------------------------------------------------------------------
(* How a transfer is cut into URBs.                                        *)

\* A recursion along a sequence has a solution.
Recurs(g, A, a, N, G) == g \in [0..N -> A] /\ g[0] = a /\ \A k \in 1..N : g[k] = G[<<g[k - 1], k>>]
LEMMA Recursion ==
  ASSUME NEW A, NEW a \in A, NEW N \in Nat, NEW G \in [A \X (1..N) -> A]
  PROVE  \E g : Recurs(g, A, a, N, G)
<1> DEFINE Solves(g, m) == Recurs(g, A, a, m, G)
           S == {m \in 0..N : ~\E g : Solves(g, m)}
<1>1. S = {}
  <2> SUFFICES ASSUME S # {} PROVE FALSE
    OBVIOUS
  <2>1. S \subseteq Nat
    OBVIOUS
  <2>2. PICK m \in S : \A j \in S : m <= j
    BY <2>1, Least
  <2>3. m \in 0..N /\ m \in Nat /\ ~\E g : Solves(g, m)
    OBVIOUS
  <2>4. m # 0
    <3>1. Solves([k \in 0..0 |-> a], 0)
      BY DEF Recurs
    <3> QED
      BY <2>3, <3>1
  <2>5. m - 1 \in 0..N /\ m - 1 \in Nat /\ m - 1 \notin S
    <3>1. m - 1 \in 0..N /\ m - 1 \in Nat /\ ~(m <= m - 1)
      BY <2>3, <2>4
    <3> HIDE DEF S
    <3> QED
      BY <2>2, <3>1
  <2>6. PICK g : Solves(g, m - 1)
    BY <2>5
  <2> DEFINE h == [k \in 0..m |-> IF k = m THEN G[<<g[m - 1], m>>] ELSE g[k]]
  <2>7. g[m - 1] \in A /\ m \in 1..N
    BY <2>3, <2>4, <2>5, <2>6 DEF Recurs
  <2>8. G[<<g[m - 1], m>>] \in A
    BY <2>7
  <2>9. \A k \in 0..m : k = m \/ k \in 0..(m - 1)
    BY <2>3
  <2>10. h \in [0..m -> A]
    BY <2>6, <2>8, <2>9 DEF Recurs
  <2>11. 0 \in 0..m /\ 0 # m /\ 0 \in 0..(m - 1)
    BY <2>3, <2>4, <2>5
  <2>12. h[0] = a
    BY <2>6, <2>11 DEF Recurs
  <2>13. ASSUME NEW k \in 1..m PROVE h[k] = G[<<h[k - 1], k>>]
    <3>1. k \in 0..m /\ k - 1 \in 0..m /\ k - 1 # m /\ (k = m \/ k \in 1..(m - 1))
      BY <2>3
    <3>2. h[k - 1] = g[k - 1]
      BY <3>1
    <3>3. CASE k = m
      BY <3>1, <3>2, <3>3
    <3>4. CASE k # m
      BY <2>6, <3>1, <3>2, <3>4 DEF Recurs
    <3> QED
      BY <3>3, <3>4
  <2>14. Solves(h, m)
    BY <2>10, <2>12, <2>13 DEF Recurs
  <2> QED
    BY <2>3, <2>14
<1>2. N \in 0..N
  OBVIOUS
<1>3. \E g : Solves(g, N)
  BY <1>1, <1>2
<1> QED
  BY <1>3

LEMMA OffsetsOf ==
  ASSUME NEW q \in Seq(Nat)
  PROVE  /\ \A k \in 0..Len(q) : Split!Offsets(q)[k] \in Nat
         /\ Split!Offsets(q)[0] = 0
         /\ \A k \in 1..Len(q) : Split!Offsets(q)[k] = Split!Offsets(q)[k - 1] + q[k]
<1> DEFINE N == Len(q)
           f == CHOOSE h : h = [k \in 0..Len(q) |-> IF k = 0 THEN 0 ELSE h[k - 1] + q[k]]
           G == [x \in Nat \X (1..N) |-> x[1] + q[x[2]]]
<1>1. N \in Nat /\ \A k \in 1..N : q[k] \in Nat
  OBVIOUS
<1>2. G \in [Nat \X (1..N) -> Nat]
  BY <1>1
<1>3. 0 \in Nat
  OBVIOUS
<1> HIDE DEF N
<1>4. \A x \in Nat, k \in 1..N : G[<<x, k>>] = x + q[k]
  OBVIOUS
<1> HIDE DEF G
<1>5. PICK g \in [0..N -> Nat] : g[0] = 0 /\ \A k \in 1..N : g[k] = G[<<g[k - 1], k>>]
  <2>1. N \in Nat
    BY <1>1
  <2>2. \E g : Recurs(g, Nat, 0, N, G)
    BY <1>2, <1>3, <2>1, Recursion
  <2> QED
    BY <2>2 DEF Recurs
<1>6. ASSUME NEW k \in 0..N PROVE g[k] = IF k = 0 THEN 0 ELSE g[k - 1] + q[k]
  <2>1. CASE k = 0
    BY <1>5, <2>1
  <2>2. CASE k # 0
    <3>1. k \in 1..N /\ k - 1 \in 0..N
      BY <1>1, <2>2
    <3> QED
      BY <1>4, <1>5, <2>2, <3>1
  <2> QED
    BY <2>1, <2>2
<1>7. g = [k \in 0..N |-> IF k = 0 THEN 0 ELSE g[k - 1] + q[k]]
  BY <1>5, <1>6
<1>8. f = [k \in 0..N |-> IF k = 0 THEN 0 ELSE f[k - 1] + q[k]]
  BY <1>7, Zenon DEF N
<1>9. Split!Offsets(q) = f
  BY DEF Split!Offsets
<1> HIDE DEF f
<1>10. \A k \in 0..N : f[k] = IF k = 0 THEN 0 ELSE f[k - 1] + q[k]
  BY <1>8
<1>11. 0 \in 0..N /\ \A k \in 1..N : k \in 0..N /\ k # 0 /\ k \in Nat /\ k - 1 \in 0..N
  BY <1>1
<1>12. f[0] = 0 /\ \A k \in 1..N : f[k] = f[k - 1] + q[k]
  BY <1>10, <1>11
<1>13. \A k \in 0..N : f[k] \in Nat
  <2> DEFINE S == {k \in 0..N : f[k] \notin Nat}
  <2> SUFFICES ASSUME S # {} PROVE FALSE
    OBVIOUS
  <2>1. PICK k \in S : \A j \in S : k <= j
    <3>1. S \subseteq Nat
      OBVIOUS
    <3> QED
      BY <3>1, Least
  <2>2. k \in 1..N /\ k - 1 \in 0..N /\ k - 1 \notin S
    BY <1>1, <1>12, <2>1
  <2>3. f[k - 1] \in Nat /\ q[k] \in Nat /\ f[k] = f[k - 1] + q[k]
    BY <1>1, <1>12, <2>2
  <2>4. f[k] \in Nat
    BY <2>3
  <2> QED
    BY <2>1, <2>4
<1> QED
  BY <1>9, <1>12, <1>13 DEF N


Counts == [urbs : Nat, used : Nat]
OneMore(c, p) ==
  IF Split!NeedsNewUrb(c.used, p) THEN [urbs |-> c.urbs + 1, used |-> p]
  ELSE [urbs |-> c.urbs, used |-> c.used + p]
LEMMA CountedOf ==
  ASSUME NEW q \in Seq(Nat)
  PROVE  /\ \A k \in 0..Len(q) : Split!Counted(q)[k] \in Counts
         /\ Split!Counted(q)[0] = [urbs |-> 1, used |-> 0]
         /\ \A k \in 1..Len(q) : Split!Counted(q)[k] = OneMore(Split!Counted(q)[k - 1], q[k])
<1> DEFINE N == Len(q)
           First == [urbs |-> 1, used |-> 0]
           f == CHOOSE h : h = [k \in 0..Len(q) |-> IF k = 0 THEN [urbs |-> 1, used |-> 0]
                                  ELSE IF Split!NeedsNewUrb(h[k - 1].used, q[k])
                                         THEN [urbs |-> h[k - 1].urbs + 1, used |-> q[k]]
                                         ELSE [urbs |-> h[k - 1].urbs, used |-> h[k - 1].used + q[k]]]
           G == [x \in Counts \X (1..N) |-> OneMore(x[1], q[x[2]])]
<1>1. N \in Nat /\ \A k \in 1..N : q[k] \in Nat
  OBVIOUS
<1>2. First \in Counts
  BY DEF Counts
<1> HIDE DEF N
<1>3. \A c \in Counts, p \in Nat : OneMore(c, p) \in Counts
  BY DEF Counts, OneMore
<1>4. G \in [Counts \X (1..N) -> Counts]
  <2>1. \A x \in Counts \X (1..N) : x[1] \in Counts /\ q[x[2]] \in Nat
    BY <1>1
  <2>2. \A x \in Counts \X (1..N) : OneMore(x[1], q[x[2]]) \in Counts
    BY <1>3, <2>1
  <2> QED
    BY <2>2
<1>5. \A x \in Counts, k \in 1..N : G[<<x, k>>] = OneMore(x, q[k])
  OBVIOUS
<1> HIDE DEF G
<1>6. PICK g : g \in [0..N -> Counts] /\ g[0] = First /\ \A k \in 1..N : g[k] = G[<<g[k - 1], k>>]
  <2>1. N \in Nat
    BY <1>1
  <2> HIDE DEF First
  <2>2. \E g : Recurs(g, Counts, First, N, G)
    BY <1>2, <1>4, <2>1, Recursion
  <2> QED
    BY <2>2 DEF Recurs
<1>7. ASSUME NEW k \in 0..N PROVE g[k] = IF k = 0 THEN First ELSE OneMore(g[k - 1], q[k])
  <2>1. CASE k = 0
    BY <1>6, <2>1
  <2>2. CASE k # 0
    <3>1. k \in 1..N /\ k - 1 \in 0..N
      BY <1>1, <2>2
    <3>2. g[k] = G[<<g[k - 1], k>>] /\ g[k - 1] \in Counts
      BY <1>6, <3>1
    <3> QED
      BY <1>5, <2>2, <3>1, <3>2
  <2> QED
    BY <2>1, <2>2
<1>8. g = [k \in 0..N |-> IF k = 0 THEN First ELSE OneMore(g[k - 1], q[k])]
  <2> HIDE DEF First
  <2> QED
    BY <1>6, <1>7
<1>9. f = [k \in 0..N |-> IF k = 0 THEN First ELSE OneMore(f[k - 1], q[k])]
  BY <1>8, Zenon DEF N, OneMore
<1>10. Split!Counted(q) = f
  BY DEF Split!Counted
<1> HIDE DEF f, First
<1>11. \A k \in 0..N : f[k] = IF k = 0 THEN First ELSE OneMore(f[k - 1], q[k])
  BY <1>9
<1>12. 0 \in 0..N /\ \A k \in 1..N : k \in 0..N /\ k # 0 /\ k \in Nat /\ k - 1 \in 0..N
  BY <1>1
<1>13. f[0] = First /\ \A k \in 1..N : f[k] = OneMore(f[k - 1], q[k])
  BY <1>11, <1>12
<1>14. \A k \in 0..N : f[k] \in Counts
  <2> DEFINE S == {k \in 0..N : f[k] \notin Counts}
  <2> SUFFICES ASSUME S # {} PROVE FALSE
    OBVIOUS
  <2>1. PICK k \in S : \A j \in S : k <= j
    <3>1. S \subseteq Nat
      OBVIOUS
    <3> QED
      BY <3>1, Least
  <2>2. k # 0
    BY <1>2, <1>13, <2>1
  <2>3. k \in 1..N /\ k - 1 \in 0..N /\ ~(k <= k - 1)
    BY <1>1, <2>1, <2>2
  <2>4. f[k - 1] \in Counts
    BY <2>1, <2>3
  <2>5. f[k] \in Counts
    BY <1>1, <1>3, <1>13, <2>3, <2>4
  <2> QED
    BY <2>1, <2>5
<1> QED
  BY <1>10, <1>13, <1>14 DEF N, First

\* The first pass counts upwards, and addresses grow.
LEMMA Grow ==
  ASSUME NEW N \in Nat, NEW f, \A k \in 0..N : f[k] \in Nat, \A k \in 1..N : f[k - 1] <= f[k]
  PROVE  \A j, k \in 0..N : j <= k => f[j] <= f[k]
<1> SUFFICES ASSUME NEW j \in 0..N PROVE \A k \in 0..N : j <= k => f[j] <= f[k]
  OBVIOUS
<1> DEFINE S == {k \in 0..N : j <= k /\ ~(f[j] <= f[k])}
<1> SUFFICES ASSUME S # {} PROVE FALSE
  OBVIOUS
<1>1. PICK k \in S : \A i \in S : k <= i
  <2>1. S \subseteq Nat
    OBVIOUS
  <2> QED
    BY <2>1, Least
<1>2. k \in 0..N /\ j <= k /\ ~(f[j] <= f[k]) /\ f[j] \in Nat /\ f[k] \in Nat
  BY <1>1
<1>3. k # j
  BY <1>2
<1>4. k - 1 \in 0..N /\ k \in 1..N /\ j <= k - 1 /\ ~(k <= k - 1)
  BY <1>2, <1>3
<1>5. f[j] <= f[k - 1]
  BY <1>1, <1>4
<1>6. f[k - 1] <= f[k] /\ f[k - 1] \in Nat
  BY <1>4
<1> QED
  BY <1>2, <1>5, <1>6

LEMMA OffsetsGrow ==
  ASSUME NEW q \in Seq(Nat)
  PROVE  \A j, k \in 0..Len(q) : j <= k => Split!Offsets(q)[j] <= Split!Offsets(q)[k]
<1> DEFINE N == Len(q)
           f == Split!Offsets(q)
<1>1. N \in Nat /\ \A k \in 1..N : k - 1 \in 0..N /\ q[k] \in Nat
  OBVIOUS
<1>2. /\ \A k \in 0..N : f[k] \in Nat
      /\ \A k \in 1..N : f[k] = f[k - 1] + q[k]
  BY OffsetsOf
<1> HIDE DEF N, f
<1>3. \A k \in 1..N : f[k - 1] <= f[k]
  <2> SUFFICES ASSUME NEW k \in 1..N PROVE f[k - 1] <= f[k]
    OBVIOUS
  <2>1. f[k - 1] \in Nat /\ q[k] \in Nat /\ f[k] = f[k - 1] + q[k]
    BY <1>1, <1>2
  <2> QED
    BY <2>1
<1>4. \A j, k \in 0..N : j <= k => f[j] <= f[k]
  BY <1>1, <1>2, <1>3, Grow
<1> QED
  BY <1>4 DEF N, f

LEMMA CountedGrows ==
  ASSUME NEW q \in Seq(Nat)
  PROVE  \A j, k \in 0..Len(q) : j <= k => Split!Counted(q)[j].urbs <= Split!Counted(q)[k].urbs
<1> DEFINE N == Len(q)
           c == Split!Counted(q)
           f == [k \in 0..N |-> c[k].urbs]
<1>1. N \in Nat /\ \A k \in 1..N : k \in 0..N /\ k - 1 \in 0..N /\ q[k] \in Nat
  OBVIOUS
<1>2. /\ \A k \in 0..N : c[k] \in Counts
      /\ \A k \in 1..N : c[k] = OneMore(c[k - 1], q[k])
  BY CountedOf
<1> HIDE DEF N, c
<1>3. \A k \in 0..N : f[k] = c[k].urbs /\ f[k] \in Nat
  BY <1>2 DEF Counts
<1> HIDE DEF f
<1>4. \A k \in 1..N : f[k - 1] <= f[k]
  <2> SUFFICES ASSUME NEW k \in 1..N PROVE c[k - 1].urbs <= c[k].urbs
    BY <1>1, <1>3
  <2>1. c[k - 1].urbs \in Nat /\ c[k] = OneMore(c[k - 1], q[k])
    BY <1>1, <1>2, <1>3
  <2>2. c[k].urbs \in {c[k - 1].urbs, c[k - 1].urbs + 1}
    BY <2>1 DEF OneMore
  <2> QED
    BY <2>1, <2>2
<1>5. \A j, k \in 0..N : j <= k => f[j] <= f[k]
  BY <1>1, <1>3, <1>4, Grow
<1> QED
  BY <1>3, <1>5 DEF N, c


\* The packets from a on are as long together as they reach.
LEMMA SumsOf ==
  ASSUME NEW q \in Seq(Nat), NEW a \in 0..Len(q), NEW b \in a..Len(q)
  PROVE  /\ SubSeq(q, a + 1, b) \in Seq(Nat) /\ Len(SubSeq(q, a + 1, b)) = b - a
         /\ Split!Offsets(q)[a] + Split!SumOf(SubSeq(q, a + 1, b)) = Split!Offsets(q)[b]
<1> DEFINE t == SubSeq(q, a + 1, b)
           f == Split!Offsets(q)
           g == Split!Offsets(t)
           m == b - a
<1>1. Len(q) \in Nat /\ a \in Nat /\ b \in Nat /\ a <= b /\ b <= Len(q)
  OBVIOUS
<1>2. t \in Seq(Nat) /\ Len(t) = m /\ m \in Nat /\ \A k \in 1..m : t[k] = q[a + k]
  BY <1>1, SMTT(30)
<1> HIDE DEF t, m
<1>3. /\ \A k \in 0..Len(q) : f[k] \in Nat
      /\ \A k \in 1..Len(q) : f[k] = f[k - 1] + q[k]
  BY OffsetsOf
<1>4. /\ \A k \in 0..m : g[k] \in Nat
      /\ g[0] = 0 /\ \A k \in 1..m : g[k] = g[k - 1] + t[k]
  BY <1>2, OffsetsOf
<1> HIDE DEF f, g
<1> DEFINE S == {k \in 0..m : f[a] + g[k] # f[a + k]}
<1>5. S = {}
  <2> SUFFICES ASSUME S # {} PROVE FALSE
    OBVIOUS
  <2>1. PICK k \in S : \A i \in S : k <= i
    <3>1. S \subseteq Nat
      OBVIOUS
    <3> QED
      BY <3>1, Least
  <2>2. k \in 0..m /\ f[a] + g[k] # f[a + k]
    BY <2>1
  <2>3. f[a] \in Nat /\ a + 0 = a
    BY <1>1, <1>3
  <2>4. k # 0
    BY <1>4, <2>2, <2>3
  <2>5. k \in 1..m /\ k - 1 \in 0..m /\ ~(k <= k - 1)
    BY <1>2, <2>2, <2>4
  <2>6. f[a] + g[k - 1] = f[a + (k - 1)]
    BY <2>1, <2>5
  <2>7. a + k \in 1..Len(q) /\ a + (k - 1) = (a + k) - 1 /\ a + (k - 1) \in 0..Len(q)
    BY <1>1, <2>5 DEF m
  <2>8. /\ g[k] = g[k - 1] + q[a + k] /\ f[a + k] = f[a + (k - 1)] + q[a + k]
        /\ g[k - 1] \in Nat /\ q[a + k] \in Nat
    <3>1. g[k] = g[k - 1] + t[k] /\ t[k] = q[a + k] /\ g[k - 1] \in Nat
      BY <1>2, <1>4, <2>5
    <3>2. f[a + k] = f[(a + k) - 1] + q[a + k]
      BY <1>3, <2>7
    <3>3. q[a + k] \in Nat
      BY <2>7
    <3> QED
      BY <2>7, <3>1, <3>2, <3>3
  <2> QED
    BY <2>2, <2>3, <2>6, <2>8, SMTT(30)
<1>6. m \in 0..m /\ a + m = b
  BY <1>1, <1>2 DEF m
<1>7. f[a] + g[m] = f[b]
  BY <1>5, <1>6
<1> QED
  BY <1>2, <1>7 DEF t, f, g, m, Split!SumOf

\* Packets of one length lie where libusb_get_iso_packet_buffer_simple says.
LEMMA SimpleOffsets ==
  ASSUME NEW q \in Seq(Nat), \A i \in 1..Len(q) : q[i] = q[1]
  PROVE  \A p \in 0..(Len(q) - 1) : Split!PacketBufferSimple(q, p) = Split!PacketBuffer(q, p)
<1> DEFINE f == Split!Offsets(q)
           N == Len(q)
           S == {p \in 0..(N - 1) : q[1] * p # f[p]}
<1>1. /\ \A k \in 0..N : f[k] \in Nat
      /\ f[0] = 0 /\ \A k \in 1..N : f[k] = f[k - 1] + q[k]
  BY OffsetsOf
<1>2. N \in Nat /\ \A k \in 1..N : q[k] \in Nat
  OBVIOUS
<1> HIDE DEF f, N
<1>3. S = {}
  <2> SUFFICES ASSUME S # {} PROVE FALSE
    OBVIOUS
  <2>1. PICK p \in S : \A i \in S : p <= i
    <3>1. S \subseteq Nat
      OBVIOUS
    <3> QED
      BY <3>1, Least
  <2>2. p \in 0..(N - 1) /\ q[1] * p # f[p] /\ 1 \in 1..N /\ q[1] \in Nat
    <3>1. p \in 0..(N - 1) /\ q[1] * p # f[p]
      BY <2>1
    <3>2. 1 \in 1..N
      BY <1>2, <3>1
    <3> QED
      BY <1>2, <3>1, <3>2
  <2>3. p # 0
    <3>1. q[1] * 0 = 0
      BY <2>2
    <3> QED
      BY <1>1, <2>2, <3>1
  <2>4. p \in 1..N /\ p \in Nat /\ p - 1 \in Nat /\ p - 1 \in 0..(N - 1) /\ ~(p <= p - 1)
    BY <1>2, <2>2, <2>3
  <2>5. q[1] * (p - 1) = f[p - 1]
    BY <2>1, <2>4
  <2>6. f[p] = f[p - 1] + q[1]
    BY <1>1, <2>4 DEF N
  <2>7. q[1] * p = q[1] * (p - 1) + q[1]
    <3> DEFINE x == q[1]
               y == p - 1
    <3>1. x \in Nat /\ y \in Nat /\ p = y + 1
      BY <2>2, <2>4
    <3> HIDE DEF x, y
    <3>2. x * (y + 1) = x * y + x
      BY <3>1
    <3> QED
      BY <3>1, <3>2 DEF x, y
  <2> QED
    BY <2>2, <2>5, <2>6, <2>7
<1> QED
  BY <1>3 DEF f, N, Split!PacketBuffer, Split!PacketBufferSimple

\* A URB takes the packets it has room for: none, or no more would fit.
LEMMA FittingIs ==
  ASSUME request.packets \in Seq(Nat), NEW o \in 0..Len(request.packets)
  PROVE  /\ Split!Fitting(o) \in 0..(Len(request.packets) - o)
         /\ Split!Offsets(request.packets)[o + Split!Fitting(o)] <= Split!Offsets(request.packets)[o] + MaxIso
         /\ o + Split!Fitting(o) < Len(request.packets) =>
              ~(Split!Offsets(request.packets)[o + Split!Fitting(o) + 1]
                  <= Split!Offsets(request.packets)[o] + MaxIso)
<1> DEFINE q == request.packets
           N == Len(q)
           f == Split!Offsets(q)
           ks == {k \in 0..(N - o) : f[o + k] <= f[o] + MaxIso}
           top == CHOOSE k \in ks : \A j \in ks : j <= k
<1>1. N \in Nat /\ o \in Nat /\ o <= N /\ MaxIso \in Nat
  BY LengthsAssumption
<1>2. f[o] \in Nat
  BY OffsetsOf
<1>3. Split!Fitting(o) = top
  BY DEF Split!Fitting
<1> HIDE DEF f, N
<1>4. 0 \in ks
  <2>1. o + 0 = o /\ f[o] <= f[o] + MaxIso /\ 0 \in 0..(N - o)
    BY <1>1, <1>2
  <2> QED
    BY <2>1
<1>5. \E k \in ks : \A j \in ks : j <= k
  <2> DEFINE S == {d \in Nat : \E k \in ks : d = (N - o) - k}
  <2>1. (N - o) - 0 \in S
    <3>1. (N - o) - 0 \in Nat
      BY <1>1
    <3> QED
      BY <1>4, <3>1
  <2>2. PICK d \in S : \A e \in S : d <= e
    <3>1. S \subseteq Nat /\ S # {}
      BY <2>1
    <3> HIDE DEF S
    <3> QED
      BY <3>1, Least
  <2>3. PICK k \in ks : d = (N - o) - k
    OBVIOUS
  <2>4. ASSUME NEW j \in ks PROVE j <= k
    <3>1. j \in 0..(N - o) /\ k \in 0..(N - o)
      OBVIOUS
    <3>2. (N - o) - j \in Nat
      BY <1>1, <3>1
    <3>3. (N - o) - j \in S
      BY <3>2
    <3>4. (N - o) - k <= (N - o) - j
      BY <2>2, <2>3, <3>3
    <3> QED
      BY <1>1, <3>1, <3>4
  <2> QED
    BY <2>4
<1>6. top \in ks /\ \A j \in ks : j <= top
  <2> HIDE DEF ks
  <2> QED
    BY <1>5, Zenon
<1> HIDE DEF top
<1>7. top \in 0..(N - o) /\ f[o + top] <= f[o] + MaxIso
  BY <1>6
<1>8. o + top < N => ~(f[o + top + 1] <= f[o] + MaxIso)
  <2> SUFFICES ASSUME o + top < N, f[o + top + 1] <= f[o] + MaxIso PROVE FALSE
    OBVIOUS
  <2>1. top + 1 \in 0..(N - o) /\ o + (top + 1) = o + top + 1 /\ ~(top + 1 <= top)
    BY <1>1, <1>7
  <2>2. top + 1 \in ks
    BY <2>1
  <2> QED
    BY <1>6, <2>1, <2>2
<1> QED
  BY <1>3, <1>7, <1>8 DEF f, N


\* What the first pass counts along the packets of one URB, and behind them
LEMMA CountedAlong ==
  ASSUME NEW q \in Seq(Nat), NEW o \in 0..Len(q), NEW e \in o..Len(q), NEW i \in Nat, o < e,
         Split!Counted(q)[o + 1] = [urbs |-> i + 1, used |-> q[o + 1]],
         Split!Offsets(q)[e] <= Split!Offsets(q)[o] + MaxIso,
         e < Len(q) => ~(Split!Offsets(q)[e + 1] <= Split!Offsets(q)[o] + MaxIso)
  PROVE  /\ Split!Counted(q)[e].urbs = i + 1
         /\ e < Len(q) => Split!Counted(q)[e + 1] = [urbs |-> i + 2, used |-> q[e + 1]]
<1> DEFINE N == Len(q)
           f == Split!Offsets(q)
           c == Split!Counted(q)
           S == {j \in (o + 1)..e : ~(c[j].urbs = i + 1 /\ c[j].used + f[o] = f[j])}
<1>1. N \in Nat /\ o \in Nat /\ e \in Nat /\ o < e /\ e <= N /\ MaxIso \in Nat
  BY LengthsAssumption
<1>2. /\ \A k \in 0..N : f[k] \in Nat
      /\ \A k \in 1..N : f[k] = f[k - 1] + q[k]
  BY OffsetsOf
<1>3. /\ \A k \in 0..N : c[k] \in Counts
      /\ \A k \in 1..N : c[k] = OneMore(c[k - 1], q[k])
  BY CountedOf
<1>4. \A j, k \in 0..N : j <= k => f[j] <= f[k]
  BY OffsetsGrow
<1>5. \A k \in 1..N : q[k] \in Nat
  OBVIOUS
<1>6. /\ c[o + 1] = [urbs |-> i + 1, used |-> q[o + 1]] /\ f[e] <= f[o] + MaxIso
      /\ e < N => ~(f[e + 1] <= f[o] + MaxIso)
  OBVIOUS
<1> HIDE DEF N, f, c
<1>7. S = {}
  <2> SUFFICES ASSUME S # {} PROVE FALSE
    OBVIOUS
  <2>1. PICK j \in S : \A l \in S : j <= l
    <3>1. S \subseteq Nat
      BY <1>1
    <3> QED
      BY <3>1, Least
  <2>2. j \in (o + 1)..e /\ ~(c[j].urbs = i + 1 /\ c[j].used + f[o] = f[j])
    BY <2>1
  <2>3. j \in Nat /\ j \in 1..N /\ j - 1 \in 0..N /\ o \in 0..N /\ j \in 0..N /\ e \in 0..N /\ j <= e
    BY <1>1, <2>2
  <2>4. j # o + 1
    <3> SUFFICES ASSUME j = o + 1 PROVE FALSE
      OBVIOUS
    <3>1. c[j].urbs = i + 1 /\ c[j].used = q[j]
      BY <1>6
    <3>2. f[j] = f[o] + q[j] /\ f[o] \in Nat /\ q[j] \in Nat
      <4>1. j - 1 = o
        BY <1>1
      <4> QED
        BY <1>2, <1>5, <2>3, <4>1
    <3> QED
      BY <2>2, <3>1, <3>2
  <2>5. j - 1 \in (o + 1)..e /\ ~(j <= j - 1)
    BY <1>1, <2>2, <2>3, <2>4
  <2> DEFINE u == c[j - 1].used
             p == q[j]
             x == f[o]
             y == f[j - 1]
             z == f[j]
  <2>6. c[j - 1].urbs = i + 1 /\ u + x = y
    BY <2>1, <2>5
  <2>7. u \in Nat /\ p \in Nat /\ x \in Nat /\ y \in Nat /\ z = y + p
    BY <1>2, <1>3, <1>5, <2>3 DEF Counts
  <2>8. z <= x + MaxIso
    <3> DEFINE w == f[e]
    <3>1. z <= w /\ w \in Nat /\ z \in Nat
      BY <1>2, <1>4, <2>3
    <3>2. w <= x + MaxIso
      BY <1>6
    <3>3. x \in Nat
      BY <2>7
    <3> HIDE DEF w, x, z
    <3> QED
      BY <1>1, <3>1, <3>2, <3>3
  <2>9. c[j] = OneMore(c[j - 1], p)
    BY <1>3, <2>3
  <2> HIDE DEF u, p, x, y, z
  <2>10. ~Split!NeedsNewUrb(u, p)
    BY <1>1, <2>6, <2>7, <2>8 DEF Split!NeedsNewUrb
  <2>11. c[j].urbs = i + 1 /\ c[j].used = u + p
    BY <2>6, <2>9, <2>10 DEF OneMore, u
  <2>12. c[j].used + x = z
    BY <2>6, <2>7, <2>11
  <2> QED
    BY <2>2, <2>11, <2>12 DEF x, z
<1>8. e \in (o + 1)..e
  BY <1>1
<1>9. c[e].urbs = i + 1 /\ c[e].used + f[o] = f[e]
  BY <1>7, <1>8
<1>10. e < N => c[e + 1] = [urbs |-> i + 2, used |-> q[e + 1]]
  <2> SUFFICES ASSUME e < N PROVE c[e + 1] = [urbs |-> i + 2, used |-> q[e + 1]]
    OBVIOUS
  <2> DEFINE u == c[e].used
             p == q[e + 1]
             x == f[o]
             y == f[e]
             z == f[e + 1]
  <2>1. e + 1 \in 1..N /\ (e + 1) - 1 = e /\ e \in 0..N /\ o \in 0..N
    BY <1>1
  <2>2. u \in Nat /\ p \in Nat /\ x \in Nat /\ y \in Nat
    BY <1>2, <1>3, <1>5, <2>1 DEF Counts
  <2>3. z = y + p
    BY <1>2, <2>1
  <2>4. u + x = y /\ y <= x + MaxIso /\ ~(z <= x + MaxIso)
    BY <1>6, <1>9
  <2>5. c[e + 1] = OneMore(c[e], p)
    BY <1>3, <2>1
  <2> HIDE DEF u, p, x, y, z
  <2>6. Split!NeedsNewUrb(u, p)
    BY <1>1, <2>2, <2>3, <2>4 DEF Split!NeedsNewUrb
  <2>7. c[e + 1] = [urbs |-> c[e].urbs + 1, used |-> p]
    BY <2>5, <2>6 DEF OneMore, u
  <2>8. c[e].urbs + 1 = i + 2
    BY <1>9
  <2> QED
    BY <2>7, <2>8 DEF p
<1> QED
  BY <1>9, <1>10 DEF N, c


\* An isochronous request has lengths.
LEMMA IsoPackets ==
  ASSUME request \in Split!Requests, request.type = "iso"
  PROVE  request.packets \in Seq(Nat) /\ Len(request.packets) \in 0..MaxPackets
<1>1. PICK q \in UNION {[1..k -> PacketLengths] : k \in 0..MaxPackets} : request = Split!FillIso(q)
  BY DEF Split!Requests, Split!FillBulk, Split!FillControl
<1>2. PICK k \in 0..MaxPackets : q \in [1..k -> PacketLengths]
  BY <1>1
<1>3. k \in Nat
  BY LengthsAssumption
<1>4. q \in [1..k -> Nat]
  BY <1>2, LengthsAssumption
<1>5. q \in Seq(Nat) /\ Len(q) = k
  BY <1>3, <1>4
<1>6. request.packets = q
  BY <1>1 DEF Split!FillIso
<1> QED
  BY <1>2, <1>5, <1>6

LEMMA FilledFirst ==
  ASSUME request \in Split!Requests, request.type = "iso", Split!CountIsoUrbs, step' = "fill",
         pieces = <<>>, packetOffset = 0
  PROVE  Split!IsoInv'
<1> DEFINE R == [off : Nat, first : Nat, lengths : Seq(Nat)]
<1>1. PICK q : q = request.packets
  OBVIOUS
<1>2. PICK N : N = Len(q)
  OBVIOUS
<1>3. q \in Seq(Nat) /\ N \in Nat
  BY <1>1, <1>2, IsoPackets
<1>4. /\ numUrbs' = Split!Counted(q)[N].urbs /\ request' = request
      /\ pieces' = <<>> /\ packetOffset' = 0
  <2>1. ~Split!Release("NO_MEM")
    BY DEF Split!Release
  <2> QED
    BY <1>1, <1>2, <2>1 DEF Split!CountIsoUrbs
<1>5. Split!Counted(q)[0] = [urbs |-> 1, used |-> 0] /\ Split!Counted(q)[N] \in Counts
  BY <1>2, <1>3, CountedOf
<1>6. numUrbs' \in Nat /\ 1 <= numUrbs'
  <2>1. Split!Counted(q)[0].urbs <= Split!Counted(q)[N].urbs
    BY <1>2, <1>3, CountedGrows
  <2>2. Split!Counted(q)[0].urbs = 1 /\ Split!Counted(q)[N].urbs \in Nat
    BY <1>5 DEF Counts
  <2> QED
    BY <1>4, <2>1, <2>2
<1>7. pieces' \in Seq(R) /\ Len(pieces') = 0
  BY <1>4
<1>8. Split!Fits' /\ 0 < N => Split!Counted(q)[0 + 1] = [urbs |-> 0 + 1, used |-> q[0 + 1]]
  <2> SUFFICES ASSUME Split!Fits', 0 < N PROVE Split!Counted(q)[1] = [urbs |-> 1, used |-> q[1]]
    OBVIOUS
  <2>1. 1 \in 1..N /\ q[1] \in Nat /\ MaxIso \in Nat /\ 1 - 1 = 0
    BY <1>2, <1>3, LengthsAssumption
  <2>2. q[1] <= MaxIso
    BY <1>1, <1>2, <1>4, <2>1 DEF Split!Fits
  <2>3. Split!Counted(q)[1] = OneMore(Split!Counted(q)[0], q[1])
    BY <1>2, <1>3, <2>1, CountedOf
  <2>4. ~Split!NeedsNewUrb(0, q[1]) /\ 0 + q[1] = q[1]
    BY <2>1, <2>2 DEF Split!NeedsNewUrb
  <2> QED
    BY <1>5, <2>3, <2>4 DEF OneMore
<1>9. Split!Fits' => Split!FilledInv'
  <2> SUFFICES ASSUME Split!Fits' PROVE Split!FilledInv'
    OBVIOUS
  <2>1. /\ numUrbs' = Split!Counted(q)[Len(q)].urbs
        /\ packetOffset' < Len(q) => Split!Counted(q)[packetOffset' + 1]
                                       = [urbs |-> Len(pieces') + 1, used |-> q[packetOffset' + 1]]
    BY <1>2, <1>4, <1>7, <1>8
  <2>2. request'.packets = q /\ 1..Len(pieces') = {} /\ 1..(Len(pieces') - 1) = {} /\ ~(Len(pieces') > 0)
    BY <1>1, <1>4, <1>7
  <2> QED
    BY <1>4, <2>1, <2>2 DEF Split!FilledInv
<1>10. packetOffset' \in 0..Len(request'.packets)
  BY <1>1, <1>2, <1>3, <1>4
<1> QED
  BY <1>6, <1>7, <1>9, <1>10 DEF Split!IsoInv


LEMMA FilledNext ==
  ASSUME request \in Split!Requests, request.type = "iso", step = "fill", Split!IsoInv,
         Split!FillIsoUrb, step' # "idle"
  PROVE  Split!IsoInv' /\ request' = request /\ step' \in {"fill", "submit"}
<1> DEFINE R == [off : Nat, first : Nat, lengths : Seq(Nat)]
<1>1. PICK q : q = request.packets
  OBVIOUS
<1>2. PICK N : N = Len(q)
  OBVIOUS
<1>3. PICK f, c : f = Split!Offsets(q) /\ c = Split!Counted(q)
  OBVIOUS
<1>4. PICK i, o, k, nu, t : i = Len(pieces) /\ o = packetOffset /\ k = Split!Fitting(packetOffset)
                            /\ nu = numUrbs /\ t = SubSeq(q, o + 1, o + k)
  OBVIOUS
<1>5. PICK u : u = [off |-> f[o], first |-> o, lengths |-> t]
  OBVIOUS
<1>6. q \in Seq(Nat) /\ N \in Nat
  BY <1>1, <1>2, IsoPackets
<1>7. /\ pieces \in Seq(R) /\ i \in Nat /\ o \in 0..N /\ o \in Nat /\ i < nu /\ nu \in Nat
      /\ Split!Fits => Split!FilledInv
  BY <1>1, <1>2, <1>4, <1>6 DEF Split!IsoInv
<1>8. /\ pieces' = Append(pieces, u) /\ packetOffset' = o + k /\ numUrbs' = nu /\ request' = request
      /\ step' = IF i + 1 = nu THEN "submit" ELSE "fill"
  <2>1. ~Split!Release("NO_MEM")
    BY DEF Split!Release
  <2> QED
    BY <1>1, <1>3, <1>4, <1>5, <2>1 DEF Split!FillIsoUrb, Split!PacketBuffer
<1>9. /\ k \in 0..(N - o) /\ k \in Nat /\ f[o + k] <= f[o] + MaxIso
      /\ o + k < N => ~(f[o + k + 1] <= f[o] + MaxIso)
  BY <1>1, <1>2, <1>3, <1>4, <1>6, <1>7, FittingIs
<1>10. PICK e : e = o + k
  OBVIOUS
<1>11. e \in o..N /\ e \in Nat /\ e \in 0..N /\ e - o = k
  BY <1>6, <1>7, <1>9, <1>10
<1>12. t \in Seq(Nat) /\ Len(t) = k
  BY <1>2, <1>4, <1>6, <1>7, <1>10, <1>11, SumsOf
<1>13. f[o] \in Nat /\ u \in R
  <2>1. f[o] \in Nat
    BY <1>2, <1>3, <1>6, <1>7, OffsetsOf
  <2> QED
    BY <1>5, <1>7, <1>12, <2>1
<1>14. u.off = f[o] /\ u.first = o /\ u.lengths = t
  BY <1>5
<1> HIDE DEF R
<1>15. /\ pieces' \in Seq(R) /\ Len(pieces') = i + 1
       /\ \A j \in 1..i : pieces'[j] = pieces[j]
       /\ pieces'[i + 1] = u
  BY <1>4, <1>7, <1>8, <1>13, AppendProperties
<1>16. IF step' = "fill" THEN Len(pieces') < nu ELSE Len(pieces') = nu
  BY <1>7, <1>8, <1>15
<1>17. Split!End(u) = e
  BY <1>10, <1>12, <1>14 DEF Split!End
<1>18. Split!Piece(u)'
  <2>1. u.lengths = SubSeq(q, u.first + 1, e)
    BY <1>4, <1>10, <1>14
  <2>2. u.off = f[u.first] /\ f[e] <= f[u.first] + MaxIso /\ u.first \in 0..N /\ e \in u.first..N
    BY <1>7, <1>9, <1>10, <1>11, <1>14
  <2>3. request'.packets = q
    BY <1>1, <1>8
  <2> QED
    BY <1>2, <1>3, <1>17, <2>1, <2>2, <2>3 DEF Split!Piece, Split!End
<1>19. ASSUME Split!Fits PROVE Split!FilledInv'
  <2>1. /\ nu = c[N].urbs
        /\ \A j \in 1..i : Split!Piece(pieces[j]) /\ (nu > 1 => pieces[j].lengths # <<>>)
        /\ i = 0 => o = 0
        /\ i > 0 => pieces[1].first = 0 /\ o = Split!End(pieces[i])
        /\ \A j \in 1..(i - 1) : pieces[j + 1].first = Split!End(pieces[j])
        /\ o < N => c[o + 1] = [urbs |-> i + 1, used |-> q[o + 1]]
        /\ o = N /\ i > 0 => i = nu
    BY <1>1, <1>2, <1>3, <1>4, <1>7, <1>19 DEF Split!FilledInv
  <2>2. o < N \/ (o = N /\ i = 0 /\ N = 0)
    <3>1. o = N => i = 0
      BY <1>7, <2>1
    <3> QED
      BY <1>6, <1>7, <2>1, <3>1
  <2>3. o < N => k # 0
    <3> SUFFICES ASSUME o < N, k = 0 PROVE FALSE
      OBVIOUS
    <3>1. o + 1 \in 1..N /\ (o + 1) - 1 = o /\ o + k + 1 = o + 1 /\ o + k < N
      BY <1>6, <1>7
    <3>2. f[o + 1] = f[o] + q[o + 1]
      BY <1>2, <1>3, <1>6, <3>1, OffsetsOf
    <3>3. q[o + 1] \in Nat /\ q[o + 1] <= MaxIso /\ MaxIso \in Nat
      BY <1>1, <1>2, <1>6, <1>19, <3>1, LengthsAssumption DEF Split!Fits
    <3>4. f[o + 1] <= f[o] + MaxIso
      BY <1>13, <3>2, <3>3
    <3> QED
      BY <1>9, <3>1, <3>4
  <2>4. /\ e < N => c[e + 1] = [urbs |-> i + 2, used |-> q[e + 1]]
        /\ o < N => c[e].urbs = i + 1
    <3>1. CASE o < N
      <4>1. o < e
        BY <1>7, <1>9, <1>10, <2>3, <3>1
      <4>2. /\ c[o + 1] = [urbs |-> i + 1, used |-> q[o + 1]] /\ f[e] <= f[o] + MaxIso
            /\ e < N => ~(f[e + 1] <= f[o] + MaxIso)
        BY <1>9, <1>10, <2>1, <3>1
      <4> QED
        BY <1>2, <1>3, <1>6, <1>7, <1>11, <4>1, <4>2, CountedAlong, ZenonT(30)
    <3>2. CASE ~(o < N)
      BY <1>6, <1>7, <1>11, <3>2
    <3> QED
      BY <3>1, <3>2
  <2>5. e = N => nu = i + 1
    <3>1. CASE o < N
      BY <2>1, <2>4, <3>1
    <3>2. CASE o = N /\ i = 0 /\ N = 0
      <4>1. c[0] = [urbs |-> 1, used |-> 0]
        BY <1>3, <1>6, CountedOf
      <4> QED
        BY <2>1, <3>2, <4>1
    <3> QED
      BY <2>2, <3>1, <3>2
  <2>6. nu > 1 => t # <<>>
    <3>1. CASE o < N
      BY <1>12, <2>3, <3>1
    <3>2. CASE o = N /\ i = 0 /\ N = 0
      BY <1>11, <2>5, <3>2
    <3> QED
      BY <2>2, <3>1, <3>2
  <2>7. ASSUME NEW j \in 1..(i + 1)
        PROVE  Split!Piece(pieces[j])' /\ (nu > 1 => pieces'[j].lengths # <<>>)
    <3>1. PICK v : v = pieces'[j]
      OBVIOUS
    <3>2. Split!Piece(v)' /\ (nu > 1 => v.lengths # <<>>)
      <4>1. CASE j = i + 1
        <5>1. v = u
          BY <1>15, <3>1, <4>1
        <5> QED
          BY <1>14, <1>18, <2>6, <5>1
      <4>2. CASE j # i + 1
        <5>1. j \in 1..i
          BY <1>7, <4>2
        <5>2. v = pieces[j]
          BY <1>15, <3>1, <5>1
        <5>3. Split!Piece(v) /\ (nu > 1 => v.lengths # <<>>)
          BY <2>1, <5>1, <5>2
        <5> QED
          BY <1>8, <5>3 DEF Split!Piece, Split!End
      <4> QED
        BY <4>1, <4>2
    <3> QED
      BY <3>1, <3>2 DEF Split!Piece, Split!End
  <2>8. pieces'[1].first = 0 /\ e = Split!End(pieces'[i + 1])
    <3>1. CASE i = 0
      BY <1>14, <1>15, <1>17, <2>1, <3>1
    <3>2. CASE i # 0
      <4>1. 1 \in 1..i /\ i > 0
        BY <1>7, <3>2
      <4> QED
        BY <1>15, <1>17, <2>1, <4>1
    <3> QED
      BY <3>1, <3>2
  <2>9. ASSUME NEW j \in 1..((i + 1) - 1) PROVE pieces'[j + 1].first = Split!End(pieces'[j])
    <3>1. j \in 1..i /\ (j = i \/ (j \in 1..(i - 1) /\ j + 1 \in 1..i)) /\ i > 0
      BY <1>7
    <3>2. CASE j = i
      BY <1>14, <1>15, <2>1, <3>1, <3>2
    <3>3. CASE j # i
      BY <1>15, <2>1, <3>1, <3>3
    <3> QED
      BY <3>2, <3>3
  <2>10. packetOffset' = e /\ request'.packets = q /\ (i + 1) + 1 = i + 2 /\ i + 1 # 0
    BY <1>1, <1>7, <1>8, <1>10
  <2>11. /\ numUrbs' = Split!Counted(q)[Len(q)].urbs
         /\ e < Len(q) => Split!Counted(q)[e + 1] = [urbs |-> (i + 1) + 1, used |-> q[e + 1]]
         /\ e = Len(q) => i + 1 = numUrbs'
    BY <1>2, <1>3, <1>8, <2>1, <2>4, <2>5, <2>10
  <2> HIDE <1>1, <1>2, <1>3
  <2> QED
    BY <1>8, <1>15, <2>7, <2>8, <2>9, <2>10, <2>11 DEF Split!FilledInv, Split!End
<1>20. packetOffset' \in 0..Len(request'.packets)
  BY <1>1, <1>2, <1>8, <1>10, <1>11
<1>21. Split!Fits' <=> Split!Fits
  BY <1>8 DEF Split!Fits
<1>22. IF step' = "fill" THEN Len(pieces') < numUrbs' ELSE Len(pieces') = numUrbs'
  BY <1>8, <1>16
<1>23. Split!IsoInv'
  BY <1>7, <1>8, <1>15, <1>19, <1>20, <1>21, <1>22 DEF Split!IsoInv, R
<1> QED
  BY <1>8, <1>23


LEMMA FilledEnough ==
  ASSUME request \in Split!Requests, request.type = "iso", step = "submit", Split!IsoInv
  PROVE  Split!SplitCovers
<1> SUFFICES ASSUME Split!Fits
             PROVE  Len(pieces) = numUrbs /\ Split!BufferCovered /\ Split!PacketsCovered
  BY DEF Split!SplitCovers
<1> DEFINE q == request.packets
           N == Len(q)
           f == Split!Offsets(q)
           c == Split!Counted(q)
           n0 == numUrbs
<1>1. q \in Seq(Nat) /\ N \in Nat
  BY IsoPackets
<1>2. Len(pieces) = n0 /\ n0 \in Nat /\ Split!FilledInv /\ packetOffset \in 0..N
  BY DEF Split!IsoInv
<1>3. /\ n0 = c[N].urbs
      /\ \A j \in 1..n0 : Split!Piece(pieces[j]) /\ (n0 > 1 => pieces[j].lengths # <<>>)
      /\ n0 > 0 => pieces[1].first = 0 /\ packetOffset = Split!End(pieces[n0])
      /\ \A j \in 1..(n0 - 1) : pieces[j + 1].first = Split!End(pieces[j])
      /\ packetOffset < N => c[packetOffset + 1] = [urbs |-> n0 + 1, used |-> q[packetOffset + 1]]
  BY <1>2 DEF Split!FilledInv
<1>4. c[0].urbs = 1 /\ \A j, k \in 0..N : j <= k => c[j].urbs <= c[k].urbs
  <2>1. c[0] = [urbs |-> 1, used |-> 0]
    BY <1>1, CountedOf
  <2> QED
    BY <1>1, <2>1, CountedGrows
<1>5. f[0] = 0 /\ \A k \in 0..N : f[k] \in Nat
  BY <1>1, OffsetsOf
<1>6. ASSUME NEW j \in 1..n0
      PROVE  /\ pieces[j].first \in 0..N /\ Split!End(pieces[j]) \in 0..N
             /\ pieces[j].lengths = SubSeq(q, pieces[j].first + 1, Split!End(pieces[j]))
             /\ pieces[j].off = f[pieces[j].first]
             /\ f[pieces[j].first] + Split!PieceLen(pieces[j]) = f[Split!End(pieces[j])]
             /\ Split!PieceLen(pieces[j]) <= MaxIso
  <2> DEFINE a == pieces[j].first
             b == Split!End(pieces[j])
  <2>1. /\ a \in 0..N /\ b \in a..N /\ pieces[j].lengths = SubSeq(q, a + 1, b)
        /\ pieces[j].off = f[a] /\ f[b] <= f[a] + MaxIso
    BY <1>3 DEF Split!Piece
  <2>2. b \in 0..N /\ a \in 0..N
    BY <1>1, <2>1
  <2> HIDE DEF a, b
  <2>3. /\ SubSeq(q, a + 1, b) \in Seq(Nat)
        /\ f[a] + Split!SumOf(SubSeq(q, a + 1, b)) = f[b]
    BY <1>1, <2>1, SumsOf
  <2> DEFINE s == SubSeq(q, a + 1, b)
  <2>4. Split!SumOf(s) \in Nat
    <3>1. s \in Seq(Nat)
      BY <2>3
    <3> HIDE DEF s
    <3>2. Len(s) \in 0..Len(s)
      BY <3>1
    <3>3. Split!Offsets(s)[Len(s)] \in Nat
      BY <3>1, <3>2, OffsetsOf
    <3> QED
      BY <3>3 DEF Split!SumOf
  <2>5. Split!PieceLen(pieces[j]) = Split!SumOf(s)
    BY <2>1 DEF Split!PieceLen
  <2> DEFINE x == f[a]
             y == f[b]
             z == Split!SumOf(s)
  <2>6. x \in Nat /\ y \in Nat /\ x + z = y /\ y <= x + MaxIso /\ MaxIso \in Nat /\ z \in Nat
    BY <1>5, <2>1, <2>2, <2>3, <2>4, LengthsAssumption
  <2> HIDE DEF x, y, z, s
  <2>7. z <= MaxIso
    BY <2>6
  <2> QED
    BY <2>1, <2>2, <2>5, <2>6, <2>7 DEF a, b, x, y, z
<1> HIDE DEF q, N, f, c
<1>7. 0 \in 0..N /\ N \in 0..N /\ 0 <= N
  BY <1>1
<1>8. 1 <= n0
  BY <1>3, <1>4, <1>7
<1>9. packetOffset = N
  <2> SUFFICES ASSUME packetOffset < N PROVE FALSE
    BY <1>1, <1>2
  <2>1. packetOffset + 1 \in 0..N /\ packetOffset + 1 <= N
    BY <1>1, <1>2
  <2>2. c[packetOffset + 1].urbs = n0 + 1
    BY <1>3
  <2>3. n0 + 1 <= n0
    BY <1>3, <1>4, <1>7, <2>1, <2>2
  <2> QED
    BY <1>2, <2>3
<1>10. 1 \in 1..n0 /\ n0 \in 1..n0 /\ n0 > 0 /\ \A j \in 1..(n0 - 1) : j \in 1..n0 /\ j + 1 \in 1..n0
  BY <1>2, <1>8
<1>11. Split!PacketsCovered
  <2>1. (\A i \in 1..N : q[i] = q[1])
          => \A p \in 0..(N - 1) : Split!PacketBufferSimple(q, p) = Split!PacketBuffer(q, p)
    BY <1>1, SimpleOffsets DEF N
  <2>2. Split!End(pieces[n0]) = N /\ pieces[1].first = 0
    BY <1>3, <1>9, <1>10
  <2>3. \A i \in 1..n0 :
          /\ pieces[i].lengths = SubSeq(q, pieces[i].first + 1, Split!End(pieces[i]))
          /\ n0 > 1 => pieces[i].lengths # <<>>
    BY <1>3, <1>6
  <2>4. \A j \in 1..(n0 - 1) : pieces[j + 1].first = Split!End(pieces[j])
    BY <1>3
  <2> QED
    BY <2>1, <2>2, <2>3, <2>4 DEF Split!PacketsCovered, q, N
<1>12. Split!BufferCovered
  <2>1. Split!Limit = MaxIso /\ Split!Total = f[N]
    BY DEF Split!Limit, Split!Total, Split!SumOf, f, N, q
  <2>2. \A i \in 1..n0 : Split!PieceLen(pieces[i]) <= Split!Limit
    BY <1>6, <2>1
  <2>3. pieces[1].off = 0
    BY <1>3, <1>5, <1>6, <1>10
  <2>4. ASSUME NEW i \in 1..(n0 - 1) PROVE pieces[i + 1].off = pieces[i].off + Split!PieceLen(pieces[i])
    <3>1. i \in 1..n0 /\ i + 1 \in 1..n0 /\ pieces[i + 1].first = Split!End(pieces[i])
      BY <1>3, <1>10
    <3>2. pieces[i + 1].off = f[Split!End(pieces[i])]
      BY <1>6, <3>1
    <3>3. pieces[i].off + Split!PieceLen(pieces[i]) = f[Split!End(pieces[i])]
      BY <1>6, <3>1
    <3> QED
      BY <3>2, <3>3
  <2>5. pieces[n0].off + Split!PieceLen(pieces[n0]) = Split!Total
    BY <1>3, <1>6, <1>9, <1>10, <2>1
  <2> QED
    BY <2>2, <2>3, <2>4, <2>5 DEF Split!BufferCovered
<1> QED
  BY <1>2, <1>11, <1>12


LEMMA DivMod ==
  ASSUME NEW x \in Nat, NEW y \in Nat \ {0}
  PROVE  x \div y \in Nat /\ x % y \in Nat /\ x % y < y /\ x = y * (x \div y) + (x % y)
  OBVIOUS

LEMMA BulkCovers ==
  ASSUME NEW r \in Split!Requests, r.type = "bulk", request' = r, numUrbs' = Split!BulkUrbs(r),
         pieces' = [i \in 1..Split!BulkUrbs(r) |-> Split!BulkUrb(r, i, Split!BulkUrbs(r))]
  PROVE  Split!SplitCovers'
<1> DEFINE L == r.length
           B == Split!BulkBufferLen(r)
           d == L \div B
           m == L % B
           n0 == Split!BulkUrbs(r)
           len(i) == IF i = n0 /\ m > 0 THEN m ELSE IF L = 0 THEN 0 ELSE B
<1>1. L \in Nat
  <2>1. PICK x \in 0..MaxLength, a \in SUBSET Split!Caps, o \in BOOLEAN, z \in BOOLEAN :
            r = Split!FillBulk(x, a, o, z)
    BY DEF Split!Requests, Split!FillControl, Split!FillIso
  <2>2. L = x
    BY <2>1 DEF Split!FillBulk
  <2> QED
    BY <2>2, LengthsAssumption
<1>2. B \in Nat \ {0}
  BY <1>1, LengthsAssumption DEF Split!BulkBufferLen
<1>3. \A i : Split!BulkUrb(r, i, n0).off = (i - 1) * B /\ Split!BulkUrb(r, i, n0).len = len(i)
  BY DEF Split!BulkUrb
<1>4. n0 = IF L = 0 THEN 1 ELSE d + (IF m > 0 THEN 1 ELSE 0)
  BY DEF Split!BulkUrbs
<1> HIDE DEF L, B
<1>5. d \in Nat /\ m \in Nat /\ m < B /\ L = B * d + m
  BY <1>1, <1>2, DivMod
<1> HIDE DEF d, m, n0
<1>6. n0 \in Nat /\ 1 <= n0
  <2>1. L # 0 /\ m = 0 => d # 0
    <3>1. B * 0 = 0
      BY <1>2
    <3> QED
      BY <1>5, <3>1
  <2> QED
    BY <1>4, <1>5, <2>1
<1>7. \A i \in 1..n0 : len(i) \in Nat /\ len(i) <= B
  BY <1>1, <1>2, <1>5
<1>8. \A i \in 1..(n0 - 1) : len(i) = B
  <2>1. \A i \in 1..(n0 - 1) : i # n0 /\ L # 0
    BY <1>4, <1>6
  <2> QED
    BY <2>1
<1>9. (n0 - 1) * B + len(n0) = L
  <2>1. CASE L = 0
    <3>1. n0 = 1 /\ (1 - 1) * B = 0
      BY <1>2, <1>4, <2>1
    <3>2. m = 0
      <4>1. B * d \in Nat
        BY <1>2, <1>5
      <4> QED
        BY <1>5, <2>1, <4>1
    <3> QED
      BY <2>1, <3>1, <3>2
  <2>2. CASE L # 0 /\ m > 0
    <3>1. n0 - 1 = d /\ len(n0) = m
      BY <1>4, <1>5, <2>2
    <3>2. d * B = B * d
      BY <1>2, <1>5
    <3> QED
      BY <1>5, <3>1, <3>2
  <2>3. CASE L # 0 /\ ~(m > 0)
    <3>1. n0 = d /\ len(n0) = B /\ m = 0
      BY <1>4, <1>5, <2>3
    <3>2. d - 1 \in Nat /\ d = (d - 1) + 1
      BY <1>5, <1>6, <3>1
    <3> DEFINE e == d - 1
    <3>3. e \in Nat /\ d = e + 1
      BY <3>2
    <3> HIDE DEF e
    <3>4. e * B + B = B * (e + 1) /\ B * (e + 1) + 0 = B * (e + 1)
      BY <1>2, <3>3
    <3> QED
      BY <1>5, <3>1, <3>3, <3>4 DEF e
  <2> QED
    BY <2>1, <2>2, <2>3
<1>10. \A i \in 1..(n0 - 1) : ((i + 1) - 1) * B = (i - 1) * B + B
  <2> SUFFICES ASSUME NEW i \in 1..(n0 - 1) PROVE ((i + 1) - 1) * B = (i - 1) * B + B
    OBVIOUS
  <2> DEFINE e == i - 1
  <2>1. e \in Nat /\ (i + 1) - 1 = e + 1
    BY <1>6
  <2> HIDE DEF e
  <2>2. (e + 1) * B = e * B + B
    BY <1>2, <2>1
  <2> QED
    BY <2>1, <2>2 DEF e
<1>11. /\ numUrbs' = n0 /\ request' = r /\ Len(pieces') = n0
       /\ \A i \in 1..n0 : pieces'[i].off = (i - 1) * B /\ pieces'[i].len = len(i)
  <2>1. numUrbs' = n0 /\ request' = r /\ pieces' = [i \in 1..n0 |-> Split!BulkUrb(r, i, n0)]
    BY DEF n0
  <2> QED
    BY <1>3, <1>6, <2>1
<1> HIDE DEF len
<1>12. /\ Split!Limit' = B /\ Split!Total' = L
       /\ \A i \in 1..n0 : Split!PieceLen(pieces[i])' = len(i)
  <2>1. Split!Limit' = B /\ Split!Total' = L
    BY <1>11 DEF Split!Limit, Split!Total, Split!BulkBufferLen, B, L
  <2>2. \A i \in 1..n0 : Split!PieceLen(pieces[i])' = pieces'[i].len
    BY <1>11 DEF Split!PieceLen
  <2> QED
    BY <1>11, <2>1, <2>2
<1>13. 1 \in 1..n0 /\ n0 \in 1..n0 /\ \A i \in 1..(n0 - 1) : i \in 1..n0 /\ i + 1 \in 1..n0
  BY <1>6
<1>14. Split!BufferCovered'
  <2>1. \A i \in 1..n0 : Split!PieceLen(pieces[i])' <= Split!Limit'
    BY <1>7, <1>12
  <2>2. pieces'[1].off = 0
    <3>1. (1 - 1) * B = 0
      BY <1>2
    <3> QED
      BY <1>11, <1>13, <3>1
  <2>3. ASSUME NEW i \in 1..(n0 - 1) PROVE pieces'[i + 1].off = pieces'[i].off + Split!PieceLen(pieces[i])'
    <3>1. pieces'[i + 1].off = ((i + 1) - 1) * B /\ pieces'[i].off = (i - 1) * B
      BY <1>11, <1>13
    <3>2. Split!PieceLen(pieces[i])' = B
      BY <1>8, <1>12, <1>13
    <3> QED
      BY <1>10, <3>1, <3>2
  <2>4. pieces'[n0].off + Split!PieceLen(pieces[n0])' = Split!Total'
    BY <1>9, <1>11, <1>12, <1>13
  <2> QED
    BY <1>11, <2>1, <2>2, <2>3, <2>4 DEF Split!BufferCovered
<1>15. r.type # "iso"
  OBVIOUS
<1> QED
  BY <1>11, <1>14, <1>15 DEF Split!SplitCovers


LEMMA ControlCovers ==
  ASSUME NEW r \in Split!Requests, r.type = "control", request' = r, numUrbs' = 1,
         pieces' = <<[off |-> 0, len |-> r.length]>>, ~(r.length - SetupSize > MaxCtrl)
  PROVE  Split!SplitCovers'
<1>1. PICK w \in 0..MaxLength : r = Split!FillControl(w)
  BY DEF Split!Requests, Split!FillBulk, Split!FillIso
<1>2. r.length = SetupSize + w /\ w \in Nat /\ SetupSize \in Nat /\ MaxCtrl \in Nat
  BY <1>1, LengthsAssumption DEF Split!FillControl
<1>3. r.length \in Nat /\ r.length <= MaxCtrl + SetupSize
  BY <1>2
<1>4. Len(pieces') = 1 /\ pieces'[1].off = 0 /\ pieces'[1].len = r.length /\ 1..0 = {} /\ 1 - 1 = 0
  OBVIOUS
<1>5. Split!Limit' = MaxCtrl + SetupSize /\ Split!Total' = r.length /\ Split!PieceLen(pieces[1])' = r.length
  BY <1>4 DEF Split!Limit, Split!Total, Split!PieceLen
<1>6. Split!BufferCovered'
  <2>1. \A i \in 1..1 : i = 1
    OBVIOUS
  <2>2. 0 + r.length = r.length
    BY <1>3
  <2> QED
    BY <1>3, <1>4, <1>5, <2>1, <2>2 DEF Split!BufferCovered
<1> QED
  BY <1>4, <1>6 DEF Split!SplitCovers

LEMMA SplitInit == Split!Init => Split!IndInv
  BY DEF Split!Init, Split!IndInv, Split!NoRequest

LEMMA SplitStep ==
  ASSUME Split!IndInv, Split!Next
  PROVE  Split!IndInv'
<1>1. CASE step' = "idle"
  <2>1. \E error : Split!Release(error) /\ request' = Split!NoRequest
    <3>1. ASSUME NEW r \in Split!Requests, Split!SubmitTransfer(r) PROVE \E error : Split!Release(error)
      BY <1>1, <3>1 DEF Split!SubmitTransfer, Split!SubmitBulk, Split!SubmitControl
    <3>2. request' = Split!NoRequest
      BY <1>1 DEF Split!Next, Split!SubmitTransfer, Split!CountIsoUrbs, Split!FillIsoUrb, Split!FreeUrbs
    <3>3. \E error : Split!Release(error)
      <4>1. CASE Split!FreeUrbs
        BY <4>1 DEF Split!FreeUrbs
      <4>2. CASE Split!CountIsoUrbs
        BY <1>1, <4>2 DEF Split!CountIsoUrbs
      <4>3. CASE Split!FillIsoUrb
        BY <1>1, <4>3 DEF Split!FillIsoUrb
      <4> QED
        BY <3>1, <4>1, <4>2, <4>3 DEF Split!Next
    <3> QED
      BY <3>2, <3>3
  <2> QED
    BY <2>1 DEF Split!Release, Split!IndInv
<1>2. CASE step' # "idle"
  <2>1. ASSUME NEW r \in Split!Requests, Split!SubmitTransfer(r) PROVE Split!IndInv'
    <3>1. request' = r /\ \A error : ~Split!Release(error)
      BY <1>2, <2>1 DEF Split!SubmitTransfer, Split!Release
    <3>2. CASE r.type = "bulk"
      <4>1. /\ numUrbs' = Split!BulkUrbs(r) /\ step' = "submit" /\ packetOffset' = 0
            /\ pieces' = [i \in 1..Split!BulkUrbs(r) |-> Split!BulkUrb(r, i, Split!BulkUrbs(r))]
        BY <2>1, <3>1, <3>2 DEF Split!SubmitTransfer, Split!SubmitBulk
      <4>2. Split!SplitCovers'
        BY <3>1, <3>2, <4>1, BulkCovers
      <4> QED
        BY <3>1, <3>2, <4>1, <4>2 DEF Split!IndInv
    <3>3. CASE r.type = "control"
      <4>1. /\ numUrbs' = 1 /\ step' = "submit" /\ packetOffset' = 0
            /\ pieces' = <<[off |-> 0, len |-> r.length]>> /\ ~(r.length - SetupSize > MaxCtrl)
        BY <2>1, <3>1, <3>3 DEF Split!SubmitTransfer, Split!SubmitControl
      <4>2. Split!SplitCovers'
        BY <3>1, <3>3, <4>1, ControlCovers
      <4> QED
        BY <3>1, <3>3, <4>1, <4>2 DEF Split!IndInv
    <3>4. CASE r.type = "iso"
      <4>1. step' = "count" /\ pieces' = <<>> /\ numUrbs' = 0 /\ packetOffset' = 0
        BY <2>1, <3>4 DEF Split!SubmitTransfer
      <4> QED
        BY <3>1, <3>4, <4>1 DEF Split!IndInv
    <3> QED
      BY <2>1, <3>2, <3>3, <3>4 DEF Split!SubmitTransfer
  <2>2. CASE Split!CountIsoUrbs
    <3>1. /\ step = "count" /\ step' = "fill" /\ request' = request
      BY <1>2, <2>2 DEF Split!CountIsoUrbs, Split!Release
    <3>2. request \in Split!Requests /\ request.type = "iso" /\ pieces = <<>> /\ packetOffset = 0
      BY <3>1 DEF Split!IndInv
    <3>3. Split!IsoInv'
      BY <2>2, <3>1, <3>2, FilledFirst
    <3> QED
      BY <3>1, <3>2, <3>3 DEF Split!IndInv
  <2>3. CASE Split!FillIsoUrb
    <3>1. step = "fill"
      BY <2>3 DEF Split!FillIsoUrb
    <3>2. request \in Split!Requests /\ request.type = "iso" /\ Split!IsoInv
      BY <3>1 DEF Split!IndInv
    <3>3. Split!IsoInv' /\ request' = request /\ step' \in {"fill", "submit"}
      BY <1>2, <2>3, <3>1, <3>2, FilledNext
    <3> QED
      BY <3>2, <3>3 DEF Split!IndInv
  <2> QED
    BY <1>2, <2>1, <2>2, <2>3 DEF Split!Next, Split!FreeUrbs, Split!Release
<1> QED
  BY <1>1, <1>2

LEMMA SplitEnough ==
  ASSUME Split!IndInv
  PROVE  Split!TypeOK /\ Split!SplitCovers
<1>1. CASE step \in {"idle", "count"}
  <2>1. pieces = <<>> /\ numUrbs = 0 /\ packetOffset = 0 /\ Len(<<>>) <= 0
    BY <1>1 DEF Split!IndInv
  <2>2. request.type \in {"none", "bulk", "control", "iso"}
    BY DEF Split!IndInv, Split!Requests, Split!NoRequest, Split!FillBulk, Split!FillControl, Split!FillIso
  <2>3. 0 \in 0..MaxPackets
    BY LengthsAssumption
  <2> QED
    BY <1>1, <2>1, <2>2, <2>3 DEF Split!TypeOK, Split!SplitCovers
<1>2. CASE step \in {"fill", "submit"} /\ request.type = "iso"
  <2>1. request \in Split!Requests /\ Split!IsoInv
    BY <1>2 DEF Split!IndInv
  <2>2. Len(pieces) \in Nat /\ Len(pieces) <= numUrbs
    <3>1. Len(pieces) \in Nat
      BY <2>1 DEF Split!IsoInv
    <3> QED
      BY <2>1, <3>1 DEF Split!IsoInv
  <2>3. packetOffset \in 0..MaxPackets
    <3>1. packetOffset \in 0..Len(request.packets) /\ Len(request.packets) \in 0..MaxPackets
      BY <1>2, <2>1, IsoPackets DEF Split!IsoInv
    <3> QED
      BY <3>1, LengthsAssumption
  <2>4. Split!SplitCovers
    BY <1>2, <2>1, FilledEnough DEF Split!SplitCovers
  <2> QED
    BY <1>2, <2>2, <2>3, <2>4 DEF Split!TypeOK
<1>3. CASE step = "submit" /\ request.type # "iso"
  <2>1. Split!SplitCovers /\ packetOffset = 0 /\ request \in Split!Requests
    BY <1>3 DEF Split!IndInv
  <2>2. Len(pieces) = numUrbs
    BY <1>3, <2>1 DEF Split!SplitCovers, Split!Fits
  <2>3. request.type \in {"none", "bulk", "control", "iso"}
    BY <2>1 DEF Split!Requests, Split!FillBulk, Split!FillControl, Split!FillIso
  <2>4. 0 \in 0..MaxPackets
    BY LengthsAssumption
  <2> QED
    BY <1>3, <2>1, <2>2, <2>3, <2>4 DEF Split!TypeOK
<1> QED
  BY <1>1, <1>2, <1>3 DEF Split!IndInv


LEMMA SplitStutter ==
  ASSUME Split!IndInv, UNCHANGED splitVars
  PROVE  Split!IndInv'
<1>1. UNCHANGED <<request, step, pieces, numUrbs, packetOffset>>
  BY DEF splitVars
<1>2. Split!Fits' <=> Split!Fits
  BY <1>1 DEF Split!Fits
<1>3. Split!FilledInv => Split!FilledInv'
  BY <1>1 DEF Split!FilledInv, Split!Piece, Split!End
<1>4. Split!IsoInv => Split!IsoInv'
  BY <1>1, <1>2, <1>3 DEF Split!IsoInv
<1>5. Split!SplitCovers => Split!SplitCovers'
  <2>1. Split!Total' = Split!Total /\ Split!Limit' = Split!Limit
    BY <1>1 DEF Split!Total, Split!Limit
  <2>2. Split!BufferCovered => Split!BufferCovered'
    BY <1>1, <2>1 DEF Split!BufferCovered, Split!PieceLen
  <2>3. Split!PacketsCovered => Split!PacketsCovered'
    BY <1>1 DEF Split!PacketsCovered, Split!End
  <2> QED
    BY <1>1, <1>2, <2>2, <2>3 DEF Split!SplitCovers
<1> QED
  BY <1>1, <1>4, <1>5 DEF Split!IndInv

\* The URBs of a transfer cover its buffer, once, in order and within the limits
\* of the kernel, for any lengths of transfers and packets; the two passes of
\* submit_iso_transfer agree.  And whatever a device sends is in the buffer, in
\* order and without holes, when a bulk or interrupt transfer is reported with
\* actual_length, surplus data that came behind a short or a cancelled URB
\* included; a completed isochronous transfer has each packet's result in its own
\* descriptor (linux_usbfs.c submit_..._transfer, handle_bulk_completion,
\* handle_iso_completion).  As above, bulk transfers without continuation are
\* spared faults.
THEOREM DataSafe ==
  ASSUME "bulk" \notin FaultyKinds
  PROVE  Spec => []DataInPlace
<1> DEFINE I == /\ part = "urb" => Urb!IndInv /\ Urb!PlaceInv
                /\ part = "split" => Split!IndInv
<1>1. Init => I
  BY IndInit, PlaceInit, SplitInit DEF Init
<1>2. I /\ [Next]_all => I'
  <2> SUFFICES ASSUME I, [Next]_all PROVE I'
    OBVIOUS
  <2>1. ASSUME part' = "urb" PROVE Urb!IndInv' /\ Urb!PlaceInv'
    <3>1. part = "urb" /\ (Urb!Next \/ UNCHANGED urbVars)
      BY <2>1, PartSteps
    <3>2. CASE Urb!Next
      BY <3>1, <3>2, IndStep, PlaceStep
    <3>3. CASE UNCHANGED urbVars
      BY <3>1, <3>3, IndStutter, PlaceStutter
    <3> QED
      BY <3>1, <3>2, <3>3
  <2>2. ASSUME part' = "split" PROVE Split!IndInv'
    <3>1. part = "split" /\ (Split!Next \/ UNCHANGED splitVars)
      BY <2>2, PartSteps
    <3>2. CASE Split!Next
      BY <3>1, <3>2, SplitStep
    <3>3. CASE UNCHANGED splitVars
      BY <3>1, <3>3, SplitStutter
    <3> QED
      BY <3>1, <3>2, <3>3
  <2> QED
    BY <2>1, <2>2
<1>3. I => DataInPlace
  BY PlaceEnough, SplitEnough DEF DataInPlace
<1> QED
  BY <1>1, <1>2, <1>3, PTL DEF Spec, Steps

=============================================================================
