------------------------- MODULE IsoTransfersProofs --------------------------
(* dead_xfers is exact and nothing is freed under libusb, for every number *)
(* of transfers per stream.                                                *)
EXTENDS IsoTransfers, FiniteSetTheorems, TLAPS

\* What is in flight, and how much of it there is.
LEMMA FlightFacts ==
  ASSUME TypeOK, NEW s \in Streams
  PROVE  /\ IsFiniteSet(InFlight(s)) /\ InFlight(s) \subseteq Xfers
         /\ Cardinality(InFlight(s)) \in Nat
         /\ Cardinality(Xfers) \in Nat
         /\ Cardinality(InFlight(s)) = 0 <=> InFlight(s) = {}
<1>1. InFlight(s) \subseteq Xfers
  BY DEF InFlight
<1>2. IsFiniteSet(InFlight(s))
  BY <1>1, XfersAssumption, FS_Subset
<1>. QED
  BY <1>1, <1>2, XfersAssumption, FS_CardinalityType, FS_EmptySet

\* The state before anything is started satisfies the invariant.
LEMMA InitIndInv == Init => IndInv
<1> SUFFICES ASSUME Init PROVE IndInv
  OBVIOUS
<1>1. Cardinality(Xfers) \in Nat
  BY XfersAssumption, FS_CardinalityType
<1>2. TypeOK
  <2>1. deadXfers \in [Streams -> 0 .. Cardinality(Xfers)]
    BY <1>1 DEF Init
  <2>2. xfer \in [Streams -> [Xfers -> XferStates]]
    BY DEF Init, XferStates
  <2>. QED
    BY <2>1, <2>2 DEF Init, TypeOK, Pcs, Streams
<1>3. NoCallbackAfterFree
  BY DEF Init, NoCallbackAfterFree, InFlight
<1>4. DeadXfersExact /\ RunningIsAllocated /\ CallerInv
  BY DEF Init, DeadXfersExact, RunningIsAllocated, CallerInv
<1>. QED
  BY <1>2, <1>3, <1>4 DEF IndInv

\* Of the transfers started, those not in flight are the dead ones.
LEMMA StartStep ==
  ASSUME IndInv, NEW r \in [Xfers -> {"null", "idle", "flight"}], StartIso(r)
  PROVE  IndInv'
<1> DEFINE F == {x \in Xfers : r[x] = "flight"}
<1>1. /\ IsFiniteSet(F) /\ IsFiniteSet(DeadAtStart(r))
      /\ Cardinality(F) \in Nat /\ Cardinality(DeadAtStart(r)) \in Nat
      /\ Cardinality(DeadAtStart(r)) <= Cardinality(Xfers)
      /\ Cardinality(Xfers) \in Nat
  BY XfersAssumption, FS_Subset, FS_CardinalityType DEF DeadAtStart
<1>2. Cardinality(DeadAtStart(r)) + Cardinality(F) = Cardinality(Xfers)
  <2>1. /\ DeadAtStart(r) \cup F = Xfers
        /\ DeadAtStart(r) \cap F = {}
    BY DEF DeadAtStart
  <2>2. Cardinality(DeadAtStart(r) \cup F)
          = Cardinality(DeadAtStart(r)) + Cardinality(F)
              - Cardinality(DeadAtStart(r) \cap F)
    BY <1>1, FS_Union
  <2>. QED
    BY <1>1, <2>1, <2>2, FS_EmptySet
<1>3. cur \in Streams /\ pc' = "starting" /\ cur' = cur /\ running' = running
  BY DEF IndInv, TypeOK, StartIso
<1>4. TypeOK'
  BY <1>1 DEF IndInv, TypeOK, StartIso, XferStates, Pcs
<1>5. \A s \in Streams : InFlight(s)' = IF s = cur THEN F ELSE InFlight(s)
  BY <1>3 DEF IndInv, TypeOK, StartIso, InFlight
<1>6. \A s \in Streams :
        /\ allocated'[s] = IF s = cur THEN TRUE ELSE allocated[s]
        /\ dead'[s] = IF s = cur THEN FALSE ELSE dead[s]
        /\ deadXfers'[s] = IF s = cur THEN Cardinality(DeadAtStart(r))
                           ELSE deadXfers[s]
  BY DEF IndInv, TypeOK, StartIso
<1>7. NoCallbackAfterFree'
  BY <1>5, <1>6 DEF IndInv, NoCallbackAfterFree
<1>8. DeadXfersExact'
  <2> SUFFICES ASSUME NEW s \in Streams, allocated'[s]
               PROVE  deadXfers'[s] + Cardinality(InFlight(s)')
                        = Cardinality(Xfers)
    BY DEF DeadXfersExact
  <2>1. CASE s = cur
    BY <1>2, <1>5, <1>6, <2>1
  <2>2. CASE s # cur
    BY <1>5, <1>6, <2>2 DEF IndInv, DeadXfersExact, StartIso
  <2>. QED
    BY <2>1, <2>2
<1>9. RunningIsAllocated' /\ CallerInv'
  BY <1>3, <1>6 DEF IndInv, RunningIsAllocated, CallerInv
<1>. QED
  BY <1>4, <1>7, <1>8, <1>9 DEF IndInv

\* A transfer that comes to rest leaves the flight set and is counted once.
LEMMA RetireStep ==
  ASSUME IndInv, NEW s \in Streams, NEW x \in InFlight(s), Pumping, Retire(s, x),
         deviceDead' \in BOOLEAN,
         UNCHANGED <<dead, allocated, running, plugged, pc, cur, closing>>
  PROVE  IndInv'
<1>1. x \in Xfers /\ pc # "closed"
  BY DEF InFlight, Pumping
<1>2. allocated[s]
  BY DEF IndInv, NoCallbackAfterFree
<1>3. deadXfers[s] + Cardinality(InFlight(s)) = Cardinality(Xfers)
  BY <1>1, <1>2 DEF IndInv, DeadXfersExact
<1>4. /\ Cardinality(InFlight(s)) \in Nat /\ Cardinality(Xfers) \in Nat
      /\ IsFiniteSet(InFlight(s)) /\ Cardinality(InFlight(s)) # 0
  BY FlightFacts DEF IndInv
<1>5. Cardinality(InFlight(s) \ {x}) = Cardinality(InFlight(s)) - 1
  BY <1>4, FS_RemoveElement
<1>6. deadXfers[s] \in Nat /\ deadXfers[s] + 1 <= Cardinality(Xfers)
  BY <1>3, <1>4 DEF IndInv, TypeOK
<1>7. \A t \in Streams :
        /\ InFlight(t)' = IF t = s THEN InFlight(t) \ {x} ELSE InFlight(t)
        /\ deadXfers'[t] = IF t = s THEN deadXfers[t] + 1 ELSE deadXfers[t]
  BY <1>1 DEF IndInv, TypeOK, Retire, InFlight
<1>8. TypeOK'
  <2>1. xfer' \in [Streams -> [Xfers -> XferStates]]
    BY <1>1 DEF IndInv, TypeOK, Retire, XferStates
  <2>2. deadXfers' \in [Streams -> 0 .. Cardinality(Xfers)]
    BY <1>4, <1>6 DEF IndInv, TypeOK, Retire
  <2>. QED
    BY <2>1, <2>2 DEF IndInv, TypeOK
<1>9. NoCallbackAfterFree' /\ RunningIsAllocated' /\ CallerInv'
  BY <1>7 DEF IndInv, NoCallbackAfterFree, RunningIsAllocated, CallerInv
<1>10. DeadXfersExact'
  <2> SUFFICES ASSUME NEW t \in Streams, allocated'[t]
               PROVE  deadXfers'[t] + Cardinality(InFlight(t)')
                        = Cardinality(Xfers)
    BY DEF DeadXfersExact
  <2>1. CASE t = s
    <3>1. (deadXfers[s] + 1) + Cardinality(InFlight(s) \ {x})
            = Cardinality(Xfers)
      BY <1>3, <1>4, <1>5, <1>6
    <3>2. deadXfers'[t] = deadXfers[s] + 1 /\ InFlight(t)' = InFlight(s) \ {x}
      BY <1>7, <2>1
    <3>. QED
      BY <3>1, <3>2
  <2>2. CASE t # s
    BY <1>1, <1>7, <2>2 DEF IndInv, DeadXfersExact
  <2>. QED
    BY <2>1, <2>2
<1>. QED
  BY <1>8, <1>9, <1>10 DEF IndInv

\* iso_callback preserves the invariant, whatever the status.
LEMMA CallbackStep ==
  ASSUME IndInv, NEW s \in Streams, NEW x \in Xfers, IsoCallback(s, x)
  PROVE  IndInv'
<1>1. CASE RetireDead(s, x)
  BY <1>1, RetireStep DEF RetireDead, IndInv, TypeOK
<1>2. CASE Resubmit(s, x)
  BY <1>2
  DEF Resubmit, vars, IndInv, TypeOK, NoCallbackAfterFree, DeadXfersExact,
      RunningIsAllocated, CallerInv, InFlight
<1>3. CASE ResubmitFails(s, x)
  BY <1>3, RetireStep DEF ResubmitFails, ResubmitFailed
<1>4. CASE DeviceGone(s, x)
  BY <1>4, RetireStep DEF DeviceGone, NoteGone
<1>. QED
  BY <1>1, <1>2, <1>3, <1>4 DEF IsoCallback

\* fnusb_stop_iso leaves its loop only when nothing is in flight.
LEMMA FreeStep == IndInv /\ FreeIso => IndInv'
<1> SUFFICES ASSUME IndInv, FreeIso PROVE IndInv'
  OBVIOUS
<1>1. cur \in Streams /\ allocated[cur] /\ ~running[cur] /\ pc = "reap"
  BY DEF IndInv, TypeOK, CallerInv, FreeIso
<1>2. InFlight(cur) = {}
  <2>1. deadXfers[cur] + Cardinality(InFlight(cur)) = Cardinality(Xfers)
    BY <1>1 DEF IndInv, DeadXfersExact
  <2>2. deadXfers[cur] \in Nat /\ deadXfers[cur] >= Cardinality(Xfers)
    BY <1>1 DEF IndInv, TypeOK, FreeIso, Reaped
  <2>3. /\ Cardinality(InFlight(cur)) \in Nat /\ Cardinality(Xfers) \in Nat
        /\ Cardinality(InFlight(cur)) = 0 <=> InFlight(cur) = {}
    BY <1>1, FlightFacts DEF IndInv
  <2>. QED
    BY <2>1, <2>2, <2>3
<1>3. \A s \in Streams : InFlight(s)' = InFlight(s)
  BY <1>1 DEF IndInv, TypeOK, FreeIso, InFlight
<1>4. \A s \in Streams :
        allocated'[s] = IF s = cur THEN FALSE ELSE allocated[s]
  BY DEF IndInv, TypeOK, FreeIso
<1>5. /\ dead' = dead /\ deadXfers' = deadXfers
      /\ \/ pc' \in {"close", "aborted"} /\ running' = running /\ cur' = cur
         \/ /\ pc' = "stopping" /\ cur' = "depth" /\ cur = "video"
            /\ running["depth"]
            /\ running' = [running EXCEPT !["depth"] = FALSE]
  BY DEF FreeIso, BeginStop
<1>6. TypeOK'
  <2>1. xfer' \in [Streams -> [Xfers -> XferStates]]
    BY <1>1 DEF IndInv, TypeOK, FreeIso, XferStates
  <2>. QED
    BY <1>5, <2>1 DEF IndInv, TypeOK, FreeIso, Pcs, Streams
<1>7. NoCallbackAfterFree'
  BY <1>2, <1>3, <1>4 DEF IndInv, NoCallbackAfterFree
<1>8. DeadXfersExact'
  BY <1>1, <1>3, <1>4, <1>5 DEF IndInv, DeadXfersExact
<1>9. RunningIsAllocated' /\ CallerInv'
  BY <1>1, <1>4, <1>5
  DEF IndInv, TypeOK, RunningIsAllocated, CallerInv, Streams
<1>. QED
  BY <1>6, <1>7, <1>8, <1>9 DEF IndInv

\* The steps that move the caller and leave the transfers alone.
LEMMA CallerStep ==
  ASSUME IndInv,
         \/ Unplug \/ StreamStarted \/ PollReturns
         \/ \E failed \in BOOLEAN : CheckDevice(failed)
         \/ Teardown \/ CancelAll
         \/ UNCHANGED vars
  PROVE  IndInv'
<1>1. /\ xfer' = xfer /\ deadXfers' = deadXfers /\ allocated' = allocated
      /\ pc' # "closed" \/ pc' = pc
  BY DEF Unplug, StreamStarted, PollReturns, CheckDevice, BeginStop, Teardown,
         CancelAll, isoVars, vars
<1>2. \A s \in Streams : InFlight(s)' = InFlight(s)
  BY <1>1 DEF InFlight
<1>3. NoCallbackAfterFree'
  BY <1>1, <1>2 DEF IndInv, NoCallbackAfterFree
<1>4. pc # "closed" \/ pc' = "closed"
  BY DEF Unplug, StreamStarted, PollReturns, CheckDevice, Teardown, CancelAll,
         vars
<1>5. DeadXfersExact'
  BY <1>1, <1>2, <1>4 DEF IndInv, DeadXfersExact
<1>6. TypeOK' /\ RunningIsAllocated' /\ CallerInv'
  <2>1. CASE Unplug
    BY <2>1 DEF IndInv, TypeOK, RunningIsAllocated, CallerInv, Unplug, isoVars
  <2>2. CASE StreamStarted
    BY <2>2
    DEF IndInv, TypeOK, RunningIsAllocated, CallerInv, StreamStarted, isoVars,
        Streams, Pcs
  <2>3. CASE PollReturns
    BY <2>3
    DEF IndInv, TypeOK, RunningIsAllocated, CallerInv, PollReturns, isoVars, Pcs
  <2>4. ASSUME NEW failed \in BOOLEAN, CheckDevice(failed)
        PROVE  TypeOK' /\ RunningIsAllocated' /\ CallerInv'
    BY <2>4
    DEF IndInv, TypeOK, RunningIsAllocated, CallerInv, CheckDevice, BeginStop,
        isoVars, Streams, Pcs
  <2>5. CASE Teardown
    BY <2>5
    DEF IndInv, TypeOK, RunningIsAllocated, CallerInv, Teardown, BeginStop,
        isoVars, Streams, Pcs
  <2>6. CASE CancelAll
    BY <2>6
    DEF IndInv, TypeOK, RunningIsAllocated, CallerInv, CancelAll, Streams, Pcs
  <2>7. CASE UNCHANGED vars
    BY <2>7 DEF IndInv, TypeOK, RunningIsAllocated, CallerInv, vars
  <2>. QED
    BY <2>1, <2>2, <2>3, <2>4, <2>5, <2>6, <2>7
<1>. QED
  BY <1>3, <1>5, <1>6 DEF IndInv

\* Closing the handle takes what is left out of flight.
LEMMA CloseStep == IndInv /\ CloseHandle => IndInv'
<1> SUFFICES ASSUME IndInv, CloseHandle PROVE IndInv'
  OBVIOUS
<1>1. \A s \in Streams : InFlight(s)' = {}
  BY DEF IndInv, TypeOK, CloseHandle, InFlight
<1>2. TypeOK'
  BY DEF IndInv, TypeOK, CloseHandle, XferStates, Pcs
<1>. QED
  BY <1>1, <1>2
  DEF IndInv, CloseHandle, NoCallbackAfterFree, DeadXfersExact,
      RunningIsAllocated, CallerInv

\* Every step preserves the invariant.
LEMMA NextIndInv == IndInv /\ [Next]_vars => IndInv'
  BY StartStep, CallbackStep, FreeStep, CallerStep, CloseStep DEF Next

-----------------------------------------------------------------------------
\* The inductive invariant holds in every reachable state.
THEOREM SpecIndInv == Spec => []IndInv
  BY InitIndInv, NextIndInv, PTL DEF Spec

\* Types, and dead_xfers never exceeds num_xfers.
THEOREM TypeCorrect == Spec => []TypeOK
<1>1. IndInv => TypeOK
  BY DEF IndInv
<1>. QED
  BY <1>1, SpecIndInv, PTL

\* No stream's memory is freed while one of its transfers is in flight.
THEOREM FreedIsQuiet == Spec => []NoCallbackAfterFree
<1>1. IndInv => NoCallbackAfterFree
  BY DEF IndInv
<1>. QED
  BY <1>1, SpecIndInv, PTL

\* dead_xfers and the transfers in flight always add up to num_xfers.
THEOREM ExactCount == Spec => []DeadXfersExact
<1>1. IndInv => DeadXfersExact
  BY DEF IndInv
<1>. QED
  BY <1>1, SpecIndInv, PTL

\* A running stream has its memory and is not being cancelled.
THEOREM RunningStreams == Spec => []RunningIsAllocated
<1>1. IndInv => RunningIsAllocated
  BY DEF IndInv
<1>. QED
  BY <1>1, SpecIndInv, PTL
=============================================================================
