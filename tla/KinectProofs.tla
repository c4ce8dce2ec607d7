---------------------------- MODULE KinectProofs ----------------------------
(***************************************************************************)
(* Theorems about the parts of MCKinect, for every value of the constants. *)
(* Each part has an inductive invariant in its own module; a lemma per     *)
(* action shows that it is kept, and PartSteps that the other parts leave  *)
(* it alone.  A conversion is one step, so its theorem is about what the   *)
(* operators of FrameConversion compute.                                   *)
(***************************************************************************)
EXTENDS MCKinect, FiniteSetTheorems, SequenceTheorems, WellFoundedInduction, TLAPS

\* A step of MCKinect is one of the part that was chosen, or changes nothing.
LEMMA PartSteps ==
  [Next]_all =>
    /\ part' = part
    /\ part = "devices" => Devices!Next \/ UNCHANGED devsVars
    /\ part = "commands" => Commands!Next \/ UNCHANGED cmdVars
    /\ part = "conversion" => Conversion!Next \/ UNCHANGED convVars
    /\ part = "preview" => Preview!Next \/ UNCHANGED viewVars
    /\ part = "app" => App!Next \/ UNCHANGED appVars
  BY DEF Next, all, ByDevices, ByCommands, ByConversion, ByPreview, ByApp

-----------------------------------------------------------------------------
(* The devices.                                                            *)

\* The handles that are known and open are those the devices know: the first part of
\* HandlesBalanced, without the list.
OpenIsHeld ==
  \A d \in Devices!Ids, t \in Devices!Subs : <<d, t, 0>> \in open <=> t \in handles[d]

LEMMA HeldHandles ==
  ASSUME Devices!TypeOK, Devices!ClosedInv
  PROVE  OpenIsHeld <=> open \ Devices!Leaked = Devices!Known
<1> DEFINE all3 == Devices!Ids \X Devices!Subs \X {0}
<1>1. open \ Devices!Leaked \subseteq all3 /\ Devices!Known \subseteq all3
  BY DEF Devices!TypeOK, Devices!Leaked, Devices!Known
<1>2. \A d \in Devices!Ids, t \in Devices!Subs : <<d, t, 0>> \in Devices!Known <=> t \in handles[d]
  BY DEF Devices!ClosedInv, Devices!Known
<1>3. \A d \in Devices!Ids, t \in Devices!Subs :
        <<d, t, 0>> \in open \ Devices!Leaked <=> <<d, t, 0>> \in open
  BY DEF Devices!Leaked
<1>4. ASSUME OpenIsHeld PROVE open \ Devices!Leaked = Devices!Known
  <2>1. \A d \in Devices!Ids, t \in Devices!Subs :
          <<d, t, 0>> \in open \ Devices!Leaked <=> <<d, t, 0>> \in Devices!Known
    BY <1>2, <1>3, <1>4 DEF OpenIsHeld
  <2> QED
    BY <1>1, <2>1
<1>5. ASSUME open \ Devices!Leaked = Devices!Known PROVE OpenIsHeld
  BY <1>2, <1>3, <1>5 DEF OpenIsHeld
<1> QED
  BY <1>4, <1>5

\* Removing the k-th member of a list without repetitions
LEMMA Removed ==
  ASSUME NEW S, NEW s \in Seq(S), NEW k \in 1..Len(s), Devices!IsInjective(s)
  PROVE  /\ Devices!RemoveAt(s, k) \in Seq(S)
         /\ Devices!IsInjective(Devices!RemoveAt(s, k))
         /\ Devices!Range(Devices!RemoveAt(s, k)) = Devices!Range(s) \ {s[k]}
<1> DEFINE t == Devices!RemoveAt(s, k)
<1>1. /\ SubSeq(s, 1, k - 1) \in Seq(S) /\ Len(SubSeq(s, 1, k - 1)) = k - 1
      /\ \A i \in 1..(k - 1) : SubSeq(s, 1, k - 1)[i] = s[i]
  OBVIOUS
<1>2. /\ SubSeq(s, k + 1, Len(s)) \in Seq(S)
      /\ Len(SubSeq(s, k + 1, Len(s))) = Len(s) - k
      /\ \A i \in 1..(Len(s) - k) : SubSeq(s, k + 1, Len(s))[i] = s[k + i]
  OBVIOUS
<1>3. t = SubSeq(s, 1, k - 1) \o SubSeq(s, k + 1, Len(s))
  BY DEF Devices!RemoveAt
<1>4. /\ t \in Seq(S) /\ Len(t) = Len(s) - 1
      /\ \A i \in 1..(Len(s) - 1) : t[i] = IF i < k THEN s[i] ELSE s[i + 1]
  <2> DEFINE a == SubSeq(s, 1, k - 1)
             b == SubSeq(s, k + 1, Len(s))
  <2> HIDE DEF t, a, b
  <2>1. /\ a \in Seq(S) /\ Len(a) = k - 1 /\ \A i \in 1..(k - 1) : a[i] = s[i]
        /\ b \in Seq(S) /\ Len(b) = Len(s) - k /\ \A i \in 1..(Len(s) - k) : b[i] = s[k + i]
        /\ t = a \o b
    BY <1>1, <1>2, <1>3 DEF a, b
  <2>2. /\ t \in Seq(S) /\ Len(t) = Len(a) + Len(b)
        /\ \A i \in 1..Len(t) : t[i] = IF i <= Len(a) THEN a[i] ELSE b[i - Len(a)]
    <3>1. a \in Seq(S) /\ b \in Seq(S) /\ t = a \o b
      BY <2>1
    <3> QED
      BY <3>1, ConcatProperties
  <2>3. Len(t) = Len(s) - 1
    BY <2>1, <2>2
  <2>4. ASSUME NEW i \in 1..(Len(s) - 1)
        PROVE  t[i] = IF i < k THEN s[i] ELSE s[i + 1]
    <3>1. CASE i < k
      BY <2>1, <2>2, <2>3, <3>1
    <3>2. CASE ~(i < k)
      <4>1. i - (k - 1) \in 1..(Len(s) - k) /\ k + (i - (k - 1)) = i + 1 /\ ~(i <= k - 1)
        BY <3>2
      <4>2. t[i] = b[i - (k - 1)]
        BY <2>1, <2>2, <2>3, <4>1
      <4> QED
        BY <2>1, <3>2, <4>1, <4>2
    <3> QED
      BY <3>1, <3>2
  <2> QED
    BY <2>2, <2>3, <2>4
<1> HIDE DEF t
<1>5. DOMAIN t = 1..(Len(s) - 1) /\ DOMAIN s = 1..Len(s)
  BY <1>4
<1>6. Devices!IsInjective(t)
  <2> SUFFICES ASSUME NEW i \in 1..(Len(s) - 1), NEW j \in 1..(Len(s) - 1), t[i] = t[j]
               PROVE  i = j
    BY <1>5 DEF Devices!IsInjective
  <2> DEFINE at(n) == IF n < k THEN n ELSE n + 1
  <2>1. at(i) \in 1..Len(s) /\ at(j) \in 1..Len(s) /\ (at(i) = at(j) => i = j)
    OBVIOUS
  <2>2. t[i] = s[at(i)] /\ t[j] = s[at(j)]
    BY <1>4
  <2> HIDE DEF at
  <2>3. at(i) = at(j)
    BY <1>5, <2>1, <2>2 DEF Devices!IsInjective
  <2> QED
    BY <2>1, <2>3
<1>7. ASSUME NEW i \in 1..Len(s), i # k PROVE s[i] \in Devices!Range(t)
  <2>1. CASE i < k
    BY <1>4, <1>5, <1>7, <2>1 DEF Devices!Range
  <2>2. CASE i > k
    <3>1. i - 1 \in 1..(Len(s) - 1) /\ ~(i - 1 < k) /\ (i - 1) + 1 = i
      BY <2>2
    <3> QED
      BY <1>4, <1>5, <3>1 DEF Devices!Range
  <2> QED
    BY <1>7, <2>1, <2>2
<1>8. ASSUME NEW i \in 1..(Len(s) - 1) PROVE t[i] \in Devices!Range(s) \ {s[k]}
  <2>1. PICK j \in 1..Len(s) : j # k /\ t[i] = s[j]
    <3>1. CASE i < k
      BY <1>4, <3>1
    <3>2. CASE ~(i < k)
      <4>1. i + 1 \in 1..Len(s) /\ i + 1 # k
        BY <3>2
      <4> QED
        BY <1>4, <3>2, <4>1
    <3> QED
      BY <3>1, <3>2
  <2> QED
    BY <1>5, <2>1 DEF Devices!Range, Devices!IsInjective
<1>9. Devices!Range(t) = Devices!Range(s) \ {s[k]}
  BY <1>5, <1>7, <1>8 DEF Devices!Range
<1> QED
  BY <1>4, <1>6, <1>9 DEF t

\* Appending a new member to a list without repetitions
LEMMA Appended ==
  ASSUME NEW S, NEW s \in Seq(S), NEW x \in S, Devices!IsInjective(s),
         x \notin Devices!Range(s)
  PROVE  /\ Append(s, x) \in Seq(S)
         /\ Devices!IsInjective(Append(s, x))
         /\ Devices!Range(Append(s, x)) = Devices!Range(s) \cup {x}
<1> DEFINE t == Append(s, x)
<1>1. /\ t \in Seq(S) /\ DOMAIN t = 1..(Len(s) + 1) /\ DOMAIN s = 1..Len(s) /\ Len(s) \in Nat
      /\ \A i \in 1..Len(s) : t[i] = s[i]
      /\ t[Len(s) + 1] = x
  OBVIOUS
<1> HIDE DEF t
<1>2. \A i \in DOMAIN t : i \in DOMAIN s \/ i = Len(s) + 1
  BY <1>1
<1>3. \A i \in DOMAIN s : i \in DOMAIN t /\ t[i] = s[i]
  BY <1>1
<1>4. Len(s) + 1 \in DOMAIN t
  BY <1>1
<1>5. Devices!IsInjective(t)
  BY <1>1, <1>2, <1>3 DEF Devices!IsInjective, Devices!Range
<1>6. Devices!Range(t) = Devices!Range(s) \cup {x}
  BY <1>1, <1>2, <1>3, <1>4 DEF Devices!Range
<1> QED
  BY <1>1, <1>5, <1>6 DEF t

\* The list of the context and the objects of the wrapper, the second and third part of
\* HandlesBalanced
ListOK ==
  /\ Devices!IsInjective(devices)
  /\ \A i \in Indices : m_devices[i] # Devices!None =>
       /\ m_devices[i] \in Devices!Range(devices)
       /\ \A j \in Indices \ {i} : m_devices[j] # m_devices[i]

\* The handles that were leaked
LeaksOK ==
  {h[3] : h \in Devices!Leaked} = 1..strays /\ \A h \in Devices!Leaked : h[2] = "audio"

\* What is left of HandlesBalanced
EndsOK ==
  /\ phase = "init" => enabled \subseteq handles[cur]
  /\ ~context => open = Devices!Leaked /\ devices = <<>>

DevicesInv == /\ Devices!TypeOK /\ Devices!OpeningInv /\ Devices!ClosedInv
              /\ OpenIsHeld /\ LeaksOK /\ ListOK /\ EndsOK

LEMMA DevicesParts == Devices!IndInv <=> DevicesInv /\ Devices!BareInv
  BY HeldHandles DEF Devices!IndInv, Devices!HandlesBalanced, Devices!BareInv, LeaksOK, ListOK,
     EndsOK, DevicesInv

\* Closing what the devices D know leaves the leaked handles open.
LEMMA LeftOpen ==
  ASSUME NEW D
  PROVE  /\ Devices!Left(D) \subseteq open
         /\ {h \in Devices!Left(D) : h[3] # 0} = Devices!Leaked
         /\ \A d, t : <<d, t, 0>> \in Devices!Left(D) <=> <<d, t, 0>> \in open /\ d \notin D
  BY DEF Devices!Left, Devices!Leaked

\* A handle that is closed or opened by its device is none of the leaked ones.
LEMMA LeaksStay ==
  ASSUME LeaksOK, strays' = strays, Devices!Leaked' = Devices!Leaked
  PROVE  LeaksOK'
  BY DEF LeaksOK

\* The steps of fnusb_open_subdevices: they concern the device being opened only, and
\* may add a handle to it.
SearchStep ==
  LET Searching == {"camera", "others", "reappear", "check"} IN
  /\ phase \in Searching /\ phase' \in Searching
  /\ UNCHANGED <<context, devices, m_devices, index, made, cur>>
  /\ enabled' \subseteq Devices!Subs /\ missing' \subseteq Devices!Subs
  /\ tries' \in 0..Retries /\ bare' = bare
  /\ \/ UNCHANGED <<handles, open, strays>>
     \/ strays' = strays /\ \E s \in Devices!Subs : Devices!Hold(s)
     \/ /\ handles' = handles /\ strays < MaxStrays /\ strays' = strays + 1
        /\ open' = open \cup {<<cur, "audio", strays + 1>>}

LEMMA SearchSteps ==
  ASSUME Devices!TypeOK,
         \/ Devices!CameraAbsent \/ Devices!CameraOpens
         \/ \E b \in BOOLEAN : Devices!CameraFails(b)
         \/ \E s \in Devices!Subs :
              Devices!OtherAbsent(s) \/ Devices!OtherOpens(s) \/ Devices!OtherFails(s)
         \/ Devices!BootloaderStays \/ Devices!FirmwareUploaded
         \/ Devices!Reappear \/ Devices!OtherSerial \/ Devices!Reappears \/ Devices!StaysAway
  PROVE  SearchStep
<1> USE DEF SearchStep, Devices!TypeOK, Devices!listVars
<1>1. CASE Devices!CameraAbsent
  BY <1>1 DEF Devices!CameraAbsent, Devices!Others
<1>2. CASE Devices!CameraOpens
  <2>1. enabled' \subseteq Devices!Subs
    BY <1>2 DEF Devices!CameraOpens, Devices!EnabledWith, Devices!Subs
  <2>2. "camera" \in Devices!Subs
    BY DEF Devices!Subs
  <2> QED
    BY <1>2, <2>1, <2>2 DEF Devices!CameraOpens, Devices!Others
<1>3. CASE \E b \in BOOLEAN : Devices!CameraFails(b)
  <2>1. enabled' \subseteq Devices!Subs
    BY <1>3 DEF Devices!CameraFails, Devices!EnabledWith, Devices!Subs
  <2> QED
    BY <1>3, <2>1 DEF Devices!CameraFails, Devices!NoOthers
<1>4. CASE \E s \in Devices!Subs :
              Devices!OtherAbsent(s) \/ Devices!OtherOpens(s) \/ Devices!OtherFails(s)
  BY <1>4 DEF Devices!OtherAbsent, Devices!OtherOpens, Devices!OtherFails, Devices!Others,
     Devices!NoOthers
<1>5. CASE Devices!BootloaderStays
  BY <1>5 DEF Devices!BootloaderStays, Devices!NoOthers
<1>6. CASE Devices!FirmwareUploaded
  BY <1>6, BoundsAssumption DEF Devices!FirmwareUploaded
<1>7. CASE Devices!Reappear
  BY <1>7, BoundsAssumption DEF Devices!Reappear
<1>8. CASE Devices!OtherSerial
  BY <1>8, BoundsAssumption DEF Devices!OtherSerial
<1>9. CASE Devices!Reappears
  <2>1. "audio" \in Devices!Subs
    BY DEF Devices!Subs
  <2> QED
    BY <1>9, <2>1 DEF Devices!Reappears, Devices!Others
<1>10. CASE Devices!StaysAway
  BY <1>10 DEF Devices!StaysAway, Devices!Others
<1> QED
  BY <1>1, <1>2, <1>3, <1>4, <1>5, <1>6, <1>7, <1>8, <1>9, <1>10

LEMMA SearchKeeps ==
  ASSUME DevicesInv, SearchStep
  PROVE  DevicesInv'
<1>a. /\ Devices!TypeOK /\ Devices!OpeningInv /\ Devices!ClosedInv
      /\ OpenIsHeld /\ LeaksOK /\ ListOK /\ EndsOK
  BY DEF DevicesInv
<1>b. cur \in Devices!Ids /\ context
  BY <1>a DEF Devices!TypeOK, Devices!OpeningInv, SearchStep
<1> DEFINE lost == <<cur, "audio", strays + 1>>
<1>c. strays \in 0..MaxStrays /\ MaxStrays \in Nat /\ "audio" \in Devices!Subs
  BY <1>a, BoundsAssumption DEF Devices!TypeOK, Devices!Subs
<1>d. ASSUME UNCHANGED <<handles, open, strays>>
      PROVE  Devices!TypeOK' /\ OpenIsHeld' /\ LeaksOK'
  <2>1. Devices!TypeOK'
    BY <1>a, <1>d DEF Devices!TypeOK, SearchStep
  <2>2. OpenIsHeld' /\ LeaksOK'
    BY <1>a, <1>d DEF OpenIsHeld, LeaksOK, Devices!Leaked
  <2> QED
    BY <2>1, <2>2
<1>e. ASSUME NEW s \in Devices!Subs, Devices!Hold(s), strays' = strays
      PROVE  Devices!TypeOK' /\ OpenIsHeld' /\ LeaksOK'
  <2>1. /\ open' = open \cup {<<cur, s, 0>>}
        /\ handles' = [handles EXCEPT ![cur] = @ \cup {s}]
    BY <1>e DEF Devices!Hold
  <2>2. Devices!TypeOK'
    <3>1. <<cur, s, 0>> \in Devices!Ids \X Devices!Subs \X (0..MaxStrays)
      BY <1>b, <1>c
    <3>2. handles' \in [Devices!Ids -> SUBSET Devices!Subs]
      BY <1>a, <1>b, <2>1 DEF Devices!TypeOK
    <3> QED
      BY <1>a, <1>e, <2>1, <3>1, <3>2 DEF Devices!TypeOK, SearchStep
  <2>3. OpenIsHeld'
    <3> SUFFICES ASSUME NEW d \in Devices!Ids, NEW t \in Devices!Subs
                 PROVE  <<d, t, 0>> \in open' <=> t \in handles'[d]
      BY DEF OpenIsHeld
    <3>1. handles'[d] = IF d = cur THEN handles[d] \cup {s} ELSE handles[d]
      BY <1>a, <1>b, <2>1 DEF Devices!TypeOK
    <3>2. <<d, t, 0>> \in open' <=> <<d, t, 0>> \in open \/ (d = cur /\ t = s)
      BY <2>1
    <3> QED
      BY <1>a, <3>1, <3>2 DEF OpenIsHeld
  <2>4. LeaksOK'
    <3>1. Devices!Leaked' = Devices!Leaked
      BY <2>1 DEF Devices!Leaked
    <3> QED
      BY <1>a, <1>e, <3>1, LeaksStay
  <2> QED
    BY <2>2, <2>3, <2>4
<1>f. ASSUME handles' = handles, strays < MaxStrays, strays' = strays + 1,
             open' = open \cup {lost}
      PROVE  Devices!TypeOK' /\ OpenIsHeld' /\ LeaksOK'
  <2>1. lost \in Devices!Ids \X Devices!Subs \X (0..MaxStrays) /\ strays + 1 # 0
        /\ strays + 1 \in 0..MaxStrays
    BY <1>b, <1>c, <1>f
  <2>2. Devices!TypeOK'
    BY <1>a, <1>f, <2>1 DEF Devices!TypeOK, SearchStep
  <2>3. OpenIsHeld'
    BY <1>a, <1>f, <2>1 DEF OpenIsHeld
  <2>4. Devices!Leaked' = Devices!Leaked \cup {lost}
    BY <1>f, <2>1 DEF Devices!Leaked
  <2>5. {h[3] : h \in Devices!Leaked'} = {h[3] : h \in Devices!Leaked} \cup {strays + 1}
    <3>1. lost[3] = strays + 1
      OBVIOUS
    <3> HIDE DEF lost
    <3> QED
      BY <2>4, <3>1
  <2>6. 1..(strays + 1) = (1..strays) \cup {strays + 1}
    BY <1>c
  <2>7. \A h \in Devices!Leaked' : h[2] = "audio"
    BY <1>a, <2>4 DEF LeaksOK
  <2>8. LeaksOK'
    BY <1>a, <1>f, <2>5, <2>6, <2>7 DEF LeaksOK
  <2> QED
    BY <2>2, <2>3, <2>8
<1>1. Devices!TypeOK' /\ OpenIsHeld' /\ LeaksOK'
  BY <1>d, <1>e, <1>f DEF SearchStep
<1>3. Devices!ClosedInv'
  BY <1>a, <1>b DEF Devices!ClosedInv, SearchStep, Devices!Hold, Devices!TypeOK
<1>4. Devices!OpeningInv'
  BY <1>a DEF Devices!OpeningInv, SearchStep
<1>5. ListOK'
  BY <1>a DEF ListOK, SearchStep
<1>6. EndsOK'
  BY <1>b DEF EndsOK, SearchStep
<1> QED
  BY <1>1, <1>3, <1>4, <1>5, <1>6 DEF DevicesInv

LEMMA DevicesInit == Devices!Init => DevicesInv /\ Devices!BareInv
<1> SUFFICES ASSUME Devices!Init PROVE DevicesInv /\ Devices!BareInv
  OBVIOUS
<1>1. Devices!Range(devices) = {} /\ Devices!IsInjective(devices) /\ devices \in Seq(Devices!Ids)
  BY DEF Devices!Init, Devices!Range, Devices!IsInjective
<1>2. Devices!TypeOK
  BY <1>1, BoundsAssumption DEF Devices!Init, Devices!TypeOK, Devices!Subs, Devices!None
<1>3. Devices!OpeningInv
  BY <1>1 DEF Devices!Init, Devices!OpeningInv
<1>4. OpenIsHeld /\ Devices!ClosedInv
  BY DEF Devices!Init, OpenIsHeld, Devices!ClosedInv
<1>5. ListOK /\ EndsOK
  BY <1>1 DEF Devices!Init, ListOK, EndsOK, Devices!Leaked
<1>6. LeaksOK
  <2>1. Devices!Leaked = {} /\ strays = 0
    BY DEF Devices!Init, Devices!Leaked
  <2> QED
    BY <2>1 DEF LeaksOK
<1>7. Devices!BareInv
  BY DEF Devices!Init, Devices!BareInv
<1> QED
  BY <1>2, <1>3, <1>4, <1>5, <1>6, <1>7 DEF DevicesInv

\* The index that freenect_open_device_by_camera_serial computes is one on the bus.
LEMMA SerialPlace ==
  ASSUME NEW i \in Indices, NEW skipped \in SUBSET Indices
  PROVE  i - Devices!Cardinality({j \in skipped : j < i}) \in Indices
<1> DEFINE lower == {j \in skipped : j < i}
<1>1. PICK n \in Nat : Indices = 0..(n - 1)
  BY IndicesAssumption, FS_CardinalityType
<1>2. lower \subseteq 0..(i - 1) /\ i \in 0..(n - 1)
  <2>1. i \in 0..(n - 1)
    BY <1>1
  <2>2. \A j \in lower : j \in 0..(n - 1) /\ j < i
    BY <1>1
  <2>3. \A j \in lower : j \in 0..(i - 1)
    BY <2>1, <2>2
  <2> QED
    BY <2>1, <2>3
<1>3. IsFiniteSet(0..(i - 1)) /\ Cardinality(0..(i - 1)) = i
  <2>1. i \in Nat
    BY <1>2
  <2>2. IsFiniteSet(0..(i - 1)) /\ Cardinality(0..(i - 1)) = IF 0 > i - 1 THEN 0 ELSE (i - 1) - 0 + 1
    BY <2>1, FS_Interval
  <2> QED
    BY <2>1, <2>2
<1>4. Cardinality(lower) <= i /\ Cardinality(lower) \in Nat
  <2> HIDE DEF lower
  <2> QED
    BY <1>2, <1>3, FS_Subset, FS_CardinalityType
<1>5. Devices!Cardinality(lower) = Cardinality(lower)
  BY DEF Devices!Cardinality, Cardinality, Devices!IsFiniteSet, IsFiniteSet
<1> HIDE DEF lower
<1>6. i - Cardinality(lower) \in 0..(n - 1)
  BY <1>2, <1>4
<1> QED
  BY <1>1, <1>5, <1>6 DEF lower

LEMMA DevicesStep ==
  ASSUME DevicesInv, Devices!Next
  PROVE  DevicesInv'
<1>a. /\ Devices!TypeOK /\ Devices!OpeningInv /\ Devices!ClosedInv
      /\ OpenIsHeld /\ LeaksOK /\ ListOK /\ EndsOK
  BY DEF DevicesInv
<1>b. devices \in Seq(Devices!Ids) /\ Devices!Range(devices) \subseteq Devices!Ids
  BY <1>a DEF Devices!TypeOK, Devices!Range
<1>c. Devices!None \notin Devices!Ids
  BY DEF Devices!None, Devices!Ids
<1>1. CASE Devices!FreenectInit
  <2>1. DevicesInv'
    BY <1>a, <1>1 DEF DevicesInv, Devices!FreenectInit, Devices!TypeOK, Devices!OpeningInv,
       Devices!ClosedInv, OpenIsHeld, LeaksOK, ListOK, EndsOK, Devices!Subs, Devices!Leaked
  <2> QED
    BY <2>1
<1>2. CASE Devices!Shutdown
  <2> USE <1>2 DEF Devices!Shutdown, Devices!Closed, Devices!AtShutdown
  <2>1. cur = Devices!None /\ cur' = cur /\ phase' = "idle"
    BY <1>a DEF Devices!OpeningInv
  <2>2. devices' = <<>> /\ Devices!Range(devices') = {} /\ Devices!IsInjective(devices')
        /\ devices' \in Seq(Devices!Ids)
    BY DEF Devices!Range, Devices!IsInjective
  <2>3. \A d \in Devices!Ids : handles'[d] = {}
    BY <1>a, <1>c, <2>1 DEF Devices!ClosedInv
  <2>4. open' = Devices!Leaked /\ Devices!Leaked' = Devices!Leaked /\ open' \subseteq open
    <3>1. ASSUME NEW d \in Devices!Ids, NEW t \in Devices!Subs, <<d, t, 0>> \in open
          PROVE  d \in Devices!Range(devices)
      BY <1>a, <1>c, <2>1, <3>1 DEF Devices!ClosedInv, OpenIsHeld
    <3>2. \A h \in open : h[3] = 0 => h[1] \in Devices!Range(devices)
      BY <1>a, <3>1 DEF Devices!TypeOK
    <3>3. open' = Devices!Leaked
      BY <3>2 DEF Devices!Left, Devices!Leaked
    <3> QED
      BY <3>3 DEF Devices!Leaked
  <2>5. Devices!TypeOK'
    BY <1>a, <2>1, <2>2, <2>4 DEF Devices!TypeOK
  <2>6. Devices!OpeningInv' /\ ListOK' /\ EndsOK'
    BY <2>1, <2>2, <2>4 DEF Devices!OpeningInv, ListOK, EndsOK
  <2>7. Devices!ClosedInv' /\ OpenIsHeld' /\ LeaksOK'
    <3>1. \A d, t : <<d, t, 0>> \notin open'
      BY <2>4 DEF Devices!Leaked
    <3> QED
      BY <1>a, <2>3, <2>4, <3>1, LeaksStay DEF Devices!ClosedInv, OpenIsHeld
  <2> QED
    BY <2>5, <2>6, <2>7 DEF DevicesInv
<1>3. CASE \E S \in SUBSET Devices!Subs : Devices!SelectSubdevices(S)
  BY <1>a, <1>3 DEF DevicesInv, Devices!SelectSubdevices, Devices!listVars, Devices!TypeOK,
     Devices!OpeningInv, Devices!ClosedInv, OpenIsHeld, LeaksOK, Devices!Leaked, ListOK, EndsOK
<1>4. ASSUME NEW i \in Indices, Devices!OpenDevice(i) PROVE DevicesInv'
  <2> USE <1>4 DEF Devices!OpenDevice
  <2>1. made + 1 \in Devices!Ids /\ made + 1 \in 0..MaxDevs /\ made \in Nat
    BY <1>a, BoundsAssumption DEF Devices!TypeOK, Devices!Ids
  <2>2. \A d \in Devices!Range(devices) : d \in Nat /\ d <= made /\ d <= made + 1
    BY <1>a, <1>b, <2>1 DEF Devices!OpeningInv, Devices!Ids
  <2>3. made + 1 \notin Devices!Range(devices)
    BY <2>1, <2>2
  <2>4. Devices!TypeOK'
    BY <1>a, <2>1 DEF Devices!TypeOK
  <2>5. Devices!OpeningInv'
    <3>1. cur' = made + 1 /\ made' = made + 1 /\ cur' <= made' /\ cur' # Devices!None
      BY <1>c, <2>1
    <3> QED
      BY <1>a, <2>2, <2>3, <3>1 DEF Devices!OpeningInv
  <2>6. Devices!ClosedInv'
    BY <1>a, <1>c DEF Devices!OpeningInv, Devices!ClosedInv
  <2>7. OpenIsHeld' /\ LeaksOK' /\ ListOK' /\ EndsOK'
    BY <1>a DEF OpenIsHeld, LeaksOK, Devices!Leaked, ListOK, EndsOK
  <2> QED
    BY <2>4, <2>5, <2>6, <2>7 DEF DevicesInv
<1>5. ASSUME NEW i \in Indices, Devices!CloseDevice(i) PROVE DevicesInv'
  <2> DEFINE dev == m_devices[i]
  <2>1. /\ context /\ phase = "idle" /\ dev # Devices!None
        /\ open' = Devices!Left({dev})
        /\ handles' = [d \in Devices!Ids |-> IF d \in {dev} THEN {} ELSE handles[d]]
        /\ devices' = Devices!Unlinked(dev)
        /\ m_devices' = [m_devices EXCEPT ![i] = Devices!None]
        /\ UNCHANGED <<context, enabled, strays, bare, phase, cur, index, missing, tries, made>>
    BY <1>5 DEF Devices!CloseDevice, Devices!Closed
  <2>2. dev \in Devices!Range(devices) /\ \A j \in Indices \ {i} : m_devices[j] # dev
    BY <1>a, <2>1 DEF ListOK
  <2> HIDE DEF dev
  <2>3. PICK k \in 1..Len(devices) : devices[k] = dev /\ devices' = Devices!RemoveAt(devices, k)
    <3>1. \E k \in DOMAIN devices : devices[k] = dev
      BY <2>2 DEF Devices!Range
    <3>2. Devices!Place(dev) \in DOMAIN devices /\ devices[Devices!Place(dev)] = dev
      BY <3>1 DEF Devices!Place
    <3>3. DOMAIN devices = 1..Len(devices)
      BY <1>b
    <3> QED
      BY <2>1, <2>2, <3>2, <3>3 DEF Devices!Unlinked
  <2>4. /\ devices' \in Seq(Devices!Ids) /\ Devices!IsInjective(devices')
        /\ Devices!Range(devices') = Devices!Range(devices) \ {dev}
    BY <1>a, <1>b, <2>3, Removed DEF ListOK
  <2>5. Devices!TypeOK'
    <3>1. m_devices' \in [Indices -> Devices!Ids \cup {Devices!None}]
      BY <1>a, <2>1 DEF Devices!TypeOK
    <3>2. handles' \in [Devices!Ids -> SUBSET Devices!Subs] /\ open' \subseteq open
      BY <1>a, <2>1, LeftOpen DEF Devices!TypeOK
    <3> QED
      BY <1>a, <2>1, <2>4, <3>1, <3>2 DEF Devices!TypeOK
  <2>6. Devices!OpeningInv'
    BY <1>a, <2>1, <2>4 DEF Devices!OpeningInv
  <2>7. Devices!ClosedInv'
    BY <1>a, <2>1, <2>4 DEF Devices!ClosedInv
  <2>8. OpenIsHeld' /\ LeaksOK'
    <3>a. LeaksOK'
      <4>1. Devices!Leaked' = Devices!Leaked
        BY <2>1, LeftOpen DEF Devices!Leaked
      <4> QED
        BY <1>a, <2>1, <4>1, LeaksStay
    <3> SUFFICES ASSUME NEW d \in Devices!Ids, NEW t \in Devices!Subs
                 PROVE  <<d, t, 0>> \in open' <=> t \in handles'[d]
      BY <3>a DEF OpenIsHeld
    <3>1. <<d, t, 0>> \in open' <=> <<d, t, 0>> \in open /\ d # dev
      BY <2>1, LeftOpen
    <3>2. handles'[d] = IF d = dev THEN {} ELSE handles[d]
      BY <2>1
    <3> QED
      BY <1>a, <3>1, <3>2 DEF OpenIsHeld
  <2>9. ListOK'
    <3>1. \A j \in Indices : m_devices'[j] = IF j = i THEN Devices!None ELSE m_devices[j]
      BY <1>a, <2>1 DEF Devices!TypeOK
    <3> QED
      BY <1>a, <2>2, <2>4, <3>1 DEF ListOK
  <2>10. EndsOK'
    BY <2>1 DEF EndsOK
  <2> QED
    BY <2>5, <2>6, <2>7, <2>8, <2>9, <2>10 DEF DevicesInv
<1>6. ASSUME NEW i \in Indices, NEW skipped \in SUBSET Indices, Devices!OpenBySerial(i, skipped)
      PROVE  DevicesInv'
  BY <1>4, <1>6, SerialPlace DEF Devices!OpenBySerial
<1>7. CASE Devices!Link
  <2> USE <1>7 DEF Devices!Link
  <2>1. cur \in Devices!Ids /\ cur # Devices!None /\ cur \notin Devices!Range(devices)
        /\ context /\ cur <= made
    BY <1>a DEF Devices!OpeningInv, Devices!TypeOK
  <2>2. /\ devices' \in Seq(Devices!Ids) /\ Devices!IsInjective(devices')
        /\ Devices!Range(devices') = Devices!Range(devices) \cup {cur}
    BY <1>a, <1>b, <2>1, Appended DEF ListOK
  <2>3. Devices!TypeOK'
    BY <1>a, <2>2 DEF Devices!TypeOK
  <2>4. Devices!OpeningInv'
    BY <1>a, <2>1, <2>2 DEF Devices!OpeningInv, ListOK
  <2>5. Devices!ClosedInv' /\ OpenIsHeld' /\ LeaksOK' /\ ListOK' /\ EndsOK'
    BY <1>a, <2>1, <2>2 DEF Devices!ClosedInv, OpenIsHeld, LeaksOK, Devices!Leaked, ListOK, EndsOK,
       Devices!AllOpen
  <2> QED
    BY <2>3, <2>4, <2>5 DEF DevicesInv
<1>8. CASE Devices!OpenFails
  <2> USE <1>8 DEF Devices!OpenFails, Devices!AfterFailure, Devices!listVars
  <2>1. cur \in Devices!Ids /\ cur \notin Devices!Range(devices) /\ context
    BY <1>a DEF Devices!OpeningInv, Devices!TypeOK
  <2>2. Devices!TypeOK'
    <3>1. handles' \in [Devices!Ids -> SUBSET Devices!Subs] /\ open' \subseteq open
      BY <1>a, LeftOpen DEF Devices!TypeOK
    <3> QED
      BY <1>a, <3>1 DEF Devices!TypeOK
  <2>3. OpenIsHeld' /\ LeaksOK'
    <3>a. LeaksOK'
      <4>1. Devices!Leaked' = Devices!Leaked
        BY LeftOpen DEF Devices!Leaked
      <4> QED
        BY <1>a, <4>1, LeaksStay
    <3> SUFFICES ASSUME NEW d \in Devices!Ids, NEW t \in Devices!Subs
                 PROVE  <<d, t, 0>> \in open' <=> t \in handles'[d]
      BY <3>a DEF OpenIsHeld
    <3>1. <<d, t, 0>> \in open' <=> <<d, t, 0>> \in open /\ d # cur
      BY LeftOpen
    <3>2. handles'[d] = IF d = cur THEN {} ELSE handles[d]
      BY <1>a DEF Devices!TypeOK
    <3> QED
      BY <1>a, <3>1, <3>2 DEF OpenIsHeld
  <2>4. Devices!ClosedInv'
    BY <1>a DEF Devices!ClosedInv, Devices!TypeOK
  <2>5. Devices!OpeningInv' /\ ListOK' /\ EndsOK'
    BY <1>a, <2>1 DEF Devices!OpeningInv, ListOK, EndsOK
  <2> QED
    BY <2>2, <2>3, <2>4, <2>5 DEF DevicesInv
<1>9. CASE Devices!Opened
  <2> USE <1>9 DEF Devices!Opened
  <2>1. cur \in Devices!Ids /\ cur \in Devices!Range(devices) /\ context /\ index \in Indices
        /\ \A i \in Indices : m_devices[i] # cur
    BY <1>a DEF Devices!OpeningInv, Devices!TypeOK
  <2>2. \A i \in Indices : m_devices'[i] = IF i = index THEN cur ELSE m_devices[i]
    BY <1>a DEF Devices!TypeOK
  <2>3. ListOK'
    BY <1>a, <2>1, <2>2 DEF ListOK
  <2>4. Devices!TypeOK'
    BY <1>a, <2>1 DEF Devices!TypeOK
  <2>5. Devices!OpeningInv' /\ EndsOK'
    BY <1>a, <2>1 DEF Devices!OpeningInv, EndsOK
  <2>6. Devices!ClosedInv' /\ OpenIsHeld' /\ LeaksOK'
    BY <1>a, <2>1 DEF Devices!ClosedInv, OpenIsHeld, LeaksOK, Devices!Leaked
  <2> QED
    BY <2>3, <2>4, <2>5, <2>6 DEF DevicesInv
<1>10. CASE Devices!CameraInitFails
  <2> USE <1>10 DEF Devices!CameraInitFails, Devices!listVars
  <2>1. cur \in Devices!Range(devices) /\ context
    BY <1>a DEF Devices!OpeningInv
  <2>2. Devices!TypeOK' /\ Devices!OpeningInv'
    BY <1>a, <2>1 DEF Devices!OpeningInv, Devices!TypeOK
  <2>3. Devices!ClosedInv' /\ OpenIsHeld' /\ LeaksOK' /\ ListOK' /\ EndsOK'
    BY <1>a, <2>1 DEF Devices!ClosedInv, OpenIsHeld, LeaksOK, Devices!Leaked, ListOK, EndsOK
  <2> QED
    BY <2>2, <2>3 DEF DevicesInv
<1> QED
  BY <1>a, <1>1, <1>2, <1>3, <1>4, <1>5, <1>6, <1>7, <1>8, <1>9, <1>10, SearchSteps, SearchKeeps
     DEF Devices!Next

\* Nobody who selects only the camera gets as far as the search for an audio device.
LEMMA BareStep ==
  ASSUME Devices!TypeOK, Devices!BareInv, Devices!Next
  PROVE  Devices!BareInv'
<1> USE DEF Devices!BareInv
<1>1. CASE Devices!FreenectInit \/ Devices!Shutdown
           \/ \E i \in Indices : Devices!OpenDevice(i) \/ Devices!CloseDevice(i)
           \/ \E k \in Indices, skipped \in SUBSET Indices : Devices!OpenBySerial(k, skipped)
  BY <1>1 DEF Devices!FreenectInit, Devices!Shutdown, Devices!OpenDevice, Devices!CloseDevice,
     Devices!OpenBySerial
<1>2. CASE \E S \in SUBSET Devices!Subs : Devices!SelectSubdevices(S)
  BY <1>2 DEF Devices!SelectSubdevices
<1>3. CASE Devices!CameraAbsent \/ Devices!CameraOpens
           \/ \E b \in BOOLEAN : Devices!CameraFails(b)
  BY <1>3 DEF Devices!CameraAbsent, Devices!CameraOpens, Devices!CameraFails, Devices!Others,
     Devices!NoOthers, Devices!EnabledWith, Devices!listVars
<1>4. CASE \E s \in Devices!Subs :
             Devices!OtherAbsent(s) \/ Devices!OtherOpens(s) \/ Devices!OtherFails(s)
  BY <1>4 DEF Devices!OtherAbsent, Devices!OtherOpens, Devices!OtherFails, Devices!Others,
     Devices!NoOthers, Devices!listVars
<1>5. CASE Devices!BootloaderStays \/ Devices!FirmwareUploaded \/ Devices!Reappear
           \/ Devices!OtherSerial \/ Devices!Reappears \/ Devices!StaysAway
  BY <1>5 DEF Devices!BootloaderStays, Devices!FirmwareUploaded, Devices!Reappear,
     Devices!OtherSerial, Devices!Reappears, Devices!StaysAway, Devices!NoOthers, Devices!listVars
<1>6. CASE Devices!Link \/ Devices!OpenFails \/ Devices!Opened \/ Devices!CameraInitFails
  BY <1>6 DEF Devices!Link, Devices!OpenFails, Devices!Opened, Devices!CameraInitFails,
     Devices!listVars
<1> QED
  BY <1>1, <1>2, <1>3, <1>4, <1>5, <1>6 DEF Devices!Next

\* Whatever fails while Kinects are opened, closed and shut down, and however many there
\* are, the libusb handles that are open are the ones of the devices that the context can
\* still close (usb_libusb10.c:617, core.c:64), and those that the search for an audio
\* device has leaked (usb_libusb10.c:590), which are never closed again; a caller that
\* selects only the camera leaks none, and nothing is open after freenect_shutdown then.
THEOREM DevicesSafe == Spec => []HandlesBalanced
<1> DEFINE I == part = "devices" => DevicesInv /\ Devices!BareInv
<1>1. Init => I
  BY DevicesInit DEF Init
<1>2. I /\ [Next]_all => I'
  <2> SUFFICES ASSUME I, [Next]_all, part' = "devices" PROVE DevicesInv' /\ Devices!BareInv'
    OBVIOUS
  <2>1. part = "devices"
    BY PartSteps
  <2>2. CASE Devices!Next
    BY <2>1, <2>2, DevicesStep, BareStep DEF DevicesInv
  <2>3. CASE UNCHANGED devsVars
    BY <2>1, <2>3 DEF DevicesInv, Devices!TypeOK, Devices!OpeningInv, Devices!ClosedInv,
       OpenIsHeld, LeaksOK, Devices!Leaked, ListOK, EndsOK, Devices!BareInv, devsVars
  <2> QED
    BY <2>1, <2>2, <2>3, PartSteps
<1>3. I => HandlesBalanced
  BY DevicesParts DEF HandlesBalanced, Devices!IndInv
<1> QED
  BY <1>1, <1>2, <1>3, PTL DEF Spec, Steps

-----------------------------------------------------------------------------
(* The commands.                                                           *)

\* What the first words of a call say of the rest
LEMMA CallShape ==
  ASSUME NEW c \in Commands!Calls
  PROVE  /\ c[1] \in {"none", "failed", "init", "mode", "near", "start", "stop", "flag"}
         /\ c[1] \in {"start", "stop"} => c[2] \in Commands!Streams
         /\ c[1] = "flag" => c[2] \in Flags /\ c[3] \in BOOLEAN
         /\ c = <<"none">> <=> c[1] = "none"
         /\ c = <<"init">> <=> c[1] = "init"
         /\ c = <<"stop", "depth">> <=> c[1] = "stop" /\ c[2] = "depth"
<1>1. CASE c \in {<<"none">>, <<"failed">>, <<"init">>, <<"mode">>, <<"near">>}
  BY <1>1
<1>2. CASE c \in {"start", "stop"} \X Commands!Streams
  BY <1>2
<1>3. CASE c \in {"flag"} \X Flags \X BOOLEAN
  BY <1>3
<1> QED
  BY <1>1, <1>2, <1>3 DEF Commands!Calls

LEMMA CommandShape ==
  ASSUME NEW c \in Commands!Commands
  PROVE  /\ c.op \in Commands!Ops /\ c.must \in BOOLEAN
         /\ c.op = "writeCmos" => c.arg \in SUBSET Flags
         /\ c.op = "near" => c.arg[1] \in 1..2 /\ c.arg[2] \in BOOLEAN
         /\ c.op \in {"start", "stop"} => c.arg \in Commands!Streams
  BY DEF Commands!Commands, Commands!Ops

\* The first member of a list and the rest
LEMMA FirstAndRest ==
  ASSUME NEW S, NEW s \in Seq(S), s # <<>>
  PROVE  /\ Head(s) = s[1] /\ s[1] \in S /\ Tail(s) \in Seq(S)
         /\ Len(Tail(s)) = Len(s) - 1 /\ Len(s) \in Nat \ {0}
         /\ \A k \in DOMAIN Tail(s) : k + 1 \in DOMAIN s /\ Tail(s)[k] = s[k + 1]
  BY HeadTailProperties, EmptySeq

\* A list of commands that call a may have to send: the last part of CallInv
ListFor(t, a) ==
  /\ t \in Seq(Commands!Commands)
  /\ \A k \in DOMAIN t :
       t[k].op \in {"readCmos", "writeCmos"} => Len(t) = 1 /\ a[1] = "flag"

LEMMA RestOfList ==
  ASSUME NEW t, NEW a, ListFor(t, a), t # <<>>
  PROVE  ListFor(Tail(t), a)
<1>1. t \in Seq(Commands!Commands)
  BY DEF ListFor
<1>2. /\ Tail(t) \in Seq(Commands!Commands) /\ Len(Tail(t)) = Len(t) - 1 /\ Len(t) \in Nat
      /\ \A k \in DOMAIN Tail(t) : k + 1 \in DOMAIN t /\ Tail(t)[k] = t[k + 1]
  BY <1>1, FirstAndRest
<1>3. ASSUME NEW k \in DOMAIN Tail(t) PROVE Len(t) # 1
  BY <1>2
<1> QED
  BY <1>2, <1>3 DEF ListFor

LEMMA EmptyList == \A a : ListFor(<<>>, a)
  BY DEF ListFor

\* The lists the calls begin with
LEMMA CommandMembers ==
  /\ \A w \in Commands!Parameters, m \in BOOLEAN :
       Commands!Info(w, m) \in Commands!Commands /\ Commands!Info(w, m).op = "info"
  /\ Commands!Fixed \in Commands!Commands /\ Commands!Fixed.op = "setup"
  /\ \A s \in Commands!Streams, m \in BOOLEAN :
       /\ Commands!Cmd("start", s, m) \in Commands!Commands
       /\ Commands!Cmd("stop", s, m) \in Commands!Commands
       /\ Commands!Cmd("start", s, m).op = "start" /\ Commands!Cmd("stop", s, m).op = "stop"
  /\ \A x \in {1, 2} \X BOOLEAN, m \in BOOLEAN :
       Commands!Cmd("near", x, m) \in Commands!Commands /\ Commands!Cmd("near", x, m).op = "near"
  /\ \A m \in BOOLEAN :
       /\ Commands!Cmd("readCmos", {}, m) \in Commands!Commands
       /\ Commands!Cmd("readCmos", {}, m).op = "readCmos"
  /\ \A F \in SUBSET Flags, m \in BOOLEAN :
       /\ Commands!Cmd("writeCmos", F, m) \in Commands!Commands
       /\ Commands!Cmd("writeCmos", F, m).op = "writeCmos"
       /\ Commands!Cmd("writeCmos", F, m).arg = F
  BY DEF Commands!Info, Commands!Fixed, Commands!Cmd, Commands!Commands, Commands!Streams

\* A list without commands about the register of the flags
Plain(t) ==
  /\ t \in Seq(Commands!Commands)
  /\ \A k \in DOMAIN t : t[k].op \notin {"readCmos", "writeCmos"}

LEMMA PlainLists ==
  ASSUME NEW C, C = {c \in Commands!Commands : c.op \notin {"readCmos", "writeCmos"}}
  PROVE  /\ \A t \in Seq(C) : Plain(t)
         /\ \A t, a : Plain(t) => ListFor(t, a)
<1>1. ASSUME NEW t \in Seq(C) PROVE Plain(t)
  BY DEF Plain
<1> QED
  BY <1>1 DEF Plain, ListFor

LEMMA CallLists ==
  ASSUME NEW a
  PROVE  /\ ListFor(<<Commands!Info("pad", TRUE), Commands!Info("zeroPlane", TRUE),
                      Commands!Info("registration", FALSE), Commands!Info("shift", TRUE)>>, a)
         /\ ListFor(<<Commands!Info("registration", FALSE)>>, a)
         /\ ListFor(<<Commands!Fixed, Commands!Cmd("start", "depth", FALSE), Commands!Fixed>>, a)
         /\ ListFor((IF mode["video"] = "irHigh"
                      THEN <<Commands!Fixed, Commands!Cmd("start", "depth", FALSE),
                             Commands!Cmd("stop", "depth", FALSE)>>
                      ELSE <<>>) \o <<Commands!Fixed, Commands!Cmd("start", "video", FALSE)>>, a)
         /\ \A s \in Commands!Streams : ListFor(<<Commands!Cmd("stop", s, FALSE)>>, a)
         /\ \A on \in BOOLEAN : ListFor(<<Commands!Cmd("near", <<1, on>>, TRUE),
                                         Commands!Cmd("near", <<2, on>>, TRUE)>>, a)
<1> DEFINE C == {c \in Commands!Commands : c.op \notin {"readCmos", "writeCmos"}}
           start(s) == Commands!Cmd("start", s, FALSE)
           stop(s) == Commands!Cmd("stop", s, FALSE)
           near1(k, on) == Commands!Cmd("near", <<k, on>>, TRUE)
<1>1. /\ \A w \in Commands!Parameters, m \in BOOLEAN : Commands!Info(w, m) \in C
      /\ Commands!Fixed \in C
      /\ \A s \in Commands!Streams : start(s) \in C /\ stop(s) \in C
      /\ \A k \in {1, 2}, on \in BOOLEAN : near1(k, on) \in C
  BY CommandMembers
<1>2. \A t \in Seq(C) : ListFor(t, a)
  BY PlainLists
<1>3. "depth" \in Commands!Streams /\ "video" \in Commands!Streams
      /\ {"pad", "zeroPlane", "registration", "shift"} \subseteq Commands!Parameters
  BY DEF Commands!Streams, Commands!Parameters
<1> HIDE DEF C, start, stop, near1
<1>4. /\ <<Commands!Info("pad", TRUE), Commands!Info("zeroPlane", TRUE),
           Commands!Info("registration", FALSE), Commands!Info("shift", TRUE)>> \in Seq(C)
      /\ <<Commands!Info("registration", FALSE)>> \in Seq(C)
      /\ <<Commands!Fixed, start("depth"), Commands!Fixed>> \in Seq(C)
  <2>1. \A c, d, e, f \in C : <<c, d, e, f>> \in Seq(C)
    OBVIOUS
  <2>2. \A c, d, e \in C : <<c>> \in Seq(C) /\ <<c, d, e>> \in Seq(C)
    OBVIOUS
  <2>3. /\ Commands!Info("pad", TRUE) \in C /\ Commands!Info("zeroPlane", TRUE) \in C
        /\ Commands!Info("registration", FALSE) \in C /\ Commands!Info("shift", TRUE) \in C
    BY <1>1, <1>3
  <2> QED
    BY <1>1, <1>3, <2>1, <2>2, <2>3
<1>5. (IF mode["video"] = "irHigh" THEN <<Commands!Fixed, start("depth"), stop("depth")>>
         ELSE <<>>) \o <<Commands!Fixed, start("video")>> \in Seq(C)
  <2>1. <<Commands!Fixed, start("depth"), stop("depth")>> \in Seq(C) /\ <<>> \in Seq(C)
        /\ <<Commands!Fixed, start("video")>> \in Seq(C)
    BY <1>1, <1>3
  <2> QED
    BY <2>1, ConcatProperties
<1>6. /\ \A s \in Commands!Streams : <<stop(s)>> \in Seq(C)
      /\ \A on \in BOOLEAN : <<near1(1, on), near1(2, on)>> \in Seq(C)
  BY <1>1
<1> QED
  BY <1>2, <1>4, <1>5, <1>6 DEF start, stop, near1

LEMMA FlagLists ==
  ASSUME NEW a, a[1] = "flag"
  PROVE  /\ ListFor(<<Commands!Cmd("readCmos", {}, TRUE)>>, a)
         /\ \A F \in SUBSET Flags : ListFor(<<Commands!Cmd("writeCmos", F, TRUE)>>, a)
<1>1. ASSUME NEW c \in Commands!Commands PROVE ListFor(<<c>>, a)
  BY <1>1 DEF ListFor
<1> QED
  BY <1>1, CommandMembers

\* What every call does before its first command
LEMMA CallBegins ==
  ASSUME Commands!TypeOK, Commands!CallInv, NEW name \in Commands!Calls, NEW cmds,
         Commands!Call(name, cmds), name # <<"none">>, ListFor(cmds, name),
         UNCHANGED <<tag, answers, cmos, near, streaming, waiting, ready, faults>>,
         started' \in [Commands!Streams -> DepthModes \cup VideoModes \cup {"none"}],
         \A s \in Commands!Streams : mode'[s] \in Commands!ModesOf[s] \cup {"none"},
         mode' \in [Commands!Streams -> DepthModes \cup VideoModes \cup {"none"}],
         running' \in [Commands!Streams -> BOOLEAN], tables' \in BOOLEAN
  PROVE  Commands!TypeOK' /\ Commands!CallInv'
<1>1. calls' \in 0..MaxCalls
  BY CommandsAssumption DEF Commands!Call, Commands!TypeOK
<1>2. todo = <<>> /\ ~waiting /\ api' = name /\ todo' = cmds
  BY DEF Commands!Call, Commands!Idle, Commands!CallInv
<1>3. before' \subseteq Flags /\ unread' \in BOOLEAN
  BY DEF Commands!Call, Commands!TypeOK
<1>4. Commands!TypeOK'
  BY <1>1, <1>3 DEF Commands!TypeOK
<1>5. Commands!CallInv'
  BY <1>2 DEF Commands!CallInv, ListFor, Commands!Idle
<1> QED
  BY <1>4, <1>5

\* A command was passed over or was the last that could be sent.
LEMMA CommandFails ==
  ASSUME Commands!CallInv, todo # <<>>, Commands!Failed,
         api' = IF Commands!CallFails THEN <<"failed">> ELSE api
  PROVE  api' \in Commands!Calls /\ ListFor(todo', api') /\ (api' = <<"none">> => todo' = <<>>)
<1>1. ListFor(todo, api) /\ api \in Commands!Calls /\ api # <<"none">>
  BY DEF Commands!CallInv, ListFor, Commands!Idle
<1>2. CASE Head(todo).must
  <2>1. todo' = <<>> /\ api' = <<"failed">>
    BY <1>2 DEF Commands!Failed, Commands!CallFails
  <2> QED
    BY <2>1, EmptyList DEF Commands!Calls
<1>3. CASE ~Head(todo).must
  <2>1. todo' = Tail(todo) /\ api' = api
    BY <1>3 DEF Commands!Failed, Commands!CallFails
  <2> QED
    BY <1>1, <2>1, RestOfList
<1> QED
  BY <1>2, <1>3

\* The next command after one that was answered with val
LEMMA CommandContinues ==
  ASSUME Commands!CallInv, todo # <<>>, NEW val \in SUBSET Flags, Commands!Continue(val)
  PROVE  ListFor(todo', api) /\ api # <<"none">>
<1>1. ListFor(todo, api) /\ api \in Commands!Calls /\ api # <<"none">>
  BY DEF Commands!CallInv, ListFor, Commands!Idle
<1>2. Head(todo) = todo[1] /\ 1 \in DOMAIN todo
  BY <1>1, FirstAndRest DEF ListFor
<1>3. CASE todo[1].op = "readCmos"
  <2>1. api[1] = "flag"
    BY <1>1, <1>2, <1>3 DEF ListFor
  <2>2. Commands!Modified(api[2], api[3], val) \in SUBSET Flags
    BY <1>1, <2>1, CallShape DEF Commands!Modified
  <2>3. todo' = <<Commands!Cmd("writeCmos", Commands!Modified(api[2], api[3], val), TRUE)>>
    BY <1>2, <1>3 DEF Commands!Continue
  <2> QED
    BY <1>1, <2>1, <2>2, <2>3, FlagLists
<1>4. CASE todo[1].op # "readCmos"
  BY <1>1, <1>2, <1>4, RestOfList DEF Commands!Continue
<1> QED
  BY <1>3, <1>4

LEMMA CommandsTypes ==
  ASSUME Commands!TypeOK, Commands!CallInv, Commands!Next
  PROVE  Commands!TypeOK' /\ Commands!CallInv'
<1> DEFINE AllModes == DepthModes \cup VideoModes \cup {"none"}
<1>a. /\ started \in [Commands!Streams -> AllModes] /\ mode \in [Commands!Streams -> AllModes]
      /\ \A s \in Commands!Streams : mode[s] \in Commands!ModesOf[s] \cup {"none"}
      /\ running \in [Commands!Streams -> BOOLEAN] /\ tables \in BOOLEAN
  BY DEF Commands!TypeOK, Commands!CallInv
<1>b. "depth" \in Commands!Streams /\ "video" \in Commands!Streams
  BY DEF Commands!Streams
<1>c. todo \in Seq(Commands!Commands) /\ answers \in Seq(Commands!Answers)
      /\ api \in Commands!Calls /\ ListFor(todo, api) /\ (waiting => todo # <<>> /\ answers # <<>>)
      /\ (api = <<"none">> => todo = <<>>)
  BY DEF Commands!CallInv, ListFor, Commands!Idle
<1>d. \A s \in Commands!Streams : Commands!ModesOf[s] \subseteq AllModes
  BY DEF Commands!Streams, Commands!ModesOf
<1>1. CASE Commands!CameraInit
  <2>1. <<"init">> \in Commands!Calls /\ <<"init">> # <<"none">>
    BY DEF Commands!Calls
  <2> QED
    BY <1>1, <1>a, <2>1, CallLists, CallBegins DEF Commands!CameraInit, Commands!cameraVars,
       Commands!streamVars
<1>2. CASE Commands!StartDepth
  <2>1. <<"start", "depth">> \in Commands!Calls /\ <<"start", "depth">> # <<"none">>
    BY DEF Commands!Calls, Commands!Streams
  <2>2. started' \in [Commands!Streams -> AllModes]
    BY <1>2, <1>a, <1>b DEF Commands!StartDepth
  <2> QED
    BY <1>2, <1>a, <2>1, <2>2, CallLists, CallBegins DEF Commands!StartDepth, Commands!cameraVars
<1>3. CASE Commands!StartVideo
  <2>1. <<"start", "video">> \in Commands!Calls /\ <<"start", "video">> # <<"none">>
    BY DEF Commands!Calls, Commands!Streams
  <2>2. started' \in [Commands!Streams -> AllModes]
    BY <1>3, <1>a, <1>b DEF Commands!StartVideo
  <2> QED
    BY <1>3, <1>a, <2>1, <2>2, CallLists, CallBegins DEF Commands!StartVideo, Commands!cameraVars
<1>4. ASSUME NEW s \in Commands!Streams, Commands!Stop(s)
      PROVE  Commands!TypeOK' /\ Commands!CallInv'
  <2>1. <<"stop", s>> \in Commands!Calls /\ <<"stop", s>> # <<"none">>
    BY DEF Commands!Calls
  <2>2. running' \in [Commands!Streams -> BOOLEAN]
    BY <1>4, <1>a DEF Commands!Stop
  <2> QED
    BY <1>4, <1>a, <2>1, <2>2, CallLists, CallBegins DEF Commands!Stop, Commands!cameraVars
<1>5. ASSUME NEW s \in Commands!Streams, NEW m \in Commands!ModesOf[s], Commands!SetMode(s, m)
      PROVE  Commands!TypeOK' /\ Commands!CallInv'
  <2>1. <<"mode">> \in Commands!Calls /\ <<"mode">> # <<"none">>
    BY DEF Commands!Calls
  <2>2. mode' = [mode EXCEPT ![s] = m] /\ m \in AllModes
    BY <1>5, <1>d DEF Commands!SetMode
  <2>3. /\ mode' \in [Commands!Streams -> AllModes]
        /\ \A r \in Commands!Streams : mode'[r] \in Commands!ModesOf[r] \cup {"none"}
    BY <1>a, <2>2
  <2>4. ListFor(IF s = "video" THEN <<Commands!Info("registration", FALSE)>> ELSE <<>>,
                <<"mode">>)
    BY CallLists, EmptyList
  <2> QED
    BY <1>5, <1>a, <2>1, <2>3, <2>4, CallBegins DEF Commands!SetMode, Commands!cameraVars
<1>6. ASSUME NEW on \in BOOLEAN, Commands!SetNearMode(on)
      PROVE  Commands!TypeOK' /\ Commands!CallInv'
  <2>1. <<"near">> \in Commands!Calls /\ <<"near">> # <<"none">>
    BY DEF Commands!Calls
  <2> QED
    BY <1>6, <1>a, <2>1, CallLists, CallBegins DEF Commands!SetNearMode, Commands!cameraVars,
       Commands!streamVars
<1>7. ASSUME NEW on \in BOOLEAN, NEW f \in Flags, Commands!SetFlag(f, on)
      PROVE  Commands!TypeOK' /\ Commands!CallInv'
  <2>1. <<"flag", f, on>> \in Commands!Calls /\ <<"flag", f, on>> # <<"none">>
        /\ <<"flag", f, on>>[1] = "flag"
    BY DEF Commands!Calls
  <2> QED
    BY <1>7, <1>a, <2>1, FlagLists, CallBegins DEF Commands!SetFlag, Commands!cameraVars,
       Commands!streamVars
<1>8. CASE Commands!Write
  <2> DEFINE c == Head(todo)
  <2>1. c \in Commands!Commands /\ todo # <<>>
    BY <1>8, <1>c, FirstAndRest DEF Commands!Write
  <2>2. cmos' \in SUBSET Flags
    BY <1>8, <2>1, CommandShape DEF Commands!Write, Commands!Effect, Commands!TypeOK
  <2>3. near' \in [1..2 -> BOOLEAN]
    <3>1. near \in [1..2 -> BOOLEAN]
      BY DEF Commands!TypeOK
    <3>2. CASE c.op = "near"
      <4>1. near' = [near EXCEPT ![c.arg[1]] = c.arg[2]]
        BY <1>8, <3>2 DEF Commands!Write, Commands!Effect
      <4>2. c.arg[1] \in 1..2 /\ c.arg[2] \in BOOLEAN
        BY <2>1, <3>2, CommandShape
      <4> HIDE DEF c
      <4> QED
        BY <3>1, <4>1, <4>2
    <3>3. CASE c.op # "near"
      BY <1>8, <3>1, <3>3 DEF Commands!Write, Commands!Effect
    <3> QED
      BY <3>2, <3>3
  <2>4. streaming' \subseteq Commands!Streams
    <3>1. streaming \subseteq Commands!Streams
      BY DEF Commands!TypeOK
    <3>2. streaming' = CASE c.op = "start" -> streaming \cup {c.arg}
                         [] c.op = "stop" -> streaming \ {c.arg}
                         [] OTHER -> streaming
      BY <1>8 DEF Commands!Write, Commands!Effect
    <3>3. c.op = "start" => c.arg \in Commands!Streams
      BY <2>1, CommandShape
    <3> HIDE DEF c
    <3> QED
      BY <3>1, <3>2, <3>3
  <2>5. answers' \in Seq(Commands!Answers) /\ answers' # <<>>
    <3> DEFINE a == [tag |-> tag, to |-> c, val |-> cmos']
    <3>1. c \in Commands!Commands /\ tag \in 0..(TagModulus - 1)
      BY <2>1 DEF Commands!TypeOK
    <3>2. a \in Commands!Answers
      BY <2>2, <3>1 DEF Commands!Answers
    <3>3. answers' = Append(answers, a)
      BY <1>8 DEF Commands!Write
    <3> HIDE DEF a
    <3> QED
      BY <1>c, <3>2, <3>3
  <2>6. Commands!TypeOK'
    BY <1>8, <2>2, <2>3, <2>4 DEF Commands!Write, Commands!TypeOK, Commands!streamVars
  <2>7. Commands!CallInv'
    BY <1>8, <2>1, <2>5 DEF Commands!Write, Commands!CallInv, Commands!streamVars, Commands!Idle
  <2> QED
    BY <2>6, <2>7
<1>9. CASE Commands!WriteFails
  <2>1. todo # <<>> /\ ~waiting /\ waiting' = waiting
    BY <1>9 DEF Commands!WriteFails
  <2>2. api' \in Commands!Calls /\ ListFor(todo', api') /\ (api' = <<"none">> => todo' = <<>>)
    BY <1>9, CommandFails DEF Commands!WriteFails
  <2>3. faults' \in 0..MaxFaults
    BY <1>9, CommandsAssumption DEF Commands!WriteFails, Commands!TypeOK
  <2>4. Commands!TypeOK'
    BY <1>9, <2>3 DEF Commands!WriteFails, Commands!TypeOK, Commands!cameraVars,
       Commands!streamVars
  <2>5. Commands!CallInv'
    BY <1>9, <2>1, <2>2 DEF Commands!WriteFails, Commands!CallInv, Commands!Idle, ListFor,
       Commands!streamVars
  <2> QED
    BY <2>4, <2>5
<1>10. ASSUME NEW any \in SUBSET Flags, Commands!Answered(any)
       PROVE  Commands!TypeOK' /\ Commands!CallInv'
  <2> DEFINE a == Head(answers)
             val == IF a.to.op = "readCmos" THEN a.val ELSE any
  <2>1. a \in Commands!Answers /\ Tail(answers) \in Seq(Commands!Answers) /\ todo # <<>>
        /\ answers' = Tail(answers) /\ waiting' = FALSE
    BY <1>10, <1>c, FirstAndRest DEF Commands!Answered
  <2>2. val \in SUBSET Flags
    BY <2>1 DEF Commands!Answers
  <2>3. api' \in Commands!Calls /\ ListFor(todo', api') /\ (api' = <<"none">> => todo' = <<>>)
    <3>1. CASE Commands!LengthFits(a)
      <4>1. Commands!Continue(val) /\ api' = api
        BY <1>10, <3>1 DEF Commands!Answered
      <4> QED
        BY <1>c, <2>1, <2>2, <4>1, CommandContinues
    <3>2. CASE ~Commands!LengthFits(a)
      <4>1. Commands!Failed /\ api' = IF Commands!CallFails THEN <<"failed">> ELSE api
        BY <1>10, <3>2 DEF Commands!Answered
      <4> QED
        BY <2>1, <4>1, CommandFails
    <3> QED
      BY <3>1, <3>2
  <2>4. tag' \in 0..(TagModulus - 1)
    <3>1. tag \in Nat /\ tag' = (tag + 1) % TagModulus
      BY <1>10, CommandsAssumption DEF Commands!Answered, Commands!TypeOK
    <3> QED
      BY <3>1, CommandsAssumption
  <2>5. Commands!TypeOK'
    BY <1>10, <2>4 DEF Commands!Answered, Commands!TypeOK, Commands!cameraVars,
       Commands!streamVars
  <2>6. Commands!CallInv'
    BY <1>10, <2>1, <2>3 DEF Commands!Answered, Commands!CallInv, Commands!Idle, ListFor,
       Commands!streamVars
  <2> QED
    BY <2>5, <2>6
<1>11. CASE Commands!Mismatch \/ Commands!Damaged
  <2>a. Commands!Refused /\ faults' \in 0..MaxFaults
    BY <1>11, CommandsAssumption DEF Commands!Mismatch, Commands!Damaged, Commands!TypeOK
  <2>1. todo # <<>> /\ Tail(answers) \in Seq(Commands!Answers)
    BY <2>a, <1>c, FirstAndRest DEF Commands!Refused
  <2>2. api' \in Commands!Calls /\ ListFor(todo', api') /\ (api' = <<"none">> => todo' = <<>>)
    BY <2>a, <2>1, CommandFails DEF Commands!Refused
  <2>3. Commands!TypeOK'
    BY <2>a DEF Commands!Refused, Commands!TypeOK, Commands!cameraVars, Commands!streamVars
  <2>4. Commands!CallInv'
    BY <2>a, <2>1, <2>2 DEF Commands!Refused, Commands!CallInv, Commands!Idle, ListFor,
       Commands!streamVars
  <2> QED
    BY <2>3, <2>4
<1>12. ASSUME NEW drop \in BOOLEAN, NEW g \in SUBSET Flags, Commands!Unread(drop, g)
       PROVE  Commands!TypeOK' /\ Commands!CallInv'
  <2>1. todo # <<>> /\ answers' \in Seq(Commands!Answers) /\ waiting' = FALSE
    BY <1>12, <1>c, FirstAndRest DEF Commands!Unread
  <2>2. api' \in Commands!Calls /\ ListFor(todo', api') /\ (api' = <<"none">> => todo' = <<>>)
    <3>1. CASE Head(todo).op = "info"
      BY <1>12, <2>1, <3>1, CommandFails DEF Commands!Unread
    <3>2. CASE Head(todo).op # "info"
      BY <1>12, <1>c, <2>1, <3>2, CommandContinues DEF Commands!Unread
    <3> QED
      BY <3>1, <3>2
  <2>3. faults' \in 0..MaxFaults
    BY <1>12, CommandsAssumption DEF Commands!Unread, Commands!TypeOK
  <2>4. Commands!TypeOK'
    BY <1>12, <2>3 DEF Commands!Unread, Commands!TypeOK, Commands!cameraVars,
       Commands!streamVars
  <2>5. Commands!CallInv'
    BY <1>12, <2>1, <2>2 DEF Commands!Unread, Commands!CallInv, Commands!Idle, ListFor,
       Commands!streamVars
  <2> QED
    BY <2>4, <2>5
<1>13. CASE Commands!Return
  <2>1. todo = <<>> /\ todo' = <<>> /\ ~waiting /\ waiting' = FALSE /\ api' = <<"none">>
    BY <1>13 DEF Commands!Return, Commands!TypeOK
  <2>2. running' \in [Commands!Streams -> BOOLEAN]
    BY <1>13, <1>a DEF Commands!Return
  <2>3. started' \in [Commands!Streams -> AllModes]
    BY <1>13, <1>a DEF Commands!Return
  <2>4. /\ mode' \in [Commands!Streams -> AllModes]
        /\ \A s \in Commands!Streams : mode'[s] \in Commands!ModesOf[s] \cup {"none"}
    <3> DEFINE fresh == [depth |-> "11bit", video |-> "rgb"]
    <3>1. /\ fresh \in [Commands!Streams -> AllModes]
          /\ \A s \in Commands!Streams : fresh[s] \in Commands!ModesOf[s] \cup {"none"}
      BY CommandsAssumption DEF Commands!Streams, Commands!ModesOf
    <3>2. mode' = fresh \/ mode' = mode
      BY <1>13 DEF Commands!Return
    <3> HIDE DEF fresh
    <3> QED
      BY <1>a, <3>1, <3>2
  <2>5. tables' \in BOOLEAN /\ ready' \in BOOLEAN
    BY <1>13 DEF Commands!Return
  <2>6. Commands!TypeOK'
    BY <1>13, <2>1, <2>2, <2>3, <2>4, <2>5 DEF Commands!Return, Commands!TypeOK,
       Commands!cameraVars
  <2>7. Commands!CallInv'
    <3>1. <<"none">> \in Commands!Calls
      BY DEF Commands!Calls
    <3> QED
      BY <1>13, <1>c, <2>1, <2>4, <3>1, EmptyList DEF Commands!Return, Commands!CallInv, ListFor,
         Commands!Idle
  <2> QED
    BY <2>6, <2>7
<1> QED
  BY <1>1, <1>2, <1>3, <1>4, <1>5, <1>6, <1>7, <1>8, <1>9, <1>10, <1>11, <1>12, <1>13
     DEF Commands!Next

\* mode and started are functions on the streams.
DomainFunctions == [Commands!Streams -> DepthModes \cup VideoModes \cup {"none"}]

LEMMA StreamsKept ==
  ASSUME Commands!TypeOK, Commands!CallInv, Commands!StreamsFitMode, Commands!StreamInv,
         Commands!Next
  PROVE  Commands!StreamsFitMode' /\ Commands!StreamInv'
<1> USE DEF Commands!StreamsFitMode, Commands!StreamInv
<1>a. /\ running \in [Commands!Streams -> BOOLEAN] /\ mode \in DomainFunctions
      /\ started \in DomainFunctions
  BY DEF Commands!TypeOK, Commands!CallInv, DomainFunctions
<1>b. "depth" \in Commands!Streams /\ "video" \in Commands!Streams
  BY DEF Commands!Streams
<1>c. api \in Commands!Calls
  BY DEF Commands!CallInv
<1>d. \A s \in Commands!Streams : "none" \notin Commands!ModesOf[s]
  BY CommandsAssumption DEF Commands!Streams, Commands!ModesOf
<1>1. CASE Commands!CameraInit
  BY <1>1 DEF Commands!CameraInit, Commands!Call, Commands!streamVars
<1>2. CASE Commands!StartDepth
  <2>1. /\ ready /\ ready' = ready /\ ~running["depth"] /\ running' = running /\ mode' = mode
        /\ started' = [started EXCEPT !["depth"] = mode["depth"]]
        /\ tables' = (tables \/ mode["depth"] \in Registered) /\ api' = <<"start", "depth">>
    BY <1>2 DEF Commands!StartDepth, Commands!Call
  <2>2. started'["depth"] = mode["depth"]
        /\ \A s \in Commands!Streams : s # "depth" => started'[s] = started[s]
    BY <1>a, <1>b, <2>1 DEF DomainFunctions
  <2>3. api'[1] = "start" /\ api'[2] = "depth"
    BY <2>1
  <2> QED
    BY <2>1, <2>2, <2>3
<1>3. CASE Commands!StartVideo
  <2>1. /\ ready /\ ready' = ready /\ ~running["video"] /\ running' = running /\ mode' = mode
        /\ started' = [started EXCEPT !["video"] = mode["video"]]
        /\ tables' = tables /\ api' = <<"start", "video">>
    BY <1>3 DEF Commands!StartVideo, Commands!Call
  <2>2. started'["video"] = mode["video"]
        /\ \A s \in Commands!Streams : s # "video" => started'[s] = started[s]
    BY <1>a, <1>b, <2>1 DEF DomainFunctions
  <2>3. api'[1] = "start" /\ api'[2] = "video"
    BY <2>1
  <2> QED
    BY <2>1, <2>2, <2>3
<1>4. ASSUME NEW s \in Commands!Streams, Commands!Stop(s)
      PROVE  Commands!StreamsFitMode' /\ Commands!StreamInv'
  <2>1. /\ running[s] /\ running' = [running EXCEPT ![s] = FALSE] /\ api' = <<"stop", s>>
        /\ UNCHANGED <<ready, mode, started, tables>>
    BY <1>4 DEF Commands!Stop, Commands!Call
  <2>2. ~running'[s] /\ \A r \in Commands!Streams : running'[r] => running[r]
    BY <1>a, <2>1
  <2>3. api'[1] = "stop" /\ api'[2] = s /\ ready
    BY <2>1
  <2> QED
    BY <1>b, <2>1, <2>2, <2>3
<1>5. ASSUME NEW s \in Commands!Streams, NEW m \in Commands!ModesOf[s], Commands!SetMode(s, m)
      PROVE  Commands!StreamsFitMode' /\ Commands!StreamInv'
  <2>1. /\ ready /\ ~running[s] /\ mode' = [mode EXCEPT ![s] = m] /\ api' = <<"mode">>
        /\ UNCHANGED <<ready, running, started, tables>>
    BY <1>5 DEF Commands!SetMode, Commands!Call, Commands!MayChange
  <2>2. mode'[s] = m /\ \A r \in Commands!Streams : r # s => mode'[r] = mode[r]
    BY <1>a, <2>1 DEF DomainFunctions
  <2>3. api'[1] = "mode" /\ m # "none"
    BY <1>d, <2>1
  <2> QED
    BY <1>b, <2>1, <2>2, <2>3
<1>6. ASSUME NEW on \in BOOLEAN, Commands!SetNearMode(on)
      PROVE  Commands!StreamsFitMode' /\ Commands!StreamInv'
  BY <1>6 DEF Commands!SetNearMode, Commands!Call, Commands!streamVars
<1>7. ASSUME NEW on \in BOOLEAN, NEW f \in Flags, Commands!SetFlag(f, on)
      PROVE  Commands!StreamsFitMode' /\ Commands!StreamInv'
  <2>1. api' = <<"flag", f, on>> /\ UNCHANGED <<ready, mode, running, started, tables>>
    BY <1>7 DEF Commands!SetFlag, Commands!Call, Commands!streamVars
  <2>2. api'[1] = "flag"
    BY <2>1
  <2> QED
    BY <2>1, <2>2
<1>8. CASE /\ UNCHANGED <<ready, mode, started, running, tables>>
           /\ api' = api \/ api' = <<"failed">>
  <2>1. CASE api' = api
    BY <1>8, <2>1
  <2>2. CASE api' = <<"failed">>
    <3>1. api'[1] = "failed"
      BY <2>2
    <3> QED
      BY <1>8, <3>1
  <2> QED
    BY <1>8, <2>1, <2>2
<1>9. CASE Commands!Return
  <2>a. api' = <<"none">> /\ api'[1] = "none"
    BY <1>9 DEF Commands!Return
  <2>1. CASE api[1] = "start"
    <3>1. api # <<"init">> /\ api # <<"stop", "depth">> /\ api[2] \in Commands!Streams
      BY <1>c, <2>1, CallShape
    <3>2. /\ running' = [running EXCEPT ![api[2]] = TRUE] /\ started' = started /\ mode' = mode
          /\ tables' = tables /\ ready' = ready /\ ready
      BY <1>9, <2>1, <3>1 DEF Commands!Return, Commands!TypeOK
    <3>3. \A s \in Commands!Streams : running'[s] => running[s] \/ s = api[2]
      BY <1>a, <3>1, <3>2
    <3> QED
      BY <1>b, <2>1, <2>a, <3>2, <3>3
  <2>2. CASE api[1] = "stop"
    <3>1. api # <<"init">> /\ api[2] \in Commands!Streams
          /\ (api # <<"stop", "depth">> => api[2] # "depth")
      BY <1>c, <2>2, CallShape
    <3>2. /\ started' = [started EXCEPT ![api[2]] = "none"] /\ running' = running /\ mode' = mode
          /\ ready' = ready /\ ready /\ ~running[api[2]]
          /\ api[2] # "depth" => tables' = tables
      BY <1>9, <2>2, <3>1, <1>c, CallShape DEF Commands!Return, Commands!TypeOK
    <3>3. \A s \in Commands!Streams : running'[s] => started'[s] = started[s]
      BY <1>a, <3>1, <3>2 DEF DomainFunctions
    <3> QED
      BY <1>b, <2>a, <3>2, <3>3
  <2>3. CASE api[1] = "init"
    <3>1. api = <<"init">> /\ api # <<"stop", "depth">> /\ ~ready
      BY <1>c, <2>3, CallShape
    <3>2. /\ running' = running /\ ready' = TRUE
          /\ mode' = [depth |-> "11bit", video |-> "rgb"]
      BY <1>9, <2>3, <3>1 DEF Commands!Return
    <3>3. \A s \in Commands!Streams : mode'[s] # "none" /\ ~running'[s]
      BY <3>1, <3>2 DEF Commands!Streams
    <3> QED
      BY <1>b, <2>a, <3>2, <3>3
  <2>4. CASE api[1] \notin {"start", "stop", "init"}
    <3>1. api # <<"init">> /\ api # <<"stop", "depth">>
      BY <1>c, <2>4, CallShape
    <3>2. UNCHANGED <<running, started, tables, ready, mode>>
      BY <1>9, <2>4, <3>1 DEF Commands!Return, Commands!TypeOK
    <3> QED
      BY <2>a, <3>2
  <2> QED
    BY <2>1, <2>2, <2>3, <2>4
<1>10. CASE \/ Commands!Write \/ Commands!WriteFails \/ Commands!Mismatch \/ Commands!Damaged
            \/ \E any \in SUBSET Flags : Commands!Answered(any)
  BY <1>8, <1>10 DEF Commands!Write, Commands!WriteFails, Commands!Answered, Commands!Mismatch,
     Commands!Damaged, Commands!Refused, Commands!streamVars
<1>11. ASSUME NEW drop \in BOOLEAN, NEW g \in SUBSET Flags, Commands!Unread(drop, g)
       PROVE  Commands!StreamsFitMode' /\ Commands!StreamInv'
  BY <1>8, <1>11 DEF Commands!Unread, Commands!streamVars
<1> QED
  BY <1>1, <1>2, <1>3, <1>4, <1>5, <1>6, <1>7, <1>9, <1>10, <1>11 DEF Commands!Next

\* The tag that follows another
LEMMA NextTag ==
  ASSUME NEW n \in 0..(TagModulus - 1), NEW o, o = (n + 1) % TagModulus
  PROVE  o \in 0..(TagModulus - 1) /\ o # n /\ (o + TagModulus - 1) % TagModulus = n
<1>1. TagModulus \in Nat /\ TagModulus >= 2 /\ n \in Nat /\ n < TagModulus
  BY CommandsAssumption
<1>2. CASE n + 1 = TagModulus
  <2>1. o = 0
    BY <1>1, <1>2
  <2> QED
    BY <1>1, <1>2, <2>1
<1>3. CASE n + 1 < TagModulus
  <2>1. o = n + 1
    BY <1>1, <1>3
  <2>2. o + TagModulus - 1 = n + TagModulus
    BY <1>1, <2>1
  <2>3. (n + TagModulus) % TagModulus = n
    BY <1>1
  <2> QED
    BY <1>1, <1>3, <2>1, <2>2, <2>3
<1> QED
  BY <1>1, <1>2, <1>3

\* A call begins only when no command waits.
LEMMA NothingWaits ==
  ASSUME Commands!CallInv, Commands!Idle \/ todo = <<>>
  PROVE  ~waiting
  BY DEF Commands!CallInv

LEMMA AnswersKept ==
  ASSUME Commands!TypeOK, Commands!CallInv, Commands!AnswersInv, Commands!Next
  PROVE  Commands!AnswersInv'
<1>a. todo \in Seq(Commands!Commands) /\ answers \in Seq(Commands!Answers)
      /\ (waiting => todo # <<>> /\ answers # <<>>) /\ tag \in 0..(TagModulus - 1)
  BY DEF Commands!CallInv, Commands!TypeOK
<1>b. /\ \A k \in DOMAIN answers : answers[k].tag \in {tag, Commands!LastTag}
      /\ \A k, l \in DOMAIN answers : k <= l /\ answers[k].tag = tag => answers[l].tag = tag
  BY DEF Commands!AnswersInv
<1>c. todo # <<>> => Head(todo) = todo[1]
  BY <1>a, FirstAndRest
<1>d. DOMAIN answers = 1..Len(answers) /\ Len(answers) \in Nat
  BY <1>a
<1>e. ASSUME answers # <<>>
      PROVE  \A k \in DOMAIN Tail(answers) :
               k \in Nat /\ k + 1 \in DOMAIN answers /\ Tail(answers)[k] = answers[k + 1]
  <2>1. Tail(answers) \in Seq(Commands!Answers)
    BY <1>a, <1>e, FirstAndRest
  <2>2. DOMAIN Tail(answers) = 1..Len(Tail(answers))
    BY <2>1
  <2> QED
    BY <1>a, <1>e, <2>2, FirstAndRest
<1>1. ASSUME ~waiting', tag' = tag,
             answers' = answers \/ (answers # <<>> /\ answers' = Tail(answers))
      PROVE  Commands!AnswersInv'
  <2>1. Commands!LastTag' = Commands!LastTag
    BY <1>1 DEF Commands!LastTag
  <2>2. CASE answers' = answers
    BY <1>1, <1>b, <2>1, <2>2 DEF Commands!AnswersInv
  <2>3. CASE answers # <<>> /\ answers' = Tail(answers)
    <3>1. \A k, l \in DOMAIN answers' :
            /\ k + 1 \in DOMAIN answers /\ answers'[k] = answers[k + 1]
            /\ l + 1 \in DOMAIN answers /\ answers'[l] = answers[l + 1]
            /\ k <= l => k + 1 <= l + 1
      BY <1>e, <2>3
    <3> QED
      BY <1>1, <1>b, <2>1, <3>1 DEF Commands!AnswersInv
  <2> QED
    BY <1>1, <2>2, <2>3
<1>2. CASE Commands!Write
  <2> DEFINE new == [tag |-> tag, to |-> todo[1], val |-> cmos']
  <2>1. /\ todo # <<>> /\ ~waiting /\ waiting' = TRUE /\ todo' = todo /\ tag' = tag
        /\ answers' = Append(answers, new)
        /\ cmos' = IF todo[1].op = "writeCmos" THEN todo[1].arg ELSE cmos
    BY <1>2, <1>c DEF Commands!Write, Commands!Effect
  <2>2. /\ DOMAIN answers' = 1..(Len(answers) + 1) /\ Len(answers') = Len(answers) + 1
        /\ \A k \in 1..Len(answers) : answers'[k] = answers[k]
        /\ answers'[Len(answers) + 1] = new
    <3> HIDE DEF new
    <3> QED
      BY <1>a, <2>1
  <2>3. Commands!LastTag' = Commands!LastTag
    BY <2>1 DEF Commands!LastTag
  <2>4. \A k \in DOMAIN answers' : answers'[k].tag \in {tag', Commands!LastTag'}
    BY <1>b, <1>d, <2>1, <2>2, <2>3
  <2>5. ASSUME NEW k \in DOMAIN answers', NEW l \in DOMAIN answers', k <= l, answers'[k].tag = tag'
        PROVE  answers'[l].tag = tag'
    <3>1. CASE l = Len(answers) + 1
      BY <2>1, <2>2, <3>1
    <3>2. CASE l # Len(answers) + 1
      <4>1. l \in DOMAIN answers /\ k \in DOMAIN answers
        BY <1>d, <2>2, <2>5, <3>2
      <4> QED
        BY <1>b, <1>d, <2>1, <2>2, <2>5, <4>1
    <3> QED
      BY <3>1, <3>2
  <2>6. answers'[Len(answers')] = new /\ (todo[1].op = "readCmos" => cmos' = cmos)
    BY <2>1, <2>2
  <2> QED
    BY <2>1, <2>4, <2>5, <2>6 DEF Commands!AnswersInv
<1>3. ASSUME NEW any \in SUBSET Flags, Commands!Answered(any) PROVE Commands!AnswersInv'
  <2>1. /\ answers # <<>> /\ answers' = Tail(answers) /\ Head(answers).tag = tag /\ ~waiting'
        /\ tag' = (tag + 1) % TagModulus
    BY <1>3 DEF Commands!Answered, Commands!Matches
  <2>2. answers[1].tag = tag /\ 1 \in DOMAIN answers
    BY <1>a, <1>d, <2>1, FirstAndRest
  <2>3. \A k \in DOMAIN answers : answers[k].tag = tag
    BY <1>b, <1>d, <2>2
  <2>4. tag' # tag /\ Commands!LastTag' = tag
    BY <1>a, <2>1, NextTag DEF Commands!LastTag
  <2>5. \A k \in DOMAIN answers' : answers'[k].tag = tag
    BY <1>e, <2>1, <2>3
  <2> QED
    BY <2>1, <2>4, <2>5 DEF Commands!AnswersInv
<1>4. CASE Commands!WriteFails \/ Commands!Return
  BY <1>1, <1>4 DEF Commands!WriteFails, Commands!Return
<1>5. CASE Commands!Mismatch \/ Commands!Damaged
  BY <1>1, <1>5 DEF Commands!Mismatch, Commands!Damaged, Commands!Refused
<1>6. ASSUME NEW drop \in BOOLEAN, NEW g \in SUBSET Flags, Commands!Unread(drop, g)
      PROVE  Commands!AnswersInv'
  BY <1>1, <1>6, <1>a DEF Commands!Unread
<1>7. ASSUME NEW name, NEW cmds, Commands!Call(name, cmds), UNCHANGED <<tag, answers, waiting>>
      PROVE  Commands!AnswersInv'
  BY <1>1, <1>7, NothingWaits DEF Commands!Call
<1>8. CASE Commands!CameraInit \/ Commands!StartDepth \/ Commands!StartVideo
  BY <1>7, <1>8 DEF Commands!CameraInit, Commands!StartDepth, Commands!StartVideo
<1>9. CASE \E s \in Commands!Streams :
             Commands!Stop(s) \/ \E m \in Commands!ModesOf[s] : Commands!SetMode(s, m)
  BY <1>7, <1>9 DEF Commands!Stop, Commands!SetMode
<1>10. CASE \E on \in BOOLEAN :
              Commands!SetNearMode(on) \/ \E f \in Flags : Commands!SetFlag(f, on)
  BY <1>7, <1>10 DEF Commands!SetNearMode, Commands!SetFlag
<1> QED
  BY <1>2, <1>3, <1>4, <1>5, <1>6, <1>8, <1>9, <1>10 DEF Commands!Next

LEMMA FlagsKept ==
  ASSUME Commands!TypeOK, Commands!CallInv, Commands!AnswersInv, Commands!FlagInv, Commands!Next
  PROVE  Commands!FlagInv'
<1> DEFINE writing == todo # <<>> /\ todo[1].op = "writeCmos"
           asked == Commands!Modified(api[2], api[3], before)
<1>a. todo \in Seq(Commands!Commands) /\ answers \in Seq(Commands!Answers)
      /\ (waiting => todo # <<>> /\ answers # <<>>) /\ tag \in 0..(TagModulus - 1)
      /\ (Commands!Idle => todo = <<>>) /\ waiting \in BOOLEAN /\ ListFor(todo, api)
  BY DEF Commands!CallInv, Commands!TypeOK, ListFor
<1>b. /\ api[1] = "flag" /\ todo # <<>>
           => todo[1].op \in {"readCmos", "writeCmos"} /\ todo[1].must
      /\ api[1] = "flag" /\ todo # <<>> /\ ~unread =>
           /\ cmos = IF writing /\ waiting THEN todo[1].arg ELSE before
           /\ writing => todo[1].arg = asked \/ (answers # <<>> /\ answers[1].tag # tag)
      /\ api[1] = "flag" /\ todo = <<>> /\ ~waiting /\ ~unread => cmos = asked
  BY DEF Commands!FlagInv, Commands!FlagsIndependent
<1>c. todo # <<>> => Head(todo) = todo[1] /\ 1 \in DOMAIN todo
  BY <1>a, FirstAndRest
<1>1. ASSUME NEW name, NEW cmds, Commands!Call(name, cmds), name[1] # "flag"
      PROVE  Commands!FlagInv'
  <2>1. api' = name
    BY <1>1 DEF Commands!Call
  <2> QED
    BY <1>1, <2>1 DEF Commands!FlagInv, Commands!FlagsIndependent
<1>2. ASSUME api'[1] = "failed" \/ api'[1] = "none" PROVE Commands!FlagInv'
  BY <1>2 DEF Commands!FlagInv, Commands!FlagsIndependent
<1>3. ASSUME api[1] # "flag", api' = api \/ api' = <<"failed">> PROVE Commands!FlagInv'
  <2>1. api'[1] # "flag"
    BY <1>3
  <2> QED
    BY <2>1 DEF Commands!FlagInv, Commands!FlagsIndependent
<1>4. ASSUME todo # <<>>, Commands!Failed, api' = IF Commands!CallFails THEN <<"failed">> ELSE api
      PROVE  Commands!FlagInv'
  <2>1. CASE api[1] = "flag"
    <3>1. api' = <<"failed">>
      BY <1>4, <1>b, <1>c, <2>1 DEF Commands!CallFails
    <3> QED
      BY <1>2, <3>1
  <2> QED
    BY <1>3, <1>4, <2>1
<1>5. CASE Commands!Write
  <2>1. /\ todo # <<>> /\ ~waiting /\ waiting' = TRUE /\ tag' = tag
        /\ UNCHANGED <<todo, api, before, unread>>
        /\ answers' = Append(answers, [tag |-> tag, to |-> todo[1], val |-> cmos'])
        /\ cmos' = IF todo[1].op = "writeCmos" THEN todo[1].arg ELSE cmos
    BY <1>5, <1>c DEF Commands!Write, Commands!Effect
  <2>2. answers # <<>> => answers' # <<>> /\ answers'[1] = answers[1]
    BY <1>a, <2>1
  <2> QED
    BY <1>b, <2>1, <2>2 DEF Commands!FlagInv, Commands!FlagsIndependent
<1>6. CASE Commands!WriteFails
  BY <1>4, <1>6 DEF Commands!WriteFails
<1>7. CASE Commands!Mismatch \/ Commands!Damaged
  BY <1>4, <1>7, <1>a DEF Commands!Mismatch, Commands!Damaged, Commands!Refused
<1>8. CASE Commands!Return
  <2>1. api'[1] = "none"
    BY <1>8 DEF Commands!Return
  <2> QED
    BY <1>2, <2>1
\* The list of a call of freenect_set_flag after one of its commands
<1>d. ASSUME api[1] = "flag", todo # <<>>, NEW val, Commands!Continue(val)
      PROVE  IF todo[1].op = "readCmos"
               THEN /\ todo' # <<>> /\ todo'[1].op = "writeCmos" /\ todo'[1].must
                    /\ todo'[1].arg = Commands!Modified(api[2], api[3], val)
               ELSE todo' = <<>>
  <2>1. CASE todo[1].op = "readCmos"
    <3>1. todo' = <<Commands!Cmd("writeCmos", Commands!Modified(api[2], api[3], val), TRUE)>>
      BY <1>c, <1>d, <2>1 DEF Commands!Continue
    <3> QED
      BY <2>1, <3>1 DEF Commands!Cmd
  <2>2. CASE todo[1].op # "readCmos"
    <3>1. todo' = Tail(todo) /\ Len(todo) = 1
      BY <1>a, <1>b, <1>c, <1>d, <2>2 DEF Commands!Continue, ListFor
    <3>2. Tail(todo) \in Seq(Commands!Commands) /\ Len(Tail(todo)) = 0
      BY <1>a, <1>d, <3>1, FirstAndRest
    <3> QED
      BY <2>2, <3>1, <3>2, EmptySeq
  <2> QED
    BY <2>1, <2>2
<1>9. ASSUME NEW drop \in BOOLEAN, NEW g \in SUBSET Flags, Commands!Unread(drop, g)
      PROVE  Commands!FlagInv'
  <2>1. todo # <<>> /\ unread'
    BY <1>9, <1>a DEF Commands!Unread
  <2>2. CASE api[1] = "flag"
    <3>1. Commands!Continue(g) /\ api' = api
      BY <1>9, <1>b, <1>c, <2>1, <2>2 DEF Commands!Unread
    <3>2. todo' # <<>> => todo'[1].op \in {"readCmos", "writeCmos"} /\ todo'[1].must
      BY <1>d, <2>1, <2>2, <3>1
    <3> QED
      BY <2>1, <3>2 DEF Commands!FlagInv, Commands!FlagsIndependent
  <2>3. CASE api[1] # "flag"
    BY <1>3, <1>9, <2>3 DEF Commands!Unread
  <2> QED
    BY <2>2, <2>3
<1>10. ASSUME NEW any \in SUBSET Flags, Commands!Answered(any) PROVE Commands!FlagInv'
  <2> DEFINE a == answers[1]
             val == IF a.to.op = "readCmos" THEN a.val ELSE any
  <2>1. /\ waiting /\ ~waiting' /\ todo # <<>> /\ answers # <<>> /\ Head(answers) = a
        /\ answers' = Tail(answers) /\ a.tag = tag /\ tag' = (tag + 1) % TagModulus
        /\ UNCHANGED <<cmos, before, unread>>
    BY <1>10, <1>a, FirstAndRest DEF Commands!Answered, Commands!Matches, Commands!cameraVars
  <2>2. CASE api[1] # "flag"
    BY <1>3, <1>10, <2>2 DEF Commands!Answered
  <2>3. CASE api[1] = "flag"
    <3>1. todo[1].op \in {"readCmos", "writeCmos"}
      BY <1>b, <2>1, <2>3
    <3>2. Commands!Continue(val) /\ api' = api
      <4>1. Commands!LengthFits(Head(answers))
        BY <1>c, <2>1, <3>1 DEF Commands!LengthFits
      <4> QED
        BY <1>10, <2>1, <4>1 DEF Commands!Answered
    <3>3. CASE todo[1].op = "writeCmos"
      <4>1. todo' = <<>>
        BY <1>d, <2>1, <2>3, <3>2, <3>3
      <4>2. ~unread => cmos = asked
        BY <1>b, <2>1, <2>3, <3>3
      <4> QED
        BY <2>1, <3>2, <4>1, <4>2 DEF Commands!FlagInv, Commands!FlagsIndependent
    <3>4. CASE todo[1].op = "readCmos"
      <4>1. /\ todo' # <<>> /\ todo'[1].op = "writeCmos" /\ todo'[1].must
            /\ todo'[1].arg = Commands!Modified(api[2], api[3], val)
        <5> HIDE DEF val
        <5> QED
          BY <1>d, <2>1, <2>3, <3>2, <3>4
      <4>2. ~unread => cmos = before
        BY <1>b, <2>1, <2>3, <3>4
      <4>3. CASE Len(answers) = 1
        <5>1. a.to = todo[1] /\ (a.to.op = "readCmos" => a.val = cmos)
          BY <2>1, <4>3 DEF Commands!AnswersInv
        <5>2. ~unread => todo'[1].arg = asked
          BY <3>4, <4>1, <4>2, <5>1
        <5> QED
          BY <2>1, <3>2, <4>1, <4>2, <5>2 DEF Commands!FlagInv, Commands!FlagsIndependent
      <4>4. CASE Len(answers) # 1
        <5>1. /\ 1 \in DOMAIN answers /\ 2 \in DOMAIN answers
              /\ answers' # <<>> /\ answers'[1] = answers[2]
          <6>1. /\ Tail(answers) \in Seq(Commands!Answers) /\ Len(Tail(answers)) = Len(answers) - 1
                /\ Len(answers) \in Nat \ {0} /\ DOMAIN answers = 1..Len(answers)
                /\ \A k \in DOMAIN Tail(answers) : Tail(answers)[k] = answers[k + 1]
            BY <1>a, <2>1, FirstAndRest
          <6>2. 1 \in DOMAIN Tail(answers)
            BY <4>4, <6>1
          <6>3. 1 \in DOMAIN answers /\ 2 \in DOMAIN answers
            BY <4>4, <6>1
          <6>4. Tail(answers)[1] = answers[1 + 1] /\ 1 + 1 = 2
            BY <6>1, <6>2
          <6>5. Tail(answers) # <<>>
            BY <6>2
          <6> QED
            BY <2>1, <6>3, <6>4, <6>5
        <5>2. answers[2].tag = tag
          BY <2>1, <5>1 DEF Commands!AnswersInv
        <5>3. tag' # tag
          BY <1>a, <2>1, NextTag
        <5> QED
          BY <2>1, <3>2, <4>1, <4>2, <5>1, <5>2, <5>3
             DEF Commands!FlagInv, Commands!FlagsIndependent
      <4> QED
        BY <4>3, <4>4
    <3> QED
      BY <3>1, <3>3, <3>4
  <2> QED
    BY <2>2, <2>3
<1>11. CASE Commands!CameraInit \/ Commands!StartDepth \/ Commands!StartVideo
  <2>1. <<"init">>[1] # "flag" /\ <<"start", "depth">>[1] # "flag" /\ <<"start", "video">>[1] # "flag"
    OBVIOUS
  <2> QED
    BY <1>1, <1>11, <2>1 DEF Commands!CameraInit, Commands!StartDepth, Commands!StartVideo
<1>12. CASE \E s \in Commands!Streams :
              Commands!Stop(s) \/ \E m \in Commands!ModesOf[s] : Commands!SetMode(s, m)
  <2>1. <<"mode">>[1] # "flag" /\ \A s : <<"stop", s>>[1] # "flag"
    OBVIOUS
  <2> QED
    BY <1>1, <1>12, <2>1 DEF Commands!Stop, Commands!SetMode
<1>13. CASE \E on \in BOOLEAN : Commands!SetNearMode(on)
  <2>1. <<"near">>[1] # "flag"
    OBVIOUS
  <2> QED
    BY <1>1, <1>13, <2>1 DEF Commands!SetNearMode
<1>14. ASSUME NEW on \in BOOLEAN, NEW f \in Flags, Commands!SetFlag(f, on)
       PROVE  Commands!FlagInv'
  <2> DEFINE cmds == <<Commands!Cmd("readCmos", {}, TRUE)>>
  <2>1. Commands!Call(<<"flag", f, on>>, cmds) /\ waiting' = waiting /\ cmos' = cmos
    BY <1>14 DEF Commands!SetFlag, Commands!cameraVars
  <2>2. todo' = cmds /\ before' = cmos /\ ~waiting'
    BY <2>1, NothingWaits DEF Commands!Call
  <2>3. cmds # <<>> /\ cmds[1].op = "readCmos" /\ cmds[1].must
    BY DEF Commands!Cmd
  <2> HIDE DEF cmds
  <2> QED
    BY <2>1, <2>2, <2>3 DEF Commands!FlagInv, Commands!FlagsIndependent
<1> QED
  BY <1>5, <1>6, <1>7, <1>8, <1>9, <1>10, <1>11, <1>12, <1>13, <1>14 DEF Commands!Next

LEMMA PairFunction ==
  ASSUME NEW S, NEW x \in S, NEW y \in S
  PROVE  <<x, y>> \in [1..2 -> S]
  OBVIOUS

LEMMA CommandsInit == Commands!Init => Commands!IndInv
<1> SUFFICES ASSUME Commands!Init PROVE Commands!IndInv
  OBVIOUS
<1> USE DEF Commands!Init
<1>1. /\ tag \in 0..(TagModulus - 1) /\ calls \in 0..MaxCalls /\ faults \in 0..MaxFaults
  BY CommandsAssumption
<1>2. near \in [1..2 -> BOOLEAN]
  BY PairFunction
<1>3. Commands!TypeOK
  BY <1>1, <1>2 DEF Commands!TypeOK
<1>4. api \in Commands!Calls /\ api[1] = "none"
  BY DEF Commands!Calls
<1>5. Commands!CallInv
  BY <1>4 DEF Commands!CallInv
<1>6. Commands!StreamsFitMode /\ Commands!StreamInv
  BY <1>4 DEF Commands!StreamsFitMode, Commands!StreamInv, Commands!Streams
<1>7. Commands!FlagInv /\ Commands!AnswersInv
  BY <1>4 DEF Commands!FlagInv, Commands!FlagsIndependent, Commands!AnswersInv
<1> QED
  BY <1>3, <1>5, <1>6, <1>7 DEF Commands!IndInv

\* Whatever transfers fail and however the calls follow each other, a running stream has
\* the buffers and tables of its mode (cameras.c:395); and a call of freenect_set_flag that
\* succeeds, and whose own answers could be read, changes that flag and no other (flags.c:87),
\* however many answers earlier calls have left unread for it to take for its own
\* (flags.c:140, flags.c:150), for every set of flags and modes and every width of the tag.
THEOREM CommandsSafe == Spec => []CommandsFit
<1> DEFINE I == part = "commands" => Commands!IndInv
<1>1. Init => I
  BY CommandsInit DEF Init
<1>2. I /\ [Next]_all => I'
  <2> SUFFICES ASSUME I, [Next]_all, part' = "commands" PROVE Commands!IndInv'
    OBVIOUS
  <2>1. part = "commands"
    BY PartSteps
  <2>2. CASE Commands!Next
    BY <2>1, <2>2, CommandsTypes, StreamsKept, AnswersKept, FlagsKept
       DEF Commands!IndInv
  <2>3. CASE UNCHANGED cmdVars
    BY <2>1, <2>3 DEF Commands!IndInv, Commands!TypeOK, Commands!CallInv, Commands!Idle,
       Commands!StreamsFitMode, Commands!StreamInv, Commands!AnswersInv,
       Commands!LastTag, Commands!FlagInv, Commands!FlagsIndependent, cmdVars
  <2> QED
    BY <2>1, <2>2, <2>3, PartSteps
<1>3. I => CommandsFit
  BY DEF CommandsFit, Commands!IndInv, Commands!FlagInv
<1> QED
  BY <1>1, <1>2, <1>3, PTL DEF Spec, Steps

-----------------------------------------------------------------------------
(* The preview.                                                            *)

\* What Head, Tail and Len are of the lists checkCurrentState works off.
LEMMA OneTarget ==
  ASSUME NEW b
  PROVE  Head(<<b>>) = b /\ Tail(<<b>>) = <<>> /\ Len(<<b>>) = 1 /\ <<b>> # <<>>
  OBVIOUS

LEMMA TwoTargets ==
  ASSUME NEW a, NEW b
  PROVE  /\ Head(<<a, b>>) = a /\ Tail(<<a, b>>) = <<b>> /\ Len(<<a, b>>) # 1
         /\ <<a, b>> # <<>>
  OBVIOUS

\* A frame that is written half by half stays a pair of frames.
LEMMA HalfWritten ==
  ASSUME NEW b \in Preview!Halves, NEW f \in Preview!Frames, NEW k \in {1, 2}
  PROVE  [b EXCEPT ![k] = f] \in Preview!Halves /\ b[k] \in Preview!Frames
  BY DEF Preview!Halves

\* There is a number for the next frame.
LEMMA NextFrame ==
  ASSUME NEW f \in Preview!Frames, f < MaxFrame
  PROVE  f + 1 \in Preview!Frames
  BY BoundsAssumption DEF Preview!Frames

LEMMA PreviewInit == Preview!Init => Preview!IndInv
<1> SUFFICES ASSUME Preview!Init PROVE Preview!IndInv
  OBVIOUS
<1>1. 0 \in Preview!Frames
  BY BoundsAssumption DEF Preview!Frames
<1>2. <<0, 0>> \in Preview!Halves
  BY <1>1 DEF Preview!Halves
<1> QED
  BY <1>1, <1>2 DEF Preview!Init, Preview!IndInv, Preview!TypeOK, Preview!TargetsOK, Preview!UiInv,
     Preview!WorkerMatchesSurface, Preview!NoLostWakeup

LEMMA PreviewStep ==
  ASSUME Preview!IndInv, Preview!Next
  PROVE  Preview!IndInv'
<1> USE DEF Preview!IndInv, Preview!TypeOK, Preview!UiInv, Preview!WorkerMatchesSurface,
            Preview!NoLostWakeup, Preview!uiVars, Preview!workerVars, Preview!frameVars
<1>1. CASE Preview!SurfaceChanged
  BY <1>1, OneTarget, TwoTargets DEF Preview!TargetsOK, Preview!SurfaceChanged
<1>2. CASE Preview!SurfaceDestroyed
  BY <1>2, OneTarget, TwoTargets DEF Preview!TargetsOK, Preview!SurfaceDestroyed
<1>3. CASE Preview!CheckCurrentState
  <2>1. CASE targets = <<TRUE>>
    <3>1. /\ Head(targets) = TRUE /\ Tail(targets) = <<>> /\ Len(targets) = 1
      BY <2>1, OneTarget
    <3>2. /\ ui = "check" /\ surfaceExist' = TRUE /\ targets' = <<>> /\ ui' = "idle"
          /\ \/ state = "STARTED" /\ UNCHANGED <<state, stopThread, worker>>
             \/ state' = "STARTED" /\ stopThread' = FALSE /\ worker' = "top"
          /\ UNCHANGED <<frameReady, Preview!workerVars, Preview!frameVars>>
      BY <1>3, <3>1 DEF Preview!CheckCurrentState, Preview!Next1, Preview!TargetState,
         Preview!ClearStop
    <3>3. Preview!TargetsOK'
      BY <3>2 DEF Preview!TargetsOK
    <3>4. Preview!TypeOK'
      BY <3>2, <3>3
    <3>a. worker' # "none" /\ ~stopThread' /\ state' = "STARTED" /\ worker' # "done"
      <4>1. worker # "done" /\ (state = "STARTED" => worker # "none" /\ ~stopThread)
        BY <3>2
      <4>2. CASE state = "STARTED" /\ UNCHANGED <<state, stopThread, worker>>
        BY <4>1, <4>2
      <4>3. CASE state' = "STARTED" /\ stopThread' = FALSE /\ worker' = "top"
        BY <4>3
      <4> QED
        BY <3>2, <4>2, <4>3
    <3>5. Preview!WorkerMatchesSurface'
      BY <3>2, <3>a
    <3>6. Preview!NoLostWakeup'
      BY <3>2
    <3>7. Preview!UiInv'
      BY <3>2, <3>a
    <3> QED
      BY <3>4, <3>5, <3>6, <3>7
  <2>2. CASE targets = <<FALSE>>
    <3>1. Head(targets) = FALSE /\ Tail(targets) = <<>> /\ Len(targets) = 1 /\ targets # <<>>
      BY <2>2, OneTarget
    <3>2. /\ ui = "check" /\ surfaceExist' = FALSE
          /\ \/ /\ state = "STOPPED" /\ targets' = <<>> /\ ui' = "idle"
                /\ UNCHANGED <<state, stopThread, worker>>
             \/ /\ state = "STARTED" /\ stopThread' = TRUE /\ ui' = "notify"
                /\ UNCHANGED <<state, targets, worker>>
          /\ UNCHANGED <<frameReady, Preview!workerVars, Preview!frameVars>>
      BY <1>3, <3>1 DEF Preview!CheckCurrentState, Preview!Next1, Preview!TargetState
    <3>3. Preview!TargetsOK' /\ (Head(targets') = FALSE \/ ui' = "idle")
      BY <2>2, <3>1, <3>2 DEF Preview!TargetsOK
    <3> QED
      BY <3>2, <3>3
  <2>3. CASE targets = <<FALSE, TRUE>>
    <3>1. Head(targets) = FALSE /\ Tail(targets) = <<TRUE>> /\ Len(targets) # 1
      BY <2>3, TwoTargets
    <3>2. targets # <<>> /\ <<TRUE>> # <<>>
      BY <2>3, OneTarget, TwoTargets
    <3>3. /\ ui = "check" /\ surfaceExist' = FALSE
          /\ \/ /\ state = "STOPPED" /\ targets' = <<TRUE>> /\ ui' = "check"
                /\ UNCHANGED <<state, stopThread, worker>>
             \/ /\ state = "STARTED" /\ stopThread' = TRUE /\ ui' = "notify"
                /\ UNCHANGED <<state, targets, worker>>
          /\ UNCHANGED <<frameReady, Preview!workerVars, Preview!frameVars>>
      BY <1>3, <3>1 DEF Preview!CheckCurrentState, Preview!Next1, Preview!TargetState
    <3>4. Preview!TargetsOK' /\ (Head(targets') = FALSE \/ ui' = "check")
      BY <2>3, <3>1, <3>2, <3>3 DEF Preview!TargetsOK
    <3> QED
      BY <3>3, <3>4
  <2> QED
    BY <1>3, <2>1, <2>2, <2>3 DEF Preview!CheckCurrentState, Preview!TargetsOK
<1>4. CASE Preview!StopNotify
  BY <1>4 DEF Preview!TargetsOK, Preview!StopNotify, Preview!WakeForStop, Preview!Notify, Preview!MonitorFree
<1>5. CASE Preview!Join
  BY <1>5 DEF Preview!TargetsOK, Preview!Join
<1>6. CASE Preview!Stopped
  <2> USE <1>6 DEF Preview!Stopped, Preview!Next1
  <2>1. CASE targets = <<TRUE>>
    <3>1. Head(targets) = TRUE
      BY <2>1, OneTarget
    <3> QED
      BY <3>1
  <2>2. CASE targets = <<FALSE>>
    <3>1. Head(targets) = FALSE /\ Tail(targets) = <<>> /\ Len(targets) = 1
      BY <2>2, OneTarget
    <3>2. targets' = <<>> /\ ui' = "idle"
      BY <3>1
    <3>3. Preview!TargetsOK'
      BY <3>2 DEF Preview!TargetsOK
    <3> QED
      BY <3>2, <3>3
  <2>3. CASE targets = <<FALSE, TRUE>>
    <3>1. Tail(targets) = <<TRUE>> /\ Len(targets) # 1 /\ <<TRUE>> # <<>>
      BY <2>3, OneTarget, TwoTargets
    <3>2. targets' = <<TRUE>> /\ ui' = "check"
      BY <3>1
    <3>3. Preview!TargetsOK'
      BY <3>1, <3>2 DEF Preview!TargetsOK
    <3> QED
      BY <3>2, <3>3
  <2> QED
    BY <2>1, <2>2, <2>3 DEF Preview!TargetsOK
<1>7. CASE Preview!BeginFrame
  <2>1. sent' \in Preview!Frames /\ sent' = sent + 1
    BY <1>7, NextFrame DEF Preview!BeginFrame
  <2>2. frameBuffer' \in Preview!Halves
    BY <1>7, <2>1, HalfWritten DEF Preview!BeginFrame
  <2> QED
    BY <1>7, <2>1, <2>2, ZenonT(30) DEF Preview!TargetsOK, Preview!BeginFrame, Preview!MonitorFree
<1>8. CASE Preview!EndFrame
  <2>1. frameBuffer' \in Preview!Halves
    BY <1>8, HalfWritten DEF Preview!EndFrame
  <2> QED
    BY <1>8, <2>1 DEF Preview!TargetsOK, Preview!EndFrame, Preview!NotifyFrame, Preview!Notify
<1>9. CASE Preview!WorkerEnter
  BY <1>9 DEF Preview!TargetsOK, Preview!WorkerEnter, Preview!MonitorFree
<1>10. CASE Preview!WorkerTest
  BY <1>10 DEF Preview!TargetsOK, Preview!WorkerTest
<1>11. CASE \E k \in {1, 2} : Preview!DrawFrameRead(k)
  <2>1. PICK k \in {1, 2} : Preview!DrawFrameRead(k)
    BY <1>11
  <2>2. bitmap' \in Preview!Halves
    BY <2>1, HalfWritten DEF Preview!DrawFrameRead
  <2>3. CASE k = 1
    BY <2>1, <2>2, <2>3 DEF Preview!TargetsOK, Preview!DrawFrameRead
  <2>4. CASE k = 2
    BY <2>1, <2>2, <2>4 DEF Preview!TargetsOK, Preview!DrawFrameRead
  <2> QED
    BY <2>3, <2>4
<1>12. CASE Preview!DrawFramePost
  BY <1>12 DEF Preview!TargetsOK, Preview!DrawFramePost
<1>13. CASE Preview!WorkerLoop
  BY <1>13 DEF Preview!TargetsOK, Preview!WorkerLoop
<1>14. CASE Preview!SpuriousWakeup
  BY <1>14 DEF Preview!TargetsOK, Preview!SpuriousWakeup
<1> QED
  BY <1>1, <1>2, <1>3, <1>4, <1>5, <1>6, <1>7, <1>8, <1>9, <1>10, <1>11, <1>12, <1>13,
     <1>14 DEF Preview!Next, Preview!UiStep, Preview!WorkerStep

LEMMA PreviewStutter ==
  ASSUME Preview!IndInv, UNCHANGED viewVars
  PROVE  Preview!IndInv'
  BY SMTT(30), ZenonT(30) DEF Preview!IndInv, Preview!TypeOK, Preview!TargetsOK, Preview!UiInv,
     Preview!WorkerMatchesSurface, Preview!NoLostWakeup, viewVars

\* The preview worker runs exactly while there is a surface, is never left asleep with a
\* frame or an order to stop, and never outlives stopWorker: whatever the order in which
\* the UI thread, the detector's thread and the worker run (KinectPreview.java:99, 151).
THEOREM PreviewSafe == Spec => []WorkerMatchesSurface
<1> DEFINE I == part = "preview" => Preview!IndInv
<1>1. Init => I
  BY PreviewInit DEF Init
<1>2. I /\ [Next]_all => I'
  <2> SUFFICES ASSUME I, [Next]_all, part' = "preview" PROVE Preview!IndInv'
    OBVIOUS
  <2>1. part = "preview"
    BY PartSteps
  <2>2. CASE Preview!Next
    BY <2>1, <2>2, PreviewStep
  <2>3. CASE UNCHANGED viewVars
    BY <2>1, <2>3, PreviewStutter
  <2> QED
    BY <2>1, <2>2, <2>3, PartSteps
<1>3. I => WorkerMatchesSurface
  BY DEF WorkerMatchesSurface, Preview!IndInv
<1> QED
  BY <1>1, <1>2, <1>3, PTL DEF Spec, Steps

-----------------------------------------------------------------------------
(* The application.                                                        *)

LEMMA AppInit == App!Init => App!IndInv
<1> SUFFICES ASSUME App!Init PROVE App!IndInv
  OBVIOUS
<1> USE BoundsAssumption DEF App!Init
<1>1. driver \in App!Drivers \cup {App!None} /\ injector \in App!Drivers \cup {App!None}
  OBVIOUS
<1>2. drivers \in [App!Drivers -> {"none", "idle", "streaming", "deleted"}]
  OBVIOUS
<1>3. created \in 0..MaxDrivers
  OBVIOUS
<1>4. App!TypeOK
  BY <1>1, <1>2, <1>3 DEF App!TypeOK
<1>5. App!CreatedInv
  BY DEF App!CreatedInv, App!None
<1>6. App!Streaming = {}
  BY DEF App!Streaming
<1> QED
  BY <1>4, <1>5, <1>6 DEF App!IndInv

\* The driver that is about to be created is none of those that were.
LEMMA NewDriver ==
  ASSUME NEW c \in 0..MaxDrivers, c < MaxDrivers
  PROVE  /\ c + 1 \in App!Drivers /\ c + 1 \in 0..MaxDrivers /\ c + 1 > c
         /\ c + 1 # App!None
         /\ \A d \in App!Drivers : d > c + 1 => d > c
  BY BoundsAssumption DEF App!Drivers, App!None

LEMMA AppStep ==
  ASSUME App!IndInv, App!Next
  PROVE  App!IndInv'
<1>a. App!TypeOK /\ App!CreatedInv
  BY DEF App!IndInv
<1>b. \A d, e \in App!Streaming : d = e
  BY DEF App!IndInv
<1>c. driver # App!None => drivers[driver] \in {"idle", "streaming"}
  BY DEF App!IndInv
<1>d. \A d \in App!Streaming : injector # App!None => injector <= d
  BY DEF App!IndInv
<1>e. created \in Nat /\ driver \in Nat /\ injector \in Nat /\ driver <= created
      /\ injector <= created
  <2>1. driver \in (1..MaxDrivers) \cup {0} /\ injector \in (1..MaxDrivers) \cup {0}
        /\ created \in 0..MaxDrivers
    BY <1>a DEF App!TypeOK, App!Drivers, App!None
  <2> QED
    BY <1>a, <2>1, BoundsAssumption DEF App!CreatedInv
<1>1. CASE App!PlugOrUnplug
  BY <1>a, <1>b, <1>c, <1>d, <1>1 DEF App!PlugOrUnplug, App!IndInv, App!TypeOK,
     App!CreatedInv, App!Streaming
<1>2. CASE App!Bind
  BY <1>a, <1>b, <1>c, <1>d, <1>2 DEF App!Bind, App!IndInv, App!TypeOK, App!CreatedInv,
     App!Streaming
<1>3. CASE App!ServiceConnected
  <2> DEFINE new == created + 1
  <2>1. created \in 0..MaxDrivers /\ created < MaxDrivers
    BY <1>a, <1>3 DEF App!TypeOK, App!CreatedInv, App!ServiceConnected
  <2>2. /\ new \in App!Drivers /\ new \in 0..MaxDrivers /\ new > created
        /\ new # App!None /\ \A d \in App!Drivers : d > new => d > created
    BY <2>1, NewDriver
  <2> HIDE DEF new
  <2>3. /\ created' = new /\ driver' = new /\ injector' = injector /\ binding' = "yes"
        /\ plugged' = plugged /\ touched' = touched /\ mBound' = TRUE
        /\ status' = "Service is running"
        /\ \E s \in {"streaming", "idle"} :
              drivers' = [drivers EXCEPT ![new] = s] /\ (s = "streaming" => App!Streaming = {})
    BY <1>3 DEF App!ServiceConnected, App!DeviceOpens, new
  <2>4. PICK s \in {"streaming", "idle"} :
          drivers' = [drivers EXCEPT ![new] = s] /\ (s = "streaming" => App!Streaming = {})
    BY <2>3
  <2>5. App!TypeOK'
    BY <1>a, <2>2, <2>3, <2>4 DEF App!TypeOK
  <2>6. App!CreatedInv'
    <3>1. driver' <= created' /\ injector' <= created'
      <4>1. created' = created + 1 /\ driver' = created + 1 /\ injector' = injector
        BY <2>3 DEF new
      <4> QED
        BY <1>e, <4>1
    <3>2. \A d \in App!Drivers : d > new => drivers'[d] = "none"
      <4>1. \A d \in App!Drivers : d > new => d # new
        BY DEF App!Drivers
      <4> QED
        BY <1>a, <2>2, <2>4, <4>1 DEF App!TypeOK, App!CreatedInv
    <3> QED
      BY <2>3, <3>1, <3>2 DEF App!CreatedInv
  <2>7. App!Streaming' = IF s = "streaming" THEN {new} ELSE App!Streaming
    <3>1. drivers[new] = "none"
      BY <1>a, <2>2 DEF App!CreatedInv
    <3> QED
      BY <1>a, <2>2, <2>4, <3>1 DEF App!TypeOK, App!Streaming
  <2>8. \A d, e \in App!Streaming' : d = e
    BY <1>b, <2>4, <2>7
  <2>9. driver' # App!None => drivers'[driver'] \in {"idle", "streaming"}
    BY <1>a, <2>2, <2>3, <2>4 DEF App!TypeOK
  <2>10. \A d \in App!Streaming' : injector' # App!None => injector' <= d
    BY <1>d, <2>3, <2>6, <2>7 DEF App!CreatedInv
  <2> QED
    BY <2>5, <2>6, <2>8, <2>9, <2>10 DEF App!IndInv, App!None
<1>4. CASE App!InitThrows
  BY <1>a, <1>b, <1>c, <1>d, <1>4 DEF App!InitThrows, App!IndInv, App!TypeOK,
     App!CreatedInv, App!Streaming
<1>5. CASE App!ServiceDisconnected
  <2>1. App!TypeOK'
    BY <1>a, <1>5 DEF App!ServiceDisconnected, App!TypeOK
  <2>2. App!CreatedInv'
    <3>1. driver' <= created' /\ (binding' = "asked" => created' < MaxDrivers)
      <4>1. driver' = 0 /\ created' = created /\ created < MaxDrivers
        BY <1>5 DEF App!ServiceDisconnected, App!None
      <4> QED
        BY <1>e, <4>1
    <3>2. \A d \in App!Drivers : d > created => d # driver
      BY <1>e DEF App!Drivers
    <3> QED
      BY <1>a, <1>5, <3>1, <3>2 DEF App!ServiceDisconnected, App!TypeOK, App!CreatedInv
  <2>3. App!Streaming' \subseteq App!Streaming /\ driver' = App!None /\ injector' = injector
    BY <1>a, <1>5 DEF App!ServiceDisconnected, App!TypeOK, App!Streaming
  <2> QED
    BY <1>b, <1>d, <2>1, <2>2, <2>3 DEF App!IndInv, App!None
<1>6. CASE App!Unbind
  BY <1>a, <1>b, <1>c, <1>d, <1>6 DEF App!Unbind, App!IndInv, App!TypeOK, App!CreatedInv,
     App!Streaming
<1>7. CASE \E d \in App!Drivers : App!VirtualROIUpdated(d) \/ App!SendEvent(d)
  <2>1. PICK d \in App!Drivers : App!VirtualROIUpdated(d) \/ App!SendEvent(d)
    BY <1>7
  <2>2. CASE App!VirtualROIUpdated(d)
    <3> USE <2>2 DEF App!VirtualROIUpdated
    <3>1. App!Streaming' = App!Streaming /\ App!Streaming = {d} /\ d \in App!Drivers
      BY <1>b DEF App!Streaming
    <3>2. d <= created
      <4>1. ~(d > created)
        BY <1>a, <3>1 DEF App!CreatedInv, App!Streaming
      <4> QED
        BY <1>e, <3>1, <4>1 DEF App!Drivers
    <3>3. App!TypeOK' /\ App!CreatedInv'
      BY <1>a, <3>2, <2>1 DEF App!TypeOK, App!CreatedInv
    <3>4. \A e \in App!Streaming' : injector' <= e
      BY <3>1 DEF App!Drivers
    <3> QED
      BY <1>b, <1>c, <3>1, <3>3, <3>4 DEF App!IndInv, App!None
  <2>3. CASE App!SendEvent(d)
    BY <1>a, <1>b, <1>c, <1>d, <2>1, <2>3 DEF App!SendEvent, App!IndInv, App!TypeOK,
       App!CreatedInv, App!Streaming
  <2> QED
    BY <2>1, <2>2, <2>3
<1> QED
  BY <1>1, <1>2, <1>3, <1>4, <1>5, <1>6, <1>7 DEF App!Next

LEMMA AppStutter ==
  ASSUME App!IndInv, UNCHANGED appVars
  PROVE  App!IndInv'
  BY DEF App!IndInv, App!TypeOK, App!CreatedInv, App!Streaming, appVars

\* A set with no two members has at most one.
LEMMA AtMostOne ==
  ASSUME NEW S, \A d, e \in S : d = e
  PROVE  Cardinality(S) <= 1
<1>1. CASE S = {}
  BY <1>1, FS_EmptySet
<1>2. CASE S # {}
  <2>1. PICK d \in S : S = {d}
    BY <1>2
  <2>2. Cardinality(S) = 1
    BY <2>1, FS_Singleton
  <2> QED
    BY <2>2
<1> QED
  BY <1>1, <1>2

\* However often the activity binds and unbinds, and the Kinect is plugged in and out, at
\* most one of the drivers left behind streams, its touches go through its own region or
\* an older one, and the native pointer is to a live driver (stouchJNI.cpp:105, 126).
THEOREM AppSafe == Spec => []OneDriverStreams
<1> DEFINE I == part = "app" => App!IndInv
<1>1. Init => I
  BY AppInit DEF Init
<1>2. I /\ [Next]_all => I'
  <2> SUFFICES ASSUME I, [Next]_all, part' = "app" PROVE App!IndInv'
    OBVIOUS
  <2>1. part = "app"
    BY PartSteps
  <2>2. CASE App!Next
    BY <2>1, <2>2, AppStep
  <2>3. CASE UNCHANGED appVars
    BY <2>1, <2>3, AppStutter
  <2> QED
    BY <2>1, <2>2, <2>3, PartSteps
<1>3. I => OneDriverStreams
  <2> SUFFICES ASSUME App!IndInv PROVE App!TypeOK /\ App!OneDriverStreams
    BY DEF OneDriverStreams
  <2>1. App!Cardinality(App!Streaming) <= 1
    <3>1. Cardinality(App!Streaming) <= 1
      BY AtMostOne DEF App!IndInv
    <3>2. App!Cardinality(App!Streaming) = Cardinality(App!Streaming)
      BY DEF App!Cardinality, Cardinality, App!IsFiniteSet, IsFiniteSet
    <3> QED
      BY <3>1, <3>2
  <2> QED
    BY <2>1 DEF App!IndInv, App!OneDriverStreams, App!None
<1> QED
  BY <1>1, <1>2, <1>3, PTL DEF Spec, Steps

-----------------------------------------------------------------------------
(* The conversion.  A recursive function along 0..n has the values that    *)
(* its equations say: a solution exists, and two solutions cannot differ   *)
(* at a least place.                                                       *)

\* A set of natural numbers has a least member.
LEMMA Least ==
  ASSUME NEW S, S \subseteq Nat, S # {}
  PROVE  \E i \in S : \A j \in S : i <= j
<1>1. PICK x \in S : \A y \in S : ~(<<y, x>> \in OpToRel(<, Nat))
  BY NatLessThanWellFounded, WFMin
<1>2. ASSUME NEW y \in S PROVE x <= y
  <2>1. x \in Nat /\ y \in Nat
    OBVIOUS
  <2>2. ~(y < x)
    BY <1>1, <2>1 DEF OpToRel
  <2> QED
    BY <2>1, <2>2
<1> QED
  BY <1>2

\* A recursion along a sequence has a solution.
Recurs(g, A, a, N, G) == g \in [0..N -> A] /\ g[0] = a /\ \A k \in 1..N : g[k] = G[<<g[k - 1], k>>]
LEMMA Recursion ==
  ASSUME NEW A, NEW a \in A, NEW N \in Nat, NEW G \in [A \X (1..N) -> A]
  PROVE  \E g : Recurs(g, A, a, N, G)
<1> DEFINE Solves(g, m) == Recurs(g, A, a, m, G)
           S == {m \in 0..N : ~\E g : Solves(g, m)}
<1>1. S = {}
  <2> SUFFICES ASSUME S # {} PROVE FALSE
    OBVIOUS
  <2>1. S \subseteq Nat
    OBVIOUS
  <2>2. PICK m \in S : \A j \in S : m <= j
    BY <2>1, Least
  <2>3. m \in 0..N /\ m \in Nat /\ ~\E g : Solves(g, m)
    OBVIOUS
  <2>4. m # 0
    <3>1. Solves([k \in 0..0 |-> a], 0)
      BY DEF Recurs
    <3> QED
      BY <2>3, <3>1
  <2>5. m - 1 \in 0..N /\ m - 1 \in Nat /\ m - 1 \notin S
    <3>1. m - 1 \in 0..N /\ m - 1 \in Nat /\ ~(m <= m - 1)
      BY <2>3, <2>4
    <3> HIDE DEF S
    <3> QED
      BY <2>2, <3>1
  <2>6. PICK g : Solves(g, m - 1)
    BY <2>5
  <2> DEFINE h == [k \in 0..m |-> IF k = m THEN G[<<g[m - 1], m>>] ELSE g[k]]
  <2>7. g[m - 1] \in A /\ m \in 1..N
    BY <2>3, <2>4, <2>5, <2>6 DEF Recurs
  <2>8. G[<<g[m - 1], m>>] \in A
    BY <2>7
  <2>9. \A k \in 0..m : k = m \/ k \in 0..(m - 1)
    BY <2>3
  <2>10. h \in [0..m -> A]
    BY <2>6, <2>8, <2>9 DEF Recurs
  <2>11. 0 \in 0..m /\ 0 # m /\ 0 \in 0..(m - 1)
    BY <2>3, <2>4, <2>5
  <2>12. h[0] = a
    BY <2>6, <2>11 DEF Recurs
  <2>13. ASSUME NEW k \in 1..m PROVE h[k] = G[<<h[k - 1], k>>]
    <3>1. k \in 0..m /\ k - 1 \in 0..m /\ k - 1 # m /\ (k = m \/ k \in 1..(m - 1))
      BY <2>3
    <3>2. h[k - 1] = g[k - 1]
      BY <3>1
    <3>3. CASE k = m
      BY <3>1, <3>2, <3>3
    <3>4. CASE k # m
      BY <2>6, <3>1, <3>2, <3>4 DEF Recurs
    <3> QED
      BY <3>3, <3>4
  <2>14. Solves(h, m)
    BY <2>10, <2>12, <2>13 DEF Recurs
  <2> QED
    BY <2>3, <2>14
<1>2. N \in 0..N
  OBVIOUS
<1>3. \E g : Solves(g, N)
  BY <1>1, <1>2
<1> QED
  BY <1>3

PackedFrame == [1..11 -> 0..255]

\* The value of eleven or fewer bits, bit by bit
LEMMA BitsOf ==
  ASSUME NEW src \in PackedFrame, NEW first \in Nat, NEW n \in Nat,
         \A i \in first..(first + n - 1) : Conversion!Bit(src, i) \in Nat
  PROVE  \E v \in [0..n -> Nat] :
           /\ v[0] = 0 /\ v[n] = Conversion!Bits(src, first, n)
           /\ \A j \in 1..n : v[j] = 2 * v[j - 1] + Conversion!Bit(src, first + j - 1)
<1> DEFINE B(i) == Conversion!Bit(src, i)
           f == CHOOSE h : h = [j \in 0..n |-> IF j = 0 THEN 0 ELSE 2 * h[j - 1] + B(first + j - 1)]
           G == [x \in Nat \X (1..n) |-> 2 * x[1] + B(first + x[2] - 1)]
<1>1. \A j \in 1..n : B(first + j - 1) \in Nat
  <2> TAKE j \in 1..n
  <2>1. first + j - 1 \in first..(first + n - 1)
    OBVIOUS
  <2> QED
    BY <2>1
<1>2. Conversion!Bits(src, first, n) = f[n]
  BY DEF Conversion!Bits
<1> HIDE DEF B
<1>3. G \in [Nat \X (1..n) -> Nat]
  <2>1. ASSUME NEW x \in Nat \X (1..n) PROVE 2 * x[1] + B(first + x[2] - 1) \in Nat
    <3>1. x[1] \in Nat /\ x[2] \in 1..n
      OBVIOUS
    <3>2. B(first + x[2] - 1) \in Nat
      BY <1>1, <3>1
    <3> DEFINE b == B(first + x[2] - 1)
    <3> HIDE DEF b
    <3>3. 2 * x[1] + b \in Nat
      BY <3>1, <3>2 DEF b
    <3> QED
      BY <3>3 DEF b
  <2> QED
    BY <2>1
<1>4. \A x \in Nat, j \in 1..n : G[<<x, j>>] = 2 * x + B(first + j - 1)
  OBVIOUS
<1> HIDE DEF G
<1>5. PICK g \in [0..n -> Nat] : g[0] = 0 /\ \A j \in 1..n : g[j] = G[<<g[j - 1], j>>]
  <2>1. 0 \in Nat
    OBVIOUS
  <2>2. \E g : Recurs(g, Nat, 0, n, G)
    BY <1>3, <2>1, Recursion
  <2> QED
    BY <2>2 DEF Recurs
<1>6. ASSUME NEW j \in 0..n PROVE g[j] = IF j = 0 THEN 0 ELSE 2 * g[j - 1] + B(first + j - 1)
  <2>1. CASE j = 0
    BY <1>5, <2>1
  <2>2. CASE j # 0
    <3>1. j \in 1..n /\ j - 1 \in 0..n
      BY <2>2
    <3> QED
      BY <1>4, <1>5, <2>2, <3>1
  <2> QED
    BY <2>1, <2>2
<1>7. g = [j \in 0..n |-> IF j = 0 THEN 0 ELSE 2 * g[j - 1] + B(first + j - 1)]
  BY <1>5, <1>6
<1>8. f = [j \in 0..n |-> IF j = 0 THEN 0 ELSE 2 * f[j - 1] + B(first + j - 1)]
  BY <1>7, Zenon
<1> HIDE DEF f
<1>9. \A j \in 0..n : f[j] = IF j = 0 THEN 0 ELSE 2 * f[j - 1] + B(first + j - 1)
  BY <1>8
<1>10. f[0] = 0 /\ \A j \in 1..n : f[j] = 2 * f[j - 1] + B(first + j - 1)
  <2>1. 0 \in 0..n /\ \A j \in 1..n : j \in 0..n /\ j # 0
    OBVIOUS
  <2> QED
    BY <1>9, <2>1
<1>11. \A j \in 0..n : f[j] \in Nat
  <2> DEFINE S == {j \in 0..n : f[j] \notin Nat}
  <2> SUFFICES ASSUME S # {} PROVE FALSE
    OBVIOUS
  <2>1. PICK j \in S : \A i \in S : j <= i
    <3>1. S \subseteq Nat
      OBVIOUS
    <3> QED
      BY <3>1, Least
  <2>2. j \in 0..n /\ j # 0
    BY <1>10
  <2>3. j \in 1..n /\ j - 1 \in 0..n /\ j - 1 \notin S
    <3>1. j \in 1..n /\ j - 1 \in 0..n /\ ~(j <= j - 1)
      BY <2>2
    <3> HIDE DEF S
    <3> QED
      BY <2>1, <3>1
  <2>4. f[j - 1] \in Nat
    BY <2>3
  <2>5. f[j] \in Nat
    <3> DEFINE b == B(first + j - 1)
    <3>1. b \in Nat /\ f[j] = 2 * f[j - 1] + b
      BY <1>1, <1>10, <2>3
    <3> HIDE DEF b
    <3> QED
      BY <2>4, <3>1
  <2> QED
    BY <2>5
<1>12. f \in [0..n -> Nat]
  BY <1>8, <1>11
<1> QED
  BY <1>2, <1>10, <1>12 DEF B

\* The bits of a byte
LEMMA BitAt ==
  ASSUME NEW src \in PackedFrame, NEW m \in 0..10, NEW t \in 0..7
  PROVE  /\ Conversion!Bit(src, 8 * m + t) = (src[m + 1] \div 2^(7 - t)) % 2
         /\ Conversion!Bit(src, 8 * m + t) \in 0..1
<1>1. (8 * m + t) \div 8 = m /\ (8 * m + t) % 8 = t
  OBVIOUS
<1>2. Conversion!Bit(src, 8 * m + t) = (src[m + 1] \div 2^(7 - t)) % 2
  BY <1>1 DEF Conversion!Bit
<1>3. src[m + 1] \in Nat
  <2>1. m + 1 \in 1..11
    OBVIOUS
  <2> QED
    BY <2>1, SMTT(30) DEF PackedFrame
<1>4. t = 0 \/ t = 1 \/ t = 2 \/ t = 3 \/ t = 4 \/ t = 5 \/ t = 6 \/ t = 7
  OBVIOUS
<1>5. 2^(7 - t) \in Nat \ {0}
  <2>1. CASE t = 0
    <3>1. 2^(7 - t) = 128
      BY <2>1
    <3> QED
      BY <3>1
  <2>2. CASE t = 1
    <3>1. 2^(7 - t) = 64
      BY <2>2
    <3> QED
      BY <3>1
  <2>3. CASE t = 2
    <3>1. 2^(7 - t) = 32
      BY <2>3
    <3> QED
      BY <3>1
  <2>4. CASE t = 3
    <3>1. 2^(7 - t) = 16
      BY <2>4
    <3> QED
      BY <3>1
  <2>5. CASE t = 4
    <3>1. 2^(7 - t) = 8
      BY <2>5
    <3> QED
      BY <3>1
  <2>6. CASE t = 5
    <3>1. 2^(7 - t) = 4
      BY <2>6
    <3> QED
      BY <3>1
  <2>7. CASE t = 6
    <3>1. 2^(7 - t) = 2
      BY <2>7
    <3> QED
      BY <3>1
  <2>8. CASE t = 7
    <3>1. 2^(7 - t) = 1
      BY <2>8
    <3> QED
      BY <3>1
  <2> QED
    BY <1>4, <2>1, <2>2, <2>3, <2>4, <2>5, <2>6, <2>7, <2>8
<1> DEFINE p == 2^(7 - t)
           s == src[m + 1]
<1> HIDE DEF p, s
<1>6. (s \div p) % 2 \in 0..1
  <2>1. s \div p \in Nat
    BY <1>3, <1>5 DEF p, s
  <2> QED
    BY <2>1
<1> QED
  BY <1>2, <1>6 DEF p, s

LEMMA BitIsBit ==
  ASSUME NEW src \in PackedFrame, NEW i \in 0..87
  PROVE  Conversion!Bit(src, i) \in 0..1
<1>1. i \div 8 \in 0..10 /\ i % 8 \in 0..7 /\ i = 8 * (i \div 8) + (i % 8)
  OBVIOUS
<1> QED
  BY <1>1, BitAt

LEMMA Bits8 ==
  ASSUME NEW src \in PackedFrame, NEW first \in Nat, first + 8 <= 88
  PROVE  Conversion!Bits(src, first, 8)
           = 128 * Conversion!Bit(src, first) + 64 * Conversion!Bit(src, first + 1)
             + 32 * Conversion!Bit(src, first + 2) + 16 * Conversion!Bit(src, first + 3)
             + 8 * Conversion!Bit(src, first + 4) + 4 * Conversion!Bit(src, first + 5)
             + 2 * Conversion!Bit(src, first + 6) + Conversion!Bit(src, first + 7)
<1> DEFINE B(j) == Conversion!Bit(src, first + j - 1)
<1>1. ASSUME NEW j \in 1..8 PROVE B(j) \in Nat
  BY BitIsBit
<1>2. PICK v \in [0..8 -> Nat] :
        /\ v[0] = 0 /\ v[8] = Conversion!Bits(src, first, 8)
        /\ \A j \in 1..8 : v[j] = 2 * v[j - 1] + B(j)
  <2> DEFINE n == 8
  <2>1. n \in Nat /\ \A i \in first..(first + n - 1) : Conversion!Bit(src, i) \in Nat
    <3>1. ASSUME NEW i \in first..(first + 8 - 1) PROVE Conversion!Bit(src, i) \in Nat
      BY BitIsBit
    <3> QED
      BY <3>1
  <2> HIDE DEF n
  <2>2. \E v \in [0..n -> Nat] :
          /\ v[0] = 0 /\ v[n] = Conversion!Bits(src, first, n)
          /\ \A j \in 1..n : v[j] = 2 * v[j - 1] + B(j)
    BY <2>1, BitsOf
  <2> QED
    BY <2>2 DEF n
<1>3. /\ v[1] = 2 * v[0] + B(1) /\ v[1] \in Nat
      /\ v[2] = 2 * v[1] + B(2) /\ v[2] \in Nat
      /\ v[3] = 2 * v[2] + B(3) /\ v[3] \in Nat
      /\ v[4] = 2 * v[3] + B(4) /\ v[4] \in Nat
      /\ v[5] = 2 * v[4] + B(5) /\ v[5] \in Nat
      /\ v[6] = 2 * v[5] + B(6) /\ v[6] \in Nat
      /\ v[7] = 2 * v[6] + B(7) /\ v[7] \in Nat
      /\ v[8] = 2 * v[7] + B(8) /\ v[8] \in Nat
  <2> HIDE DEF B
  <2> QED
    BY <1>2
<1>4. /\ B(1) = Conversion!Bit(src, first) /\ B(1) \in Nat
      /\ B(2) = Conversion!Bit(src, first + 1) /\ B(2) \in Nat
      /\ B(3) = Conversion!Bit(src, first + 2) /\ B(3) \in Nat
      /\ B(4) = Conversion!Bit(src, first + 3) /\ B(4) \in Nat
      /\ B(5) = Conversion!Bit(src, first + 4) /\ B(5) \in Nat
      /\ B(6) = Conversion!Bit(src, first + 5) /\ B(6) \in Nat
      /\ B(7) = Conversion!Bit(src, first + 6) /\ B(7) \in Nat
      /\ B(8) = Conversion!Bit(src, first + 7) /\ B(8) \in Nat
  BY <1>1
<1>5. v[0] = 0 /\ v[8] = Conversion!Bits(src, first, 8)
  BY <1>2
<1> HIDE DEF B
<1>6. v[4] = 8 * B(1) + 4 * B(2) + 2 * B(3) + B(4)
  BY <1>3, <1>4, <1>5
<1>7. v[8] = 16 * v[4] + 8 * B(5) + 4 * B(6) + 2 * B(7) + B(8)
  BY <1>3, <1>4, <1>5
<1>8. v[8] = 128 * B(1) + 64 * B(2) + 32 * B(3) + 16 * B(4) + 8 * B(5) + 4 * B(6) + 2 * B(7) + B(8)
  <2>1. v[4] \in Nat /\ v[8] \in Nat
    BY <1>3
  <2>2. /\ B(1) \in Nat
        /\ B(2) \in Nat
        /\ B(3) \in Nat
        /\ B(4) \in Nat
        /\ B(5) \in Nat
        /\ B(6) \in Nat
        /\ B(7) \in Nat
        /\ B(8) \in Nat
    BY <1>4
  <2> QED
    BY <2>1, <2>2, <1>6, <1>7
<1> QED
  BY <1>4, <1>5, <1>8

LEMMA Bits10 ==
  ASSUME NEW src \in PackedFrame, NEW first \in Nat, first + 10 <= 88
  PROVE  Conversion!Bits(src, first, 10)
           = 512 * Conversion!Bit(src, first) + 256 * Conversion!Bit(src, first + 1)
             + 128 * Conversion!Bit(src, first + 2) + 64 * Conversion!Bit(src, first + 3)
             + 32 * Conversion!Bit(src, first + 4) + 16 * Conversion!Bit(src, first + 5)
             + 8 * Conversion!Bit(src, first + 6) + 4 * Conversion!Bit(src, first + 7)
             + 2 * Conversion!Bit(src, first + 8) + Conversion!Bit(src, first + 9)
<1> DEFINE B(j) == Conversion!Bit(src, first + j - 1)
<1>1. ASSUME NEW j \in 1..10 PROVE B(j) \in Nat
  BY BitIsBit
<1>2. PICK v \in [0..10 -> Nat] :
        /\ v[0] = 0 /\ v[10] = Conversion!Bits(src, first, 10)
        /\ \A j \in 1..10 : v[j] = 2 * v[j - 1] + B(j)
  <2> DEFINE n == 10
  <2>1. n \in Nat /\ \A i \in first..(first + n - 1) : Conversion!Bit(src, i) \in Nat
    <3>1. ASSUME NEW i \in first..(first + 10 - 1) PROVE Conversion!Bit(src, i) \in Nat
      BY BitIsBit
    <3> QED
      BY <3>1
  <2> HIDE DEF n
  <2>2. \E v \in [0..n -> Nat] :
          /\ v[0] = 0 /\ v[n] = Conversion!Bits(src, first, n)
          /\ \A j \in 1..n : v[j] = 2 * v[j - 1] + B(j)
    BY <2>1, BitsOf
  <2> QED
    BY <2>2 DEF n
<1>3. /\ v[1] = 2 * v[0] + B(1) /\ v[1] \in Nat
      /\ v[2] = 2 * v[1] + B(2) /\ v[2] \in Nat
      /\ v[3] = 2 * v[2] + B(3) /\ v[3] \in Nat
      /\ v[4] = 2 * v[3] + B(4) /\ v[4] \in Nat
      /\ v[5] = 2 * v[4] + B(5) /\ v[5] \in Nat
      /\ v[6] = 2 * v[5] + B(6) /\ v[6] \in Nat
      /\ v[7] = 2 * v[6] + B(7) /\ v[7] \in Nat
      /\ v[8] = 2 * v[7] + B(8) /\ v[8] \in Nat
      /\ v[9] = 2 * v[8] + B(9) /\ v[9] \in Nat
      /\ v[10] = 2 * v[9] + B(10) /\ v[10] \in Nat
  <2> HIDE DEF B
  <2> QED
    BY <1>2
<1>4. /\ B(1) = Conversion!Bit(src, first) /\ B(1) \in Nat
      /\ B(2) = Conversion!Bit(src, first + 1) /\ B(2) \in Nat
      /\ B(3) = Conversion!Bit(src, first + 2) /\ B(3) \in Nat
      /\ B(4) = Conversion!Bit(src, first + 3) /\ B(4) \in Nat
      /\ B(5) = Conversion!Bit(src, first + 4) /\ B(5) \in Nat
      /\ B(6) = Conversion!Bit(src, first + 5) /\ B(6) \in Nat
      /\ B(7) = Conversion!Bit(src, first + 6) /\ B(7) \in Nat
      /\ B(8) = Conversion!Bit(src, first + 7) /\ B(8) \in Nat
      /\ B(9) = Conversion!Bit(src, first + 8) /\ B(9) \in Nat
      /\ B(10) = Conversion!Bit(src, first + 9) /\ B(10) \in Nat
  BY <1>1
<1>5. v[0] = 0 /\ v[10] = Conversion!Bits(src, first, 10)
  BY <1>2
<1> HIDE DEF B
<1>6. v[4] = 8 * B(1) + 4 * B(2) + 2 * B(3) + B(4)
  BY <1>3, <1>4, <1>5
<1>7. v[8] = 16 * v[4] + 8 * B(5) + 4 * B(6) + 2 * B(7) + B(8)
  BY <1>3, <1>4, <1>5
<1>8. v[10] = 4 * v[8] + 2 * B(9) + B(10)
  BY <1>3, <1>4, <1>5
<1>9. v[10] = 512 * B(1) + 256 * B(2) + 128 * B(3) + 64 * B(4) + 32 * B(5) + 16 * B(6) + 8 * B(7) + 4 * B(8) + 2 * B(9) + B(10)
  <2>1. v[4] \in Nat /\ v[8] \in Nat
    BY <1>3
  <2>2. /\ B(1) \in Nat
        /\ B(2) \in Nat
        /\ B(3) \in Nat
        /\ B(4) \in Nat
        /\ B(5) \in Nat
        /\ B(6) \in Nat
        /\ B(7) \in Nat
        /\ B(8) \in Nat
        /\ B(9) \in Nat
        /\ B(10) \in Nat
    BY <1>4
  <2> QED
    BY <2>1, <2>2, <1>6, <1>7, <1>8
<1> QED
  BY <1>4, <1>5, <1>9

LEMMA Bits11 ==
  ASSUME NEW src \in PackedFrame, NEW first \in Nat, first + 11 <= 88
  PROVE  Conversion!Bits(src, first, 11)
           = 1024 * Conversion!Bit(src, first) + 512 * Conversion!Bit(src, first + 1)
             + 256 * Conversion!Bit(src, first + 2) + 128 * Conversion!Bit(src, first + 3)
             + 64 * Conversion!Bit(src, first + 4) + 32 * Conversion!Bit(src, first + 5)
             + 16 * Conversion!Bit(src, first + 6) + 8 * Conversion!Bit(src, first + 7)
             + 4 * Conversion!Bit(src, first + 8) + 2 * Conversion!Bit(src, first + 9)
             + Conversion!Bit(src, first + 10)
<1> DEFINE B(j) == Conversion!Bit(src, first + j - 1)
<1>1. ASSUME NEW j \in 1..11 PROVE B(j) \in Nat
  BY BitIsBit
<1>2. PICK v \in [0..11 -> Nat] :
        /\ v[0] = 0 /\ v[11] = Conversion!Bits(src, first, 11)
        /\ \A j \in 1..11 : v[j] = 2 * v[j - 1] + B(j)
  <2> DEFINE n == 11
  <2>1. n \in Nat /\ \A i \in first..(first + n - 1) : Conversion!Bit(src, i) \in Nat
    <3>1. ASSUME NEW i \in first..(first + 11 - 1) PROVE Conversion!Bit(src, i) \in Nat
      BY BitIsBit
    <3> QED
      BY <3>1
  <2> HIDE DEF n
  <2>2. \E v \in [0..n -> Nat] :
          /\ v[0] = 0 /\ v[n] = Conversion!Bits(src, first, n)
          /\ \A j \in 1..n : v[j] = 2 * v[j - 1] + B(j)
    BY <2>1, BitsOf
  <2> QED
    BY <2>2 DEF n
<1>3. /\ v[1] = 2 * v[0] + B(1) /\ v[1] \in Nat
      /\ v[2] = 2 * v[1] + B(2) /\ v[2] \in Nat
      /\ v[3] = 2 * v[2] + B(3) /\ v[3] \in Nat
      /\ v[4] = 2 * v[3] + B(4) /\ v[4] \in Nat
      /\ v[5] = 2 * v[4] + B(5) /\ v[5] \in Nat
      /\ v[6] = 2 * v[5] + B(6) /\ v[6] \in Nat
      /\ v[7] = 2 * v[6] + B(7) /\ v[7] \in Nat
      /\ v[8] = 2 * v[7] + B(8) /\ v[8] \in Nat
      /\ v[9] = 2 * v[8] + B(9) /\ v[9] \in Nat
      /\ v[10] = 2 * v[9] + B(10) /\ v[10] \in Nat
      /\ v[11] = 2 * v[10] + B(11) /\ v[11] \in Nat
  <2> HIDE DEF B
  <2> QED
    BY <1>2
<1>4. /\ B(1) = Conversion!Bit(src, first) /\ B(1) \in Nat
      /\ B(2) = Conversion!Bit(src, first + 1) /\ B(2) \in Nat
      /\ B(3) = Conversion!Bit(src, first + 2) /\ B(3) \in Nat
      /\ B(4) = Conversion!Bit(src, first + 3) /\ B(4) \in Nat
      /\ B(5) = Conversion!Bit(src, first + 4) /\ B(5) \in Nat
      /\ B(6) = Conversion!Bit(src, first + 5) /\ B(6) \in Nat
      /\ B(7) = Conversion!Bit(src, first + 6) /\ B(7) \in Nat
      /\ B(8) = Conversion!Bit(src, first + 7) /\ B(8) \in Nat
      /\ B(9) = Conversion!Bit(src, first + 8) /\ B(9) \in Nat
      /\ B(10) = Conversion!Bit(src, first + 9) /\ B(10) \in Nat
      /\ B(11) = Conversion!Bit(src, first + 10) /\ B(11) \in Nat
  BY <1>1
<1>5. v[0] = 0 /\ v[11] = Conversion!Bits(src, first, 11)
  BY <1>2
<1> HIDE DEF B
<1>6. v[4] = 8 * B(1) + 4 * B(2) + 2 * B(3) + B(4)
  BY <1>3, <1>4, <1>5
<1>7. v[8] = 16 * v[4] + 8 * B(5) + 4 * B(6) + 2 * B(7) + B(8)
  BY <1>3, <1>4, <1>5
<1>8. v[11] = 8 * v[8] + 4 * B(9) + 2 * B(10) + B(11)
  BY <1>3, <1>4, <1>5
<1>9. v[11] = 1024 * B(1) + 512 * B(2) + 256 * B(3) + 128 * B(4) + 64 * B(5) + 32 * B(6) + 16 * B(7) + 8 * B(8) + 4 * B(9) + 2 * B(10) + B(11)
  <2>1. v[4] \in Nat /\ v[8] \in Nat
    BY <1>3
  <2>2. /\ B(1) \in Nat
        /\ B(2) \in Nat
        /\ B(3) \in Nat
        /\ B(4) \in Nat
        /\ B(5) \in Nat
        /\ B(6) \in Nat
        /\ B(7) \in Nat
        /\ B(8) \in Nat
        /\ B(9) \in Nat
        /\ B(10) \in Nat
        /\ B(11) \in Nat
    BY <1>4
  <2> QED
    BY <2>1, <2>2, <1>6, <1>7, <1>8
<1> QED
  BY <1>4, <1>5, <1>9

LEMMA ByteBits ==
  ASSUME NEW src \in PackedFrame, NEW m \in 0..10
  PROVE  LET s == src[m + 1] IN
         /\ s \in 0..255
         /\ Conversion!Bit(src, 8 * m) = s \div 128
         /\ Conversion!Bit(src, 8 * m + 1) = (s \div 64) % 2
         /\ Conversion!Bit(src, 8 * m + 2) = (s \div 32) % 2
         /\ Conversion!Bit(src, 8 * m + 3) = (s \div 16) % 2
         /\ Conversion!Bit(src, 8 * m + 4) = (s \div 8) % 2
         /\ Conversion!Bit(src, 8 * m + 5) = (s \div 4) % 2
         /\ Conversion!Bit(src, 8 * m + 6) = (s \div 2) % 2
         /\ Conversion!Bit(src, 8 * m + 7) = s % 2
<1> DEFINE s == src[m + 1]
<1>1. s \in 0..255
  <2>1. m + 1 \in 1..11
    OBVIOUS
  <2> QED
    BY <2>1 DEF PackedFrame
<1>2. ASSUME NEW t \in 0..7 PROVE Conversion!Bit(src, 8 * m + t) = (s \div 2^(7 - t)) % 2
  BY BitAt
<1> HIDE DEF s
<1>3. Conversion!Bit(src, 8 * m) = s \div 128
  <2>1. 8 * m + 0 = 8 * m /\ 2^(7 - 0) = 128 /\ (s \div 128) % 2 = s \div 128
    BY <1>1
  <2> QED
    BY <1>2, <2>1
<1>4. Conversion!Bit(src, 8 * m + 1) = (s \div 64) % 2
  <2>1. 2^(7 - 1) = 64
    OBVIOUS
  <2> QED
    BY <1>2, <2>1
<1>5. Conversion!Bit(src, 8 * m + 2) = (s \div 32) % 2
  <2>1. 2^(7 - 2) = 32
    OBVIOUS
  <2> QED
    BY <1>2, <2>1
<1>6. Conversion!Bit(src, 8 * m + 3) = (s \div 16) % 2
  <2>1. 2^(7 - 3) = 16
    OBVIOUS
  <2> QED
    BY <1>2, <2>1
<1>7. Conversion!Bit(src, 8 * m + 4) = (s \div 8) % 2
  <2>1. 2^(7 - 4) = 8
    OBVIOUS
  <2> QED
    BY <1>2, <2>1
<1>8. Conversion!Bit(src, 8 * m + 5) = (s \div 4) % 2
  <2>1. 2^(7 - 5) = 4
    OBVIOUS
  <2> QED
    BY <1>2, <2>1
<1>9. Conversion!Bit(src, 8 * m + 6) = (s \div 2) % 2
  <2>1. 2^(7 - 6) = 2
    OBVIOUS
  <2> QED
    BY <1>2, <2>1
<1>10. Conversion!Bit(src, 8 * m + 7) = s % 2
  <2>1. 2^(7 - 7) = 1 /\ s \div 1 = s
    BY <1>1
  <2> QED
    BY <1>2, <2>1
<1> QED
  BY <1>1, <1>3, <1>4, <1>5, <1>6, <1>7, <1>8, <1>9, <1>10 DEF s

\* The upper and the lower bits of a byte
LEMMA ByteSums ==
  ASSUME NEW src \in PackedFrame, NEW m \in 0..10
  PROVE  LET s == src[m + 1]
             b(t) == Conversion!Bit(src, 8 * m + t) IN
         /\ s \in 0..255
         /\ \A t \in 0..7 : b(t) \in 0..1
         /\ b(0) = s \div 128
         /\ 2 * b(0) + b(1) = s \div 64
         /\ 4 * b(0) + 2 * b(1) + b(2) = s \div 32
         /\ 8 * b(0) + 4 * b(1) + 2 * b(2) + b(3) = s \div 16
         /\ 16 * b(0) + 8 * b(1) + 4 * b(2) + 2 * b(3) + b(4) = s \div 8
         /\ 32 * b(0) + 16 * b(1) + 8 * b(2) + 4 * b(3) + 2 * b(4) + b(5) = s \div 4
         /\ 64 * b(0) + 32 * b(1) + 16 * b(2) + 8 * b(3) + 4 * b(4) + 2 * b(5) + b(6) = s \div 2
         /\ 128 * b(0) + 64 * b(1) + 32 * b(2) + 16 * b(3) + 8 * b(4) + 4 * b(5) + 2 * b(6) + b(7) = s
         /\ 64 * b(1) + 32 * b(2) + 16 * b(3) + 8 * b(4) + 4 * b(5) + 2 * b(6) + b(7) = s % 128
         /\ 32 * b(2) + 16 * b(3) + 8 * b(4) + 4 * b(5) + 2 * b(6) + b(7) = s % 64
         /\ 16 * b(3) + 8 * b(4) + 4 * b(5) + 2 * b(6) + b(7) = s % 32
         /\ 8 * b(4) + 4 * b(5) + 2 * b(6) + b(7) = s % 16
         /\ 4 * b(5) + 2 * b(6) + b(7) = s % 8
         /\ 2 * b(6) + b(7) = s % 4
         /\ b(7) = s % 2
<1> DEFINE s == src[m + 1]
           b(t) == Conversion!Bit(src, 8 * m + t)
<1>1. /\ s \in 0..255
      /\ b(0) = s \div 128
      /\ b(1) = (s \div 64) % 2
      /\ b(2) = (s \div 32) % 2
      /\ b(3) = (s \div 16) % 2
      /\ b(4) = (s \div 8) % 2
      /\ b(5) = (s \div 4) % 2
      /\ b(6) = (s \div 2) % 2
      /\ b(7) = s % 2
  <2>1. 8 * m + 0 = 8 * m
    OBVIOUS
  <2> QED
    BY <2>1, ByteBits
<1>2. \A t \in 0..7 : b(t) \in 0..1
  BY BitAt
<1> HIDE DEF s
<1>3. /\ s \div 64 = 2 * (s \div 128) + b(1)
      /\ s \div 32 = 2 * (s \div 64) + b(2)
      /\ s \div 16 = 2 * (s \div 32) + b(3)
      /\ s \div 8 = 2 * (s \div 16) + b(4)
      /\ s \div 4 = 2 * (s \div 8) + b(5)
      /\ s \div 2 = 2 * (s \div 4) + b(6)
      /\ s = 2 * (s \div 2) + b(7)
  <2>1. s \div 64 = 2 * (s \div 128) + b(1)
    BY <1>1
  <2>2. s \div 32 = 2 * (s \div 64) + b(2)
    BY <1>1
  <2>3. s \div 16 = 2 * (s \div 32) + b(3)
    BY <1>1
  <2>4. s \div 8 = 2 * (s \div 16) + b(4)
    BY <1>1
  <2>5. s \div 4 = 2 * (s \div 8) + b(5)
    BY <1>1
  <2>6. s \div 2 = 2 * (s \div 4) + b(6)
    BY <1>1
  <2>7. s = 2 * (s \div 2) + b(7)
    BY <1>1
  <2> QED
    BY <2>1, <2>2, <2>3, <2>4, <2>5, <2>6, <2>7
<1>4. /\ s % 128 = s - 128 * (s \div 128) /\ s \div 128 \in Int
      /\ s % 64 = s - 64 * (s \div 64) /\ s \div 64 \in Int
      /\ s % 32 = s - 32 * (s \div 32) /\ s \div 32 \in Int
      /\ s % 16 = s - 16 * (s \div 16) /\ s \div 16 \in Int
      /\ s % 8 = s - 8 * (s \div 8) /\ s \div 8 \in Int
      /\ s % 4 = s - 4 * (s \div 4) /\ s \div 4 \in Int
      /\ s % 2 = s - 2 * (s \div 2) /\ s \div 2 \in Int
  <2>1. s % 128 = s - 128 * (s \div 128) /\ s \div 128 \in Int
    BY <1>1
  <2>2. s % 64 = s - 64 * (s \div 64) /\ s \div 64 \in Int
    BY <1>1
  <2>3. s % 32 = s - 32 * (s \div 32) /\ s \div 32 \in Int
    BY <1>1
  <2>4. s % 16 = s - 16 * (s \div 16) /\ s \div 16 \in Int
    BY <1>1
  <2>5. s % 8 = s - 8 * (s \div 8) /\ s \div 8 \in Int
    BY <1>1
  <2>6. s % 4 = s - 4 * (s \div 4) /\ s \div 4 \in Int
    BY <1>1
  <2>7. s % 2 = s - 2 * (s \div 2) /\ s \div 2 \in Int
    BY <1>1
  <2> QED
    BY <2>1, <2>2, <2>3, <2>4, <2>5, <2>6, <2>7
<1> DEFINE h1 == s \div 128
           h2 == s \div 64
           h3 == s \div 32
           h4 == s \div 16
           h5 == s \div 8
           h6 == s \div 4
           h7 == s \div 2
           l1 == s % 128
           l2 == s % 64
           l3 == s % 32
           l4 == s % 16
           l5 == s % 8
           l6 == s % 4
           l7 == s % 2
<1>5. /\ h1 = b(0)
      /\ h2 = 2 * h1 + b(1)
      /\ h3 = 2 * h2 + b(2)
      /\ h4 = 2 * h3 + b(3)
      /\ h5 = 2 * h4 + b(4)
      /\ h6 = 2 * h5 + b(5)
      /\ h7 = 2 * h6 + b(6)
      /\ s = 2 * h7 + b(7)
      /\ l1 = s - 128 * h1 /\ h1 \in Int
      /\ l2 = s - 64 * h2 /\ h2 \in Int
      /\ l3 = s - 32 * h3 /\ h3 \in Int
      /\ l4 = s - 16 * h4 /\ h4 \in Int
      /\ l5 = s - 8 * h5 /\ h5 \in Int
      /\ l6 = s - 4 * h6 /\ h6 \in Int
      /\ l7 = s - 2 * h7 /\ h7 \in Int
  BY <1>1, <1>3, <1>4
<1>6. b(0) \in Int /\ b(1) \in Int /\ b(2) \in Int /\ b(3) \in Int /\ b(4) \in Int /\ b(5) \in Int /\ b(6) \in Int /\ b(7) \in Int
  BY <1>2
<1> HIDE DEF b, h1, l1, h2, l2, h3, l3, h4, l4, h5, l5, h6, l6, h7, l7
<1>7. /\ b(0) = h1
      /\ 2 * b(0) + b(1) = h2
      /\ 4 * b(0) + 2 * b(1) + b(2) = h3
      /\ 8 * b(0) + 4 * b(1) + 2 * b(2) + b(3) = h4
      /\ 16 * b(0) + 8 * b(1) + 4 * b(2) + 2 * b(3) + b(4) = h5
      /\ 32 * b(0) + 16 * b(1) + 8 * b(2) + 4 * b(3) + 2 * b(4) + b(5) = h6
      /\ 64 * b(0) + 32 * b(1) + 16 * b(2) + 8 * b(3) + 4 * b(4) + 2 * b(5) + b(6) = h7
      /\ 128 * b(0) + 64 * b(1) + 32 * b(2) + 16 * b(3) + 8 * b(4) + 4 * b(5) + 2 * b(6) + b(7) = s
  <2>1. b(0) = h1
    BY <1>5, <1>6
  <2>2. 2 * b(0) + b(1) = h2
    BY <1>5, <1>6, <2>1
  <2>3. 4 * b(0) + 2 * b(1) + b(2) = h3
    BY <1>5, <1>6, <2>2
  <2>4. 8 * b(0) + 4 * b(1) + 2 * b(2) + b(3) = h4
    BY <1>5, <1>6, <2>3
  <2>5. 16 * b(0) + 8 * b(1) + 4 * b(2) + 2 * b(3) + b(4) = h5
    BY <1>5, <1>6, <2>4
  <2>6. 32 * b(0) + 16 * b(1) + 8 * b(2) + 4 * b(3) + 2 * b(4) + b(5) = h6
    BY <1>5, <1>6, <2>5
  <2>7. 64 * b(0) + 32 * b(1) + 16 * b(2) + 8 * b(3) + 4 * b(4) + 2 * b(5) + b(6) = h7
    BY <1>5, <1>6, <2>6
  <2>8. 128 * b(0) + 64 * b(1) + 32 * b(2) + 16 * b(3) + 8 * b(4) + 4 * b(5) + 2 * b(6) + b(7) = s
    BY <1>5, <1>6, <2>7
  <2> QED
    BY <2>1, <2>2, <2>3, <2>4, <2>5, <2>6, <2>7, <2>8
<1>8. /\ 64 * b(1) + 32 * b(2) + 16 * b(3) + 8 * b(4) + 4 * b(5) + 2 * b(6) + b(7) = l1
      /\ 32 * b(2) + 16 * b(3) + 8 * b(4) + 4 * b(5) + 2 * b(6) + b(7) = l2
      /\ 16 * b(3) + 8 * b(4) + 4 * b(5) + 2 * b(6) + b(7) = l3
      /\ 8 * b(4) + 4 * b(5) + 2 * b(6) + b(7) = l4
      /\ 4 * b(5) + 2 * b(6) + b(7) = l5
      /\ 2 * b(6) + b(7) = l6
      /\ b(7) = l7
  <2>1. 64 * b(1) + 32 * b(2) + 16 * b(3) + 8 * b(4) + 4 * b(5) + 2 * b(6) + b(7) = l1
    <3>1. l1 = s - 128 * h1
      BY <1>5
    <3>2. h1 = b(0) /\ s = 128 * b(0) + 64 * b(1) + 32 * b(2) + 16 * b(3) + 8 * b(4) + 4 * b(5) + 2 * b(6) + b(7)
      BY <1>7
    <3> QED
      BY <1>6, <3>1, <3>2
  <2>2. 32 * b(2) + 16 * b(3) + 8 * b(4) + 4 * b(5) + 2 * b(6) + b(7) = l2
    <3>1. l2 = s - 64 * h2
      BY <1>5
    <3>2. h2 = 2 * b(0) + b(1) /\ s = 128 * b(0) + 64 * b(1) + 32 * b(2) + 16 * b(3) + 8 * b(4) + 4 * b(5) + 2 * b(6) + b(7)
      BY <1>7
    <3> QED
      BY <1>6, <3>1, <3>2
  <2>3. 16 * b(3) + 8 * b(4) + 4 * b(5) + 2 * b(6) + b(7) = l3
    <3>1. l3 = s - 32 * h3
      BY <1>5
    <3>2. h3 = 4 * b(0) + 2 * b(1) + b(2) /\ s = 128 * b(0) + 64 * b(1) + 32 * b(2) + 16 * b(3) + 8 * b(4) + 4 * b(5) + 2 * b(6) + b(7)
      BY <1>7
    <3> QED
      BY <1>6, <3>1, <3>2
  <2>4. 8 * b(4) + 4 * b(5) + 2 * b(6) + b(7) = l4
    <3>1. l4 = s - 16 * h4
      BY <1>5
    <3>2. h4 = 8 * b(0) + 4 * b(1) + 2 * b(2) + b(3) /\ s = 128 * b(0) + 64 * b(1) + 32 * b(2) + 16 * b(3) + 8 * b(4) + 4 * b(5) + 2 * b(6) + b(7)
      BY <1>7
    <3> QED
      BY <1>6, <3>1, <3>2
  <2>5. 4 * b(5) + 2 * b(6) + b(7) = l5
    <3>1. l5 = s - 8 * h5
      BY <1>5
    <3>2. h5 = 16 * b(0) + 8 * b(1) + 4 * b(2) + 2 * b(3) + b(4) /\ s = 128 * b(0) + 64 * b(1) + 32 * b(2) + 16 * b(3) + 8 * b(4) + 4 * b(5) + 2 * b(6) + b(7)
      BY <1>7
    <3> QED
      BY <1>6, <3>1, <3>2
  <2>6. 2 * b(6) + b(7) = l6
    <3>1. l6 = s - 4 * h6
      BY <1>5
    <3>2. h6 = 32 * b(0) + 16 * b(1) + 8 * b(2) + 4 * b(3) + 2 * b(4) + b(5) /\ s = 128 * b(0) + 64 * b(1) + 32 * b(2) + 16 * b(3) + 8 * b(4) + 4 * b(5) + 2 * b(6) + b(7)
      BY <1>7
    <3> QED
      BY <1>6, <3>1, <3>2
  <2>7. b(7) = l7
    <3>1. l7 = s - 2 * h7
      BY <1>5
    <3>2. h7 = 64 * b(0) + 32 * b(1) + 16 * b(2) + 8 * b(3) + 4 * b(4) + 2 * b(5) + b(6) /\ s = 128 * b(0) + 64 * b(1) + 32 * b(2) + 16 * b(3) + 8 * b(4) + 4 * b(5) + 2 * b(6) + b(7)
      BY <1>7
    <3> QED
      BY <1>6, <3>1, <3>2
  <2> QED
    BY <2>1, <2>2, <2>3, <2>4, <2>5, <2>6, <2>7
<1> QED
  BY <1>1, <1>2, <1>7, <1>8 DEF s, b, h1, l1, h2, l2, h3, l3, h4, l4, h5, l5, h6, l6, h7, l7

\* unpack_8_pixels: eleven bits each
LEMMA ElevenBits ==
  ASSUME NEW r \in PackedFrame
  PROVE  \A k \in 1..8 : Conversion!Unpack8Pixels(r)[k] = Conversion!Bits(r, 11 * (k - 1), 11)
<1> DEFINE B(i) == Conversion!Bit(r, i)
<1>1. Conversion!Bits(r, 0, 11) = r[1] * 8 + r[2] \div 32
  <2>1. Conversion!Bits(r, 0, 11)
          = 1024 * B(0) + 512 * B(1) + 256 * B(2) + 128 * B(3)
            + 64 * B(4) + 32 * B(5) + 16 * B(6) + 8 * B(7)
            + 4 * B(8) + 2 * B(9) + B(10)
    BY Bits11
  <2> DEFINE x == r[1]
             y == r[2]
  <2>2. 128 * B(0) + 64 * B(1) + 32 * B(2) + 16 * B(3) + 8 * B(4) + 4 * B(5) + 2 * B(6) + B(7) = x /\ x \in 0..255
    <3>1. 0 \in 0..10
      OBVIOUS
    <3> QED
      BY <3>1, ByteSums
  <2>3. 4 * B(8) + 2 * B(9) + B(10) = y \div 32 /\ y \in 0..255
    <3>1. 1 \in 0..10
      OBVIOUS
    <3> QED
      BY <3>1, ByteSums
  <2>4. /\ B(0) \in Int /\ B(1) \in Int /\ B(2) \in Int /\ B(3) \in Int
        /\ B(4) \in Int /\ B(5) \in Int /\ B(6) \in Int /\ B(7) \in Int
        /\ B(8) \in Int /\ B(9) \in Int /\ B(10) \in Int
    BY BitIsBit
  <2> HIDE DEF B, x, y
  <2>5. Conversion!Bits(r, 0, 11) = 8 * x + (y \div 32)
    <3> DEFINE u == x
               v == y \div 32
    <3>1. /\ u = 128 * B(0) + 64 * B(1) + 32 * B(2) + 16 * B(3) + 8 * B(4) + 4 * B(5) + 2 * B(6) + B(7)
          /\ v = 4 * B(8) + 2 * B(9) + B(10)
      BY <2>2, <2>3, <2>4
    <3> HIDE DEF u, v
    <3>2. Conversion!Bits(r, 0, 11) = 8 * u + v
      BY <2>1, <2>4, <3>1
    <3> QED
      BY <3>2 DEF u, v
  <2>6. x * 8 + y \div 32 = 8 * x + (y \div 32)
    BY <2>2, <2>3
  <2> QED
    BY <2>5, <2>6 DEF x, y
<1>2. Conversion!Bits(r, 11, 11) = (r[2] * 64 + r[3] \div 4) % 2048
  <2>1. Conversion!Bits(r, 11, 11)
          = 1024 * B(11) + 512 * B(12) + 256 * B(13) + 128 * B(14)
            + 64 * B(15) + 32 * B(16) + 16 * B(17) + 8 * B(18)
            + 4 * B(19) + 2 * B(20) + B(21)
    BY Bits11
  <2> DEFINE x == r[2]
             y == r[3]
  <2>2. 16 * B(11) + 8 * B(12) + 4 * B(13) + 2 * B(14) + B(15) = x % 32 /\ x \in 0..255
    <3>1. 1 \in 0..10
      OBVIOUS
    <3> QED
      BY <3>1, ByteSums
  <2>3. 32 * B(16) + 16 * B(17) + 8 * B(18) + 4 * B(19) + 2 * B(20) + B(21) = y \div 4 /\ y \in 0..255
    <3>1. 2 \in 0..10
      OBVIOUS
    <3> QED
      BY <3>1, ByteSums
  <2>4. /\ B(11) \in Int /\ B(12) \in Int /\ B(13) \in Int /\ B(14) \in Int
        /\ B(15) \in Int /\ B(16) \in Int /\ B(17) \in Int /\ B(18) \in Int
        /\ B(19) \in Int /\ B(20) \in Int /\ B(21) \in Int
    BY BitIsBit
  <2> HIDE DEF B, x, y
  <2>5. Conversion!Bits(r, 11, 11) = 64 * (x % 32) + (y \div 4)
    <3> DEFINE u == x % 32
               v == y \div 4
    <3>1. /\ u = 16 * B(11) + 8 * B(12) + 4 * B(13) + 2 * B(14) + B(15)
          /\ v = 32 * B(16) + 16 * B(17) + 8 * B(18) + 4 * B(19) + 2 * B(20) + B(21)
      BY <2>2, <2>3, <2>4
    <3> HIDE DEF u, v
    <3>2. Conversion!Bits(r, 11, 11) = 64 * u + v
      BY <2>1, <2>4, <3>1
    <3> QED
      BY <3>2 DEF u, v
  <2>6. (x * 64 + y \div 4) % 2048 = 64 * (x % 32) + (y \div 4)
    BY <2>2, <2>3
  <2> QED
    BY <2>5, <2>6 DEF x, y
<1>3. Conversion!Bits(r, 22, 11) = (r[3] * 512 + r[4] * 2 + r[5] \div 128) % 2048
  <2>1. Conversion!Bits(r, 22, 11)
          = 1024 * B(22) + 512 * B(23) + 256 * B(24) + 128 * B(25)
            + 64 * B(26) + 32 * B(27) + 16 * B(28) + 8 * B(29)
            + 4 * B(30) + 2 * B(31) + B(32)
    BY Bits11
  <2> DEFINE x == r[3]
             y == r[4]
             z == r[5]
  <2>2. 2 * B(22) + B(23) = x % 4 /\ x \in 0..255
    <3>1. 2 \in 0..10
      OBVIOUS
    <3> QED
      BY <3>1, ByteSums
  <2>3. 128 * B(24) + 64 * B(25) + 32 * B(26) + 16 * B(27) + 8 * B(28) + 4 * B(29) + 2 * B(30) + B(31) = y /\ y \in 0..255
    <3>1. 3 \in 0..10
      OBVIOUS
    <3> QED
      BY <3>1, ByteSums
  <2>4. B(32) = z \div 128 /\ z \in 0..255
    <3>1. 4 \in 0..10
      OBVIOUS
    <3> QED
      BY <3>1, ByteSums
  <2>5. /\ B(22) \in Int /\ B(23) \in Int /\ B(24) \in Int /\ B(25) \in Int
        /\ B(26) \in Int /\ B(27) \in Int /\ B(28) \in Int /\ B(29) \in Int
        /\ B(30) \in Int /\ B(31) \in Int /\ B(32) \in Int
    BY BitIsBit
  <2> HIDE DEF B, x, y, z
  <2>6. Conversion!Bits(r, 22, 11) = 512 * (x % 4) + 2 * y + (z \div 128)
    <3> DEFINE u == x % 4
               v == y
               w == z \div 128
    <3>1. /\ u = 2 * B(22) + B(23)
          /\ v = 128 * B(24) + 64 * B(25) + 32 * B(26) + 16 * B(27) + 8 * B(28) + 4 * B(29) + 2 * B(30) + B(31)
          /\ w = B(32)
      BY <2>2, <2>3, <2>4, <2>5
    <3> HIDE DEF u, v, w
    <3>2. Conversion!Bits(r, 22, 11) = 512 * u + 2 * v + w
      BY <2>1, <2>5, <3>1
    <3> QED
      BY <3>2 DEF u, v, w
  <2>7. (x * 512 + y * 2 + z \div 128) % 2048 = 512 * (x % 4) + 2 * y + (z \div 128)
    BY <2>2, <2>3, <2>4
  <2> QED
    BY <2>6, <2>7 DEF x, y, z
<1>4. Conversion!Bits(r, 33, 11) = (r[5] * 16 + r[6] \div 16) % 2048
  <2>1. Conversion!Bits(r, 33, 11)
          = 1024 * B(33) + 512 * B(34) + 256 * B(35) + 128 * B(36)
            + 64 * B(37) + 32 * B(38) + 16 * B(39) + 8 * B(40)
            + 4 * B(41) + 2 * B(42) + B(43)
    BY Bits11
  <2> DEFINE x == r[5]
             y == r[6]
  <2>2. 64 * B(33) + 32 * B(34) + 16 * B(35) + 8 * B(36) + 4 * B(37) + 2 * B(38) + B(39) = x % 128 /\ x \in 0..255
    <3>1. 4 \in 0..10
      OBVIOUS
    <3> QED
      BY <3>1, ByteSums
  <2>3. 8 * B(40) + 4 * B(41) + 2 * B(42) + B(43) = y \div 16 /\ y \in 0..255
    <3>1. 5 \in 0..10
      OBVIOUS
    <3> QED
      BY <3>1, ByteSums
  <2>4. /\ B(33) \in Int /\ B(34) \in Int /\ B(35) \in Int /\ B(36) \in Int
        /\ B(37) \in Int /\ B(38) \in Int /\ B(39) \in Int /\ B(40) \in Int
        /\ B(41) \in Int /\ B(42) \in Int /\ B(43) \in Int
    BY BitIsBit
  <2> HIDE DEF B, x, y
  <2>5. Conversion!Bits(r, 33, 11) = 16 * (x % 128) + (y \div 16)
    <3> DEFINE u == x % 128
               v == y \div 16
    <3>1. /\ u = 64 * B(33) + 32 * B(34) + 16 * B(35) + 8 * B(36) + 4 * B(37) + 2 * B(38) + B(39)
          /\ v = 8 * B(40) + 4 * B(41) + 2 * B(42) + B(43)
      BY <2>2, <2>3, <2>4
    <3> HIDE DEF u, v
    <3>2. Conversion!Bits(r, 33, 11) = 16 * u + v
      BY <2>1, <2>4, <3>1
    <3> QED
      BY <3>2 DEF u, v
  <2>6. (x * 16 + y \div 16) % 2048 = 16 * (x % 128) + (y \div 16)
    BY <2>2, <2>3
  <2> QED
    BY <2>5, <2>6 DEF x, y
<1>5. Conversion!Bits(r, 44, 11) = (r[6] * 128 + r[7] \div 2) % 2048
  <2>1. Conversion!Bits(r, 44, 11)
          = 1024 * B(44) + 512 * B(45) + 256 * B(46) + 128 * B(47)
            + 64 * B(48) + 32 * B(49) + 16 * B(50) + 8 * B(51)
            + 4 * B(52) + 2 * B(53) + B(54)
    BY Bits11
  <2> DEFINE x == r[6]
             y == r[7]
  <2>2. 8 * B(44) + 4 * B(45) + 2 * B(46) + B(47) = x % 16 /\ x \in 0..255
    <3>1. 5 \in 0..10
      OBVIOUS
    <3> QED
      BY <3>1, ByteSums
  <2>3. 64 * B(48) + 32 * B(49) + 16 * B(50) + 8 * B(51) + 4 * B(52) + 2 * B(53) + B(54) = y \div 2 /\ y \in 0..255
    <3>1. 6 \in 0..10
      OBVIOUS
    <3> QED
      BY <3>1, ByteSums
  <2>4. /\ B(44) \in Int /\ B(45) \in Int /\ B(46) \in Int /\ B(47) \in Int
        /\ B(48) \in Int /\ B(49) \in Int /\ B(50) \in Int /\ B(51) \in Int
        /\ B(52) \in Int /\ B(53) \in Int /\ B(54) \in Int
    BY BitIsBit
  <2> HIDE DEF B, x, y
  <2>5. Conversion!Bits(r, 44, 11) = 128 * (x % 16) + (y \div 2)
    <3> DEFINE u == x % 16
               v == y \div 2
    <3>1. /\ u = 8 * B(44) + 4 * B(45) + 2 * B(46) + B(47)
          /\ v = 64 * B(48) + 32 * B(49) + 16 * B(50) + 8 * B(51) + 4 * B(52) + 2 * B(53) + B(54)
      BY <2>2, <2>3, <2>4
    <3> HIDE DEF u, v
    <3>2. Conversion!Bits(r, 44, 11) = 128 * u + v
      BY <2>1, <2>4, <3>1
    <3> QED
      BY <3>2 DEF u, v
  <2>6. (x * 128 + y \div 2) % 2048 = 128 * (x % 16) + (y \div 2)
    BY <2>2, <2>3
  <2> QED
    BY <2>5, <2>6 DEF x, y
<1>6. Conversion!Bits(r, 55, 11) = (r[7] * 1024 + r[8] * 4 + r[9] \div 64) % 2048
  <2>1. Conversion!Bits(r, 55, 11)
          = 1024 * B(55) + 512 * B(56) + 256 * B(57) + 128 * B(58)
            + 64 * B(59) + 32 * B(60) + 16 * B(61) + 8 * B(62)
            + 4 * B(63) + 2 * B(64) + B(65)
    BY Bits11
  <2> DEFINE x == r[7]
             y == r[8]
             z == r[9]
  <2>2. B(55) = x % 2 /\ x \in 0..255
    <3>1. 6 \in 0..10
      OBVIOUS
    <3> QED
      BY <3>1, ByteSums
  <2>3. 128 * B(56) + 64 * B(57) + 32 * B(58) + 16 * B(59) + 8 * B(60) + 4 * B(61) + 2 * B(62) + B(63) = y /\ y \in 0..255
    <3>1. 7 \in 0..10
      OBVIOUS
    <3> QED
      BY <3>1, ByteSums
  <2>4. 2 * B(64) + B(65) = z \div 64 /\ z \in 0..255
    <3>1. 8 \in 0..10
      OBVIOUS
    <3> QED
      BY <3>1, ByteSums
  <2>5. /\ B(55) \in Int /\ B(56) \in Int /\ B(57) \in Int /\ B(58) \in Int
        /\ B(59) \in Int /\ B(60) \in Int /\ B(61) \in Int /\ B(62) \in Int
        /\ B(63) \in Int /\ B(64) \in Int /\ B(65) \in Int
    BY BitIsBit
  <2> HIDE DEF B, x, y, z
  <2>6. Conversion!Bits(r, 55, 11) = 1024 * (x % 2) + 4 * y + (z \div 64)
    <3> DEFINE u == x % 2
               v == y
               w == z \div 64
    <3>1. /\ u = B(55)
          /\ v = 128 * B(56) + 64 * B(57) + 32 * B(58) + 16 * B(59) + 8 * B(60) + 4 * B(61) + 2 * B(62) + B(63)
          /\ w = 2 * B(64) + B(65)
      BY <2>2, <2>3, <2>4, <2>5
    <3> HIDE DEF u, v, w
    <3>2. Conversion!Bits(r, 55, 11) = 1024 * u + 4 * v + w
      BY <2>1, <2>5, <3>1
    <3> QED
      BY <3>2 DEF u, v, w
  <2>7. (x * 1024 + y * 4 + z \div 64) % 2048 = 1024 * (x % 2) + 4 * y + (z \div 64)
    BY <2>2, <2>3, <2>4
  <2> QED
    BY <2>6, <2>7 DEF x, y, z
<1>7. Conversion!Bits(r, 66, 11) = (r[9] * 32 + r[10] \div 8) % 2048
  <2>1. Conversion!Bits(r, 66, 11)
          = 1024 * B(66) + 512 * B(67) + 256 * B(68) + 128 * B(69)
            + 64 * B(70) + 32 * B(71) + 16 * B(72) + 8 * B(73)
            + 4 * B(74) + 2 * B(75) + B(76)
    BY Bits11
  <2> DEFINE x == r[9]
             y == r[10]
  <2>2. 32 * B(66) + 16 * B(67) + 8 * B(68) + 4 * B(69) + 2 * B(70) + B(71) = x % 64 /\ x \in 0..255
    <3>1. 8 \in 0..10
      OBVIOUS
    <3> QED
      BY <3>1, ByteSums
  <2>3. 16 * B(72) + 8 * B(73) + 4 * B(74) + 2 * B(75) + B(76) = y \div 8 /\ y \in 0..255
    <3>1. 9 \in 0..10
      OBVIOUS
    <3> QED
      BY <3>1, ByteSums
  <2>4. /\ B(66) \in Int /\ B(67) \in Int /\ B(68) \in Int /\ B(69) \in Int
        /\ B(70) \in Int /\ B(71) \in Int /\ B(72) \in Int /\ B(73) \in Int
        /\ B(74) \in Int /\ B(75) \in Int /\ B(76) \in Int
    BY BitIsBit
  <2> HIDE DEF B, x, y
  <2>5. Conversion!Bits(r, 66, 11) = 32 * (x % 64) + (y \div 8)
    <3> DEFINE u == x % 64
               v == y \div 8
    <3>1. /\ u = 32 * B(66) + 16 * B(67) + 8 * B(68) + 4 * B(69) + 2 * B(70) + B(71)
          /\ v = 16 * B(72) + 8 * B(73) + 4 * B(74) + 2 * B(75) + B(76)
      BY <2>2, <2>3, <2>4
    <3> HIDE DEF u, v
    <3>2. Conversion!Bits(r, 66, 11) = 32 * u + v
      BY <2>1, <2>4, <3>1
    <3> QED
      BY <3>2 DEF u, v
  <2>6. (x * 32 + y \div 8) % 2048 = 32 * (x % 64) + (y \div 8)
    BY <2>2, <2>3
  <2> QED
    BY <2>5, <2>6 DEF x, y
<1>8. Conversion!Bits(r, 77, 11) = (r[10] * 256 + r[11]) % 2048
  <2>1. Conversion!Bits(r, 77, 11)
          = 1024 * B(77) + 512 * B(78) + 256 * B(79) + 128 * B(80)
            + 64 * B(81) + 32 * B(82) + 16 * B(83) + 8 * B(84)
            + 4 * B(85) + 2 * B(86) + B(87)
    BY Bits11
  <2> DEFINE x == r[10]
             y == r[11]
  <2>2. 4 * B(77) + 2 * B(78) + B(79) = x % 8 /\ x \in 0..255
    <3>1. 9 \in 0..10
      OBVIOUS
    <3> QED
      BY <3>1, ByteSums
  <2>3. 128 * B(80) + 64 * B(81) + 32 * B(82) + 16 * B(83) + 8 * B(84) + 4 * B(85) + 2 * B(86) + B(87) = y /\ y \in 0..255
    <3>1. 10 \in 0..10
      OBVIOUS
    <3> QED
      BY <3>1, ByteSums
  <2>4. /\ B(77) \in Int /\ B(78) \in Int /\ B(79) \in Int /\ B(80) \in Int
        /\ B(81) \in Int /\ B(82) \in Int /\ B(83) \in Int /\ B(84) \in Int
        /\ B(85) \in Int /\ B(86) \in Int /\ B(87) \in Int
    BY BitIsBit
  <2> HIDE DEF B, x, y
  <2>5. Conversion!Bits(r, 77, 11) = 256 * (x % 8) + y
    <3> DEFINE u == x % 8
               v == y
    <3>1. /\ u = 4 * B(77) + 2 * B(78) + B(79)
          /\ v = 128 * B(80) + 64 * B(81) + 32 * B(82) + 16 * B(83) + 8 * B(84) + 4 * B(85) + 2 * B(86) + B(87)
      BY <2>2, <2>3, <2>4
    <3> HIDE DEF u, v
    <3>2. Conversion!Bits(r, 77, 11) = 256 * u + v
      BY <2>1, <2>4, <3>1
    <3> QED
      BY <3>2 DEF u, v
  <2>6. (x * 256 + y) % 2048 = 256 * (x % 8) + y
    BY <2>2, <2>3
  <2> QED
    BY <2>5, <2>6 DEF x, y
<1>9. Conversion!Unpack8Pixels(r) =
        << r[1] * 8 + r[2] \div 32,
           (r[2] * 64 + r[3] \div 4) % 2048,
           (r[3] * 512 + r[4] * 2 + r[5] \div 128) % 2048,
           (r[5] * 16 + r[6] \div 16) % 2048,
           (r[6] * 128 + r[7] \div 2) % 2048,
           (r[7] * 1024 + r[8] * 4 + r[9] \div 64) % 2048,
           (r[9] * 32 + r[10] \div 8) % 2048,
           (r[10] * 256 + r[11]) % 2048 >>
  BY DEF Conversion!Unpack8Pixels
<1>10. ASSUME NEW k \in 1..8
       PROVE  Conversion!Unpack8Pixels(r)[k] = Conversion!Bits(r, 11 * (k - 1), 11)
  <2>1. k \in {1, 2, 3, 4, 5, 6, 7, 8}
    OBVIOUS
  <2>2. CASE k = 1
    BY <1>1, <1>9, <2>2
  <2>3. CASE k = 2
    BY <1>2, <1>9, <2>3
  <2>4. CASE k = 3
    BY <1>3, <1>9, <2>4
  <2>5. CASE k = 4
    BY <1>4, <1>9, <2>5
  <2>6. CASE k = 5
    BY <1>5, <1>9, <2>6
  <2>7. CASE k = 6
    BY <1>6, <1>9, <2>7
  <2>8. CASE k = 7
    BY <1>7, <1>9, <2>8
  <2>9. CASE k = 8
    BY <1>8, <1>9, <2>9
  <2> QED
    BY <2>1, <2>2, <2>3, <2>4, <2>5, <2>6, <2>7, <2>8, <2>9
<1> QED
  BY <1>10

\* convert_packed_to_16bit and convert_packed_to_8bit take one byte or two for a value.
TheBuffers == [buffer : Nat, bitsIn : Nat, next : Nat]
LEMMA RefillSteps ==
  ASSUME NEW src \in PackedFrame, NEW b \in TheBuffers, NEW need \in 1..2,
         b.bitsIn < 10, need = (10 - b.bitsIn + 7) \div 8, b.next + need - 1 <= 11, b.next >= 1
  PROVE  \E v \in [0..need -> Nat] :
           /\ v[0] = b.buffer
           /\ \A j \in 1..need : v[j] = (v[j - 1] * 256 + src[b.next + j - 1]) % 2^23
           /\ Conversion!Refill(src, 10, b) =
                [buffer |-> v[need], bitsIn |-> b.bitsIn + 8 * need - 10, next |-> b.next + need]
<1> DEFINE S(j) == src[b.next + j - 1]
           f == CHOOSE h : h = [j \in 0..need |-> IF j = 0 THEN b.buffer
                                                  ELSE (h[j - 1] * 256 + S(j)) % 2^23]
           G == [x \in Nat \X (1..need) |-> (x[1] * 256 + S(x[2])) % 2^23]
<1>1. ~(b.bitsIn >= 10) /\ b.buffer \in Nat /\ b.bitsIn \in Nat /\ b.next \in Nat
  BY DEF TheBuffers
<1>2. Conversion!Refill(src, 10, b) =
        [buffer |-> f[need], bitsIn |-> b.bitsIn + 8 * need - 10, next |-> b.next + need]
  BY <1>1 DEF Conversion!Refill
<1>3. ASSUME NEW j \in 1..need PROVE S(j) \in Nat
  <2>1. b.next + j - 1 \in 1..11
    BY <1>1
  <2> QED
    BY <2>1, SMTT(30) DEF PackedFrame
<1> HIDE DEF S
<1>5. \A x, y \in Nat : (x * 256 + y) % 2^23 \in Nat
  OBVIOUS
<1>6. G \in [Nat \X (1..need) -> Nat]
  <2>1. ASSUME NEW x \in Nat \X (1..need) PROVE (x[1] * 256 + S(x[2])) % 2^23 \in Nat
    <3>1. x[1] \in Nat /\ x[2] \in 1..need
      OBVIOUS
    <3>2. S(x[2]) \in Nat
      BY <1>3, <3>1
    <3> QED
      BY <1>5, <3>1, <3>2
  <2> QED
    BY <2>1
<1>7. \A x \in Nat, j \in 1..need : G[<<x, j>>] = (x * 256 + S(j)) % 2^23
  OBVIOUS
<1> HIDE DEF G
<1>8. PICK g \in [0..need -> Nat] :
        g[0] = b.buffer /\ \A j \in 1..need : g[j] = G[<<g[j - 1], j>>]
  <2>1. need \in Nat
    OBVIOUS
  <2>2. \E g : Recurs(g, Nat, b.buffer, need, G)
    BY <1>1, <1>6, <2>1, Recursion
  <2> QED
    BY <2>2 DEF Recurs
<1>9. ASSUME NEW j \in 0..need
      PROVE  g[j] = IF j = 0 THEN b.buffer ELSE (g[j - 1] * 256 + S(j)) % 2^23
  <2>1. CASE j = 0
    BY <1>8, <2>1
  <2>2. CASE j # 0
    <3>1. j \in 1..need /\ j - 1 \in 0..need
      BY <2>2
    <3> QED
      BY <1>7, <1>8, <2>2, <3>1, ZenonT(30)
  <2> QED
    BY <2>1, <2>2
<1>10. g = [j \in 0..need |-> IF j = 0 THEN b.buffer ELSE (g[j - 1] * 256 + S(j)) % 2^23]
  BY <1>8, <1>9
<1>11. f = [j \in 0..need |-> IF j = 0 THEN b.buffer ELSE (f[j - 1] * 256 + S(j)) % 2^23]
  BY <1>10, ZenonT(30)
<1> HIDE DEF f
<1>12. \A j \in 0..need : f[j] = IF j = 0 THEN b.buffer ELSE (f[j - 1] * 256 + S(j)) % 2^23
  BY <1>11
<1>13. f[0] = b.buffer /\ \A j \in 1..need : f[j] = (f[j - 1] * 256 + S(j)) % 2^23
  <2>1. 0 \in 0..need /\ \A j \in 1..need : j \in 0..need /\ j # 0
    OBVIOUS
  <2> QED
    BY <1>12, <2>1
<1>14. f[0] \in Nat /\ f[1] \in Nat /\ (need = 2 => f[2] \in Nat)
  <2>1. 1 \in 1..need /\ (need = 2 => 2 \in 1..need)
    OBVIOUS
  <2>2. f[1] = (f[0] * 256 + S(1)) % 2^23 /\ f[1] \in Nat
    <3>1. f[1] = (f[1 - 1] * 256 + S(1)) % 2^23 /\ S(1) \in Nat /\ f[0] \in Nat
      BY <1>1, <1>3, <1>13, <2>1
    <3>2. 1 - 1 = 0
      OBVIOUS
    <3>3. f[1] = (f[0] * 256 + S(1)) % 2^23
      BY <3>1, <3>2
    <3> QED
      BY <1>5, <3>1, <3>3
  <2>3. need = 2 => f[2] = (f[1] * 256 + S(2)) % 2^23 /\ f[2] \in Nat
    BY <1>3, <1>5, <1>13, <2>1, <2>2
  <2> QED
    BY <1>1, <1>13, <2>2, <2>3
<1>15. f \in [0..need -> Nat]
  <2>1. \A j \in 0..need : j = 0 \/ j = 1 \/ (need = 2 /\ j = 2)
    OBVIOUS
  <2> QED
    BY <1>11, <1>14, <2>1
<1>16. \A j \in 1..need : f[j] = (f[j - 1] * 256 + src[b.next + j - 1]) % 2^23
  BY <1>13 DEF S
<1> QED
  BY <1>2, <1>13, <1>15, <1>16, Zenon

LEMMA RefillOne ==
  ASSUME NEW src \in PackedFrame, NEW b \in TheBuffers, b.bitsIn \in {2, 4, 6}, b.next \in 1..11
  PROVE  /\ Conversion!Refill(src, 10, b) \in TheBuffers
         /\ Conversion!Refill(src, 10, b).bitsIn = b.bitsIn - 2
         /\ Conversion!Refill(src, 10, b).next = b.next + 1
         /\ Conversion!Refill(src, 10, b).buffer % 2^16 = (b.buffer % 256) * 256 + src[b.next]
<1>1. b.buffer \in Nat /\ b.bitsIn \in Nat /\ b.next \in Nat
  BY DEF TheBuffers
<1>2. 1 \in 1..2 /\ 1 = (10 - b.bitsIn + 7) \div 8 /\ b.next + 1 - 1 <= 11 /\ b.bitsIn < 10
  BY <1>1
<1>3. PICK v \in [0..1 -> Nat] :
        /\ v[0] = b.buffer
        /\ \A j \in 1..1 : v[j] = (v[j - 1] * 256 + src[b.next + j - 1]) % 2^23
        /\ Conversion!Refill(src, 10, b) =
             [buffer |-> v[1], bitsIn |-> b.bitsIn + 8 * 1 - 10, next |-> b.next + 1]
  BY <1>1, <1>2, RefillSteps
<1> DEFINE x == b.buffer
           s == src[b.next]
<1>4. s \in 0..255 /\ x \in Nat
  BY <1>1 DEF PackedFrame
<1>5. v[1] = (x * 256 + s) % 2^23
  <2>1. 1 \in 1..1 /\ b.next + 1 - 1 = b.next /\ 1 - 1 = 0
    BY <1>1
  <2> QED
    BY <1>3, <2>1
<1> HIDE DEF x, s
<1>6. v[1] \in Nat /\ v[1] % 2^16 = (x % 256) * 256 + s
  <2>1. (x * 256 + s) % 2^16 = (x % 256) * 256 + s
    BY <1>4
  <2> DEFINE y == x * 256 + s
  <2>2. y \in Nat
    BY <1>4
  <2> HIDE DEF y
  <2>3. (y % 2^23) % 2^16 = y % 2^16 /\ y % 2^23 \in Nat
    BY <2>2
  <2> QED
    BY <1>5, <2>1, <2>3 DEF y
<1>7. b.bitsIn + 8 * 1 - 10 = b.bitsIn - 2 /\ b.bitsIn - 2 \in Nat /\ b.next + 1 \in Nat
  BY <1>1
<1> QED
  BY <1>3, <1>6, <1>7 DEF TheBuffers, x, s

LEMMA RefillTwo ==
  ASSUME NEW src \in PackedFrame, NEW b \in TheBuffers, b.bitsIn = 0, b.next \in 1..10
  PROVE  /\ Conversion!Refill(src, 10, b) \in TheBuffers
         /\ Conversion!Refill(src, 10, b).bitsIn = 6
         /\ Conversion!Refill(src, 10, b).next = b.next + 2
         /\ Conversion!Refill(src, 10, b).buffer % 2^16 = src[b.next] * 256 + src[b.next + 1]
<1>1. b.buffer \in Nat /\ b.bitsIn \in Nat /\ b.next \in Nat
  BY DEF TheBuffers
<1>2. 2 \in 1..2 /\ 2 = (10 - b.bitsIn + 7) \div 8 /\ b.next + 2 - 1 <= 11 /\ b.bitsIn < 10
  BY <1>1
<1>3. PICK v \in [0..2 -> Nat] :
        /\ v[0] = b.buffer
        /\ \A j \in 1..2 : v[j] = (v[j - 1] * 256 + src[b.next + j - 1]) % 2^23
        /\ Conversion!Refill(src, 10, b) =
             [buffer |-> v[2], bitsIn |-> b.bitsIn + 8 * 2 - 10, next |-> b.next + 2]
  BY <1>1, <1>2, RefillSteps
<1> DEFINE x == b.buffer
           s == src[b.next]
           t == src[b.next + 1]
<1>4. s \in 0..255 /\ t \in 0..255 /\ x \in Nat
  BY <1>1 DEF PackedFrame
<1>5. v[1] = (x * 256 + s) % 2^23 /\ v[2] = (v[1] * 256 + t) % 2^23
  <2>1. 1 \in 1..2 /\ b.next + 1 - 1 = b.next /\ 1 - 1 = 0 /\ 2 \in 1..2
        /\ b.next + 2 - 1 = b.next + 1 /\ 2 - 1 = 1
    BY <1>1
  <2> QED
    BY <1>3, <2>1
<1> HIDE DEF x, s, t
<1>6. v[1] \in Nat /\ v[1] % 256 = s
  <2> DEFINE y == x * 256 + s
  <2>1. y \in Nat /\ y % 256 = s
    BY <1>4
  <2> HIDE DEF y
  <2>2. (y % 2^23) % 256 = y % 256 /\ y % 2^23 \in Nat
    BY <2>1
  <2> QED
    BY <1>5, <2>1, <2>2 DEF y
<1>7. v[2] \in Nat /\ v[2] % 2^16 = s * 256 + t
  <2> DEFINE z == v[1]
             y == z * 256 + t
  <2>1. z \in Nat /\ z % 256 = s
    BY <1>6
  <2> HIDE DEF z
  <2>2. y \in Nat /\ y % 2^16 = (z % 256) * 256 + t
    BY <1>4, <2>1
  <2> HIDE DEF y
  <2>3. (y % 2^23) % 2^16 = y % 2^16 /\ y % 2^23 \in Nat
    BY <2>2
  <2> QED
    BY <1>5, <2>1, <2>2, <2>3 DEF y, z
<1>8. b.bitsIn + 8 * 2 - 10 = 6 /\ b.next + 2 \in Nat
  BY <1>1
<1> QED
  BY <1>3, <1>7, <1>8 DEF TheBuffers, s, t

\* The buffer along eight values of ten bits
LEMMA BufferSteps ==
  ASSUME NEW src, NEW f, f = Conversion!Buffers(src, 10, 8)
  PROVE  /\ f[0] = [buffer |-> 0, bitsIn |-> 0, next |-> 1]
         /\ \A k \in 1..8 : f[k] = Conversion!Refill(src, 10, f[k - 1])
<1> DEFINE R(b) == Conversion!Refill(src, 10, b)
           b0 == [buffer |-> 0, bitsIn |-> 0, next |-> 1]
           h == CHOOSE w : w = [k \in 0..8 |-> IF k = 0 THEN b0 ELSE R(w[k - 1])]
           b1 == R(b0)
           b2 == R(b1)
           b3 == R(b2)
           b4 == R(b3)
           b5 == R(b4)
           b6 == R(b5)
           b7 == R(b6)
           b8 == R(b7)
           T == <<b0, b1, b2, b3, b4, b5, b6, b7, b8>>
           g == [k \in 0..8 |-> T[k + 1]]
<1>1. f = h
  BY DEF Conversion!Buffers
<1>2. ASSUME NEW k \in 0..8 PROVE g[k] = IF k = 0 THEN b0 ELSE R(g[k - 1])
  <2>1. g[0] = b0 /\ g[1] = b1 /\ g[2] = b2 /\ g[3] = b3 /\ g[4] = b4 /\ g[5] = b5 /\ g[6] = b6 /\ g[7] = b7 /\ g[8] = b8
    <3> HIDE DEF R, b0, b1, b2, b3, b4, b5, b6, b7, b8
    <3> QED
      OBVIOUS
  <2>2. k = 0 \/ k = 1 \/ k = 2 \/ k = 3 \/ k = 4 \/ k = 5 \/ k = 6 \/ k = 7 \/ k = 8
    OBVIOUS
  <2> HIDE DEF R, g, b0
  <2>3. CASE k = 0
    BY <2>1, <2>3
  <2>4. CASE k = 1
    <3>1. k - 1 = 0 /\ k # 0
      BY <2>4
    <3> QED
      BY <2>1, <2>4, <3>1
  <2>5. CASE k = 2
    <3>1. k - 1 = 1 /\ k # 0
      BY <2>5
    <3> QED
      BY <2>1, <2>5, <3>1
  <2>6. CASE k = 3
    <3>1. k - 1 = 2 /\ k # 0
      BY <2>6
    <3> QED
      BY <2>1, <2>6, <3>1
  <2>7. CASE k = 4
    <3>1. k - 1 = 3 /\ k # 0
      BY <2>7
    <3> QED
      BY <2>1, <2>7, <3>1
  <2>8. CASE k = 5
    <3>1. k - 1 = 4 /\ k # 0
      BY <2>8
    <3> QED
      BY <2>1, <2>8, <3>1
  <2>9. CASE k = 6
    <3>1. k - 1 = 5 /\ k # 0
      BY <2>9
    <3> QED
      BY <2>1, <2>9, <3>1
  <2>10. CASE k = 7
    <3>1. k - 1 = 6 /\ k # 0
      BY <2>10
    <3> QED
      BY <2>1, <2>10, <3>1
  <2>11. CASE k = 8
    <3>1. k - 1 = 7 /\ k # 0
      BY <2>11
    <3> QED
      BY <2>1, <2>11, <3>1
  <2> QED
    BY <2>2, <2>3, <2>4, <2>5, <2>6, <2>7, <2>8, <2>9, <2>10, <2>11
<1>3. g = [k \in 0..8 |-> IF k = 0 THEN b0 ELSE R(g[k - 1])]
  <2>1. g = [k \in 0..8 |-> g[k]]
    OBVIOUS
  <2> HIDE DEF g, R, b0
  <2> QED
    BY <1>2, <2>1
<1> HIDE DEF R, b0, g
<1>4. h = [k \in 0..8 |-> IF k = 0 THEN b0 ELSE R(h[k - 1])]
  BY <1>3, Zenon
<1> HIDE DEF h
<1>5. f[0] = b0 /\ \A k \in 1..8 : f[k] = R(f[k - 1])
  <2>1. \A k \in 0..8 : f[k] = IF k = 0 THEN b0 ELSE R(f[k - 1])
    BY <1>1, <1>4
  <2>2. 0 \in 0..8 /\ \A k \in 1..8 : k \in 0..8 /\ k # 0
    OBVIOUS
  <2> QED
    BY <2>1, <2>2
<1> QED
  BY <1>5 DEF R, b0

LEMMA BuffersHold ==
  ASSUME NEW src \in PackedFrame, NEW f, f = Conversion!Buffers(src, 10, 8)
  PROVE  /\ f[1].bitsIn = 6 /\ f[1].buffer \in Nat /\ f[1].buffer % 2^16 = src[1] * 256 + src[2]
         /\ f[2].bitsIn = 4 /\ f[2].buffer \in Nat /\ f[2].buffer % 2^16 = src[2] * 256 + src[3]
         /\ f[3].bitsIn = 2 /\ f[3].buffer \in Nat /\ f[3].buffer % 2^16 = src[3] * 256 + src[4]
         /\ f[4].bitsIn = 0 /\ f[4].buffer \in Nat /\ f[4].buffer % 2^16 = src[4] * 256 + src[5]
         /\ f[5].bitsIn = 6 /\ f[5].buffer \in Nat /\ f[5].buffer % 2^16 = src[6] * 256 + src[7]
         /\ f[6].bitsIn = 4 /\ f[6].buffer \in Nat /\ f[6].buffer % 2^16 = src[7] * 256 + src[8]
         /\ f[7].bitsIn = 2 /\ f[7].buffer \in Nat /\ f[7].buffer % 2^16 = src[8] * 256 + src[9]
         /\ f[8].bitsIn = 0 /\ f[8].buffer \in Nat /\ f[8].buffer % 2^16 = src[9] * 256 + src[10]
<1>1. /\ f[0] = [buffer |-> 0, bitsIn |-> 0, next |-> 1]
      /\ \A k \in 1..8 : f[k] = Conversion!Refill(src, 10, f[k - 1])
  BY BufferSteps
<1>2. f[1] = Conversion!Refill(src, 10, f[0]) /\ f[2] = Conversion!Refill(src, 10, f[1])
     /\ f[3] = Conversion!Refill(src, 10, f[2]) /\ f[4] = Conversion!Refill(src, 10, f[3])
     /\ f[5] = Conversion!Refill(src, 10, f[4]) /\ f[6] = Conversion!Refill(src, 10, f[5])
     /\ f[7] = Conversion!Refill(src, 10, f[6]) /\ f[8] = Conversion!Refill(src, 10, f[7])
  BY <1>1
<1>3. f[0] \in TheBuffers /\ f[0].bitsIn = 0 /\ f[0].next = 1
  BY <1>1 DEF TheBuffers
<1>4. \A i \in 1..11 : src[i] \in 0..255
  BY DEF PackedFrame
<1>5. f[1] \in TheBuffers /\ f[1].next = 3 /\ f[1].bitsIn = 6
      /\ f[1].buffer % 2^16 = src[1] * 256 + src[2]
  <2>1. f[0].next \in 1..10 /\ f[0].next + 1 = 2 /\ f[0].next + 2 = 3
    BY <1>3
  <2> QED
    BY <1>2, <1>3, <2>1, RefillTwo
<1>6. f[2] \in TheBuffers /\ f[2].next = 4 /\ f[2].bitsIn = 4
      /\ f[2].buffer % 2^16 = src[2] * 256 + src[3]
  <2>1. f[1].next \in 1..11 /\ f[1].next + 1 = 4 /\ f[1].bitsIn \in {2, 4, 6} /\ f[1].bitsIn - 2 = 4
    BY <1>5
  <2>2. f[1].buffer % 256 = src[2]
    <3> DEFINE x == f[1].buffer
               u == src[1]
               t == src[2]
    <3>1. x \in Nat /\ u \in 0..255 /\ t \in 0..255 /\ x % 2^16 = u * 256 + t
      BY <1>4, <1>5 DEF TheBuffers
    <3> HIDE DEF x, u, t
    <3>2. x % 256 = t
      BY <3>1
    <3> QED
      BY <3>2 DEF x, t
  <2> QED
    BY <1>2, <1>5, <2>1, <2>2, RefillOne
<1>7. f[3] \in TheBuffers /\ f[3].next = 5 /\ f[3].bitsIn = 2
      /\ f[3].buffer % 2^16 = src[3] * 256 + src[4]
  <2>1. f[2].next \in 1..11 /\ f[2].next + 1 = 5 /\ f[2].bitsIn \in {2, 4, 6} /\ f[2].bitsIn - 2 = 2
    BY <1>6
  <2>2. f[2].buffer % 256 = src[3]
    <3> DEFINE x == f[2].buffer
               u == src[2]
               t == src[3]
    <3>1. x \in Nat /\ u \in 0..255 /\ t \in 0..255 /\ x % 2^16 = u * 256 + t
      BY <1>4, <1>6 DEF TheBuffers
    <3> HIDE DEF x, u, t
    <3>2. x % 256 = t
      BY <3>1
    <3> QED
      BY <3>2 DEF x, t
  <2> QED
    BY <1>2, <1>6, <2>1, <2>2, RefillOne
<1>8. f[4] \in TheBuffers /\ f[4].next = 6 /\ f[4].bitsIn = 0
      /\ f[4].buffer % 2^16 = src[4] * 256 + src[5]
  <2>1. f[3].next \in 1..11 /\ f[3].next + 1 = 6 /\ f[3].bitsIn \in {2, 4, 6} /\ f[3].bitsIn - 2 = 0
    BY <1>7
  <2>2. f[3].buffer % 256 = src[4]
    <3> DEFINE x == f[3].buffer
               u == src[3]
               t == src[4]
    <3>1. x \in Nat /\ u \in 0..255 /\ t \in 0..255 /\ x % 2^16 = u * 256 + t
      BY <1>4, <1>7 DEF TheBuffers
    <3> HIDE DEF x, u, t
    <3>2. x % 256 = t
      BY <3>1
    <3> QED
      BY <3>2 DEF x, t
  <2> QED
    BY <1>2, <1>7, <2>1, <2>2, RefillOne
<1>9. f[5] \in TheBuffers /\ f[5].next = 8 /\ f[5].bitsIn = 6
      /\ f[5].buffer % 2^16 = src[6] * 256 + src[7]
  <2>1. f[4].next \in 1..10 /\ f[4].next + 1 = 7 /\ f[4].next + 2 = 8
    BY <1>8
  <2> QED
    BY <1>2, <1>8, <2>1, RefillTwo
<1>10. f[6] \in TheBuffers /\ f[6].next = 9 /\ f[6].bitsIn = 4
      /\ f[6].buffer % 2^16 = src[7] * 256 + src[8]
  <2>1. f[5].next \in 1..11 /\ f[5].next + 1 = 9 /\ f[5].bitsIn \in {2, 4, 6} /\ f[5].bitsIn - 2 = 4
    BY <1>9
  <2>2. f[5].buffer % 256 = src[7]
    <3> DEFINE x == f[5].buffer
               u == src[6]
               t == src[7]
    <3>1. x \in Nat /\ u \in 0..255 /\ t \in 0..255 /\ x % 2^16 = u * 256 + t
      BY <1>4, <1>9 DEF TheBuffers
    <3> HIDE DEF x, u, t
    <3>2. x % 256 = t
      BY <3>1
    <3> QED
      BY <3>2 DEF x, t
  <2> QED
    BY <1>2, <1>9, <2>1, <2>2, RefillOne
<1>11. f[7] \in TheBuffers /\ f[7].next = 10 /\ f[7].bitsIn = 2
      /\ f[7].buffer % 2^16 = src[8] * 256 + src[9]
  <2>1. f[6].next \in 1..11 /\ f[6].next + 1 = 10 /\ f[6].bitsIn \in {2, 4, 6} /\ f[6].bitsIn - 2 = 2
    BY <1>10
  <2>2. f[6].buffer % 256 = src[8]
    <3> DEFINE x == f[6].buffer
               u == src[7]
               t == src[8]
    <3>1. x \in Nat /\ u \in 0..255 /\ t \in 0..255 /\ x % 2^16 = u * 256 + t
      BY <1>4, <1>10 DEF TheBuffers
    <3> HIDE DEF x, u, t
    <3>2. x % 256 = t
      BY <3>1
    <3> QED
      BY <3>2 DEF x, t
  <2> QED
    BY <1>2, <1>10, <2>1, <2>2, RefillOne
<1>12. f[8] \in TheBuffers /\ f[8].next = 11 /\ f[8].bitsIn = 0
      /\ f[8].buffer % 2^16 = src[9] * 256 + src[10]
  <2>1. f[7].next \in 1..11 /\ f[7].next + 1 = 11 /\ f[7].bitsIn \in {2, 4, 6} /\ f[7].bitsIn - 2 = 0
    BY <1>11
  <2>2. f[7].buffer % 256 = src[9]
    <3> DEFINE x == f[7].buffer
               u == src[8]
               t == src[9]
    <3>1. x \in Nat /\ u \in 0..255 /\ t \in 0..255 /\ x % 2^16 = u * 256 + t
      BY <1>4, <1>11 DEF TheBuffers
    <3> HIDE DEF x, u, t
    <3>2. x % 256 = t
      BY <3>1
    <3> QED
      BY <3>2 DEF x, t
  <2> QED
    BY <1>2, <1>11, <2>1, <2>2, RefillOne
<1> QED
  BY <1>5, <1>6, <1>7, <1>8, <1>9, <1>10, <1>11, <1>12 DEF TheBuffers

LEMMA Shifted ==
  ASSUME NEW a \in Nat, NEW x \in 0..255, NEW y \in 0..255, a % 2^16 = x * 256 + y
  PROVE  /\ (a \div 2^6) % 2^10 = 4 * x + (y \div 64)
         /\ (a \div 2^4) % 2^10 = 16 * (x % 64) + (y \div 16)
         /\ (a \div 2^2) % 2^10 = 64 * (x % 16) + (y \div 4)
         /\ (a \div 2^0) % 2^10 = 256 * (x % 4) + y
<1> DEFINE h == a \div 2^16
<1>1. h \in Nat /\ a = 65536 * h + 256 * x + y
  <2>1. h \in Nat /\ a = 2^16 * h + (a % 2^16)
    BY SMT
  <2> QED
    BY <2>1, SMT
<1> HIDE DEF h
<1>2. (a \div 2^6) % 2^10 = 4 * x + (y \div 64)
  <2>1. a \div 64 = 1024 * h + 4 * x + (y \div 64)
    BY <1>1, SMT
  <2>2. (1024 * h + 4 * x + (y \div 64)) % 1024 = 4 * x + (y \div 64)
    BY <1>1, SMT
  <2> QED
    BY <2>1, <2>2, SMT
<1>3. (a \div 2^4) % 2^10 = 16 * (x % 64) + (y \div 16)
  <2>1. a \div 16 = 4096 * h + 16 * x + (y \div 16)
    BY <1>1, SMT
  <2>2. (4096 * h + 16 * x + (y \div 16)) % 1024 = 16 * (x % 64) + (y \div 16)
    BY <1>1, SMT
  <2> QED
    BY <2>1, <2>2, SMT
<1>4. (a \div 2^2) % 2^10 = 64 * (x % 16) + (y \div 4)
  <2>1. a \div 4 = 16384 * h + 64 * x + (y \div 4)
    BY <1>1, SMT
  <2>2. (16384 * h + 64 * x + (y \div 4)) % 1024 = 64 * (x % 16) + (y \div 4)
    BY <1>1, SMT
  <2> QED
    BY <2>1, <2>2, SMT
<1>5. (a \div 2^0) % 2^10 = 256 * (x % 4) + y
  <2>1. a \div 1 = 65536 * h + 256 * x + y
    BY <1>1, SMT
  <2>2. (65536 * h + 256 * x + y) % 1024 = 256 * (x % 4) + y
    BY <1>1, SMT
  <2> QED
    BY <2>1, <2>2, SMT
<1> QED
  BY <1>2, <1>3, <1>4, <1>5

\* The four values in five bytes, from byte 5 * c + 1 on
LEMMA FourValues ==
  ASSUME NEW r \in PackedFrame, NEW c \in 0..1
  PROVE  /\ Conversion!Bits(r, 40 * c, 10) = 4 * r[5 * c + 1] + (r[5 * c + 2] \div 64)
         /\ Conversion!Bits(r, 40 * c + 10, 10) = 16 * (r[5 * c + 2] % 64) + (r[5 * c + 3] \div 16)
         /\ Conversion!Bits(r, 40 * c + 20, 10) = 64 * (r[5 * c + 3] % 16) + (r[5 * c + 4] \div 4)
         /\ Conversion!Bits(r, 40 * c + 30, 10) = 256 * (r[5 * c + 4] % 4) + r[5 * c + 5]
<1> DEFINE B(i) == Conversion!Bit(r, 40 * c + i)
           s(m) == r[5 * c + m + 1]
<1>1. ASSUME NEW i \in 0..39 PROVE B(i) \in Int
  BY BitIsBit
<1>2. /\ s(0) \in 0..255
      /\ 128 * B(0) + 64 * B(1) + 32 * B(2) + 16 * B(3) + 8 * B(4) + 4 * B(5) + 2 * B(6) + B(7) = s(0)
  <2>1. 5 * c + 0 \in 0..10 /\ 8 * (5 * c + 0) + 0 = 40 * c + 0 /\ 8 * (5 * c + 0) + 1 = 40 * c + 1 /\ 8 * (5 * c + 0) + 2 = 40 * c + 2 /\ 8 * (5 * c + 0) + 3 = 40 * c + 3
        /\ 8 * (5 * c + 0) + 4 = 40 * c + 4 /\ 8 * (5 * c + 0) + 5 = 40 * c + 5 /\ 8 * (5 * c + 0) + 6 = 40 * c + 6 /\ 8 * (5 * c + 0) + 7 = 40 * c + 7
    OBVIOUS
  <2> QED
    BY <2>1, ByteSums
<1>3. /\ s(1) \in 0..255
      /\ 2 * B(8) + B(9) = s(1) \div 64
      /\ 32 * B(10) + 16 * B(11) + 8 * B(12) + 4 * B(13) + 2 * B(14) + B(15) = s(1) % 64
  <2>1. 5 * c + 1 \in 0..10 /\ 8 * (5 * c + 1) + 0 = 40 * c + 8 /\ 8 * (5 * c + 1) + 1 = 40 * c + 9 /\ 8 * (5 * c + 1) + 2 = 40 * c + 10 /\ 8 * (5 * c + 1) + 3 = 40 * c + 11
        /\ 8 * (5 * c + 1) + 4 = 40 * c + 12 /\ 8 * (5 * c + 1) + 5 = 40 * c + 13 /\ 8 * (5 * c + 1) + 6 = 40 * c + 14 /\ 8 * (5 * c + 1) + 7 = 40 * c + 15
    OBVIOUS
  <2> QED
    BY <2>1, ByteSums
<1>4. /\ s(2) \in 0..255
      /\ 8 * B(16) + 4 * B(17) + 2 * B(18) + B(19) = s(2) \div 16
      /\ 8 * B(20) + 4 * B(21) + 2 * B(22) + B(23) = s(2) % 16
  <2>1. 5 * c + 2 \in 0..10 /\ 8 * (5 * c + 2) + 0 = 40 * c + 16 /\ 8 * (5 * c + 2) + 1 = 40 * c + 17 /\ 8 * (5 * c + 2) + 2 = 40 * c + 18 /\ 8 * (5 * c + 2) + 3 = 40 * c + 19
        /\ 8 * (5 * c + 2) + 4 = 40 * c + 20 /\ 8 * (5 * c + 2) + 5 = 40 * c + 21 /\ 8 * (5 * c + 2) + 6 = 40 * c + 22 /\ 8 * (5 * c + 2) + 7 = 40 * c + 23
    OBVIOUS
  <2> QED
    BY <2>1, ByteSums
<1>5. /\ s(3) \in 0..255
      /\ 32 * B(24) + 16 * B(25) + 8 * B(26) + 4 * B(27) + 2 * B(28) + B(29) = s(3) \div 4
      /\ 2 * B(30) + B(31) = s(3) % 4
  <2>1. 5 * c + 3 \in 0..10 /\ 8 * (5 * c + 3) + 0 = 40 * c + 24 /\ 8 * (5 * c + 3) + 1 = 40 * c + 25 /\ 8 * (5 * c + 3) + 2 = 40 * c + 26 /\ 8 * (5 * c + 3) + 3 = 40 * c + 27
        /\ 8 * (5 * c + 3) + 4 = 40 * c + 28 /\ 8 * (5 * c + 3) + 5 = 40 * c + 29 /\ 8 * (5 * c + 3) + 6 = 40 * c + 30 /\ 8 * (5 * c + 3) + 7 = 40 * c + 31
    OBVIOUS
  <2> QED
    BY <2>1, ByteSums
<1>6. /\ s(4) \in 0..255
      /\ 128 * B(32) + 64 * B(33) + 32 * B(34) + 16 * B(35) + 8 * B(36) + 4 * B(37) + 2 * B(38) + B(39) = s(4)
  <2>1. 5 * c + 4 \in 0..10 /\ 8 * (5 * c + 4) + 0 = 40 * c + 32 /\ 8 * (5 * c + 4) + 1 = 40 * c + 33 /\ 8 * (5 * c + 4) + 2 = 40 * c + 34 /\ 8 * (5 * c + 4) + 3 = 40 * c + 35
        /\ 8 * (5 * c + 4) + 4 = 40 * c + 36 /\ 8 * (5 * c + 4) + 5 = 40 * c + 37 /\ 8 * (5 * c + 4) + 6 = 40 * c + 38 /\ 8 * (5 * c + 4) + 7 = 40 * c + 39
    OBVIOUS
  <2> QED
    BY <2>1, ByteSums
<1>7. /\ B(0) \in Int /\ B(1) \in Int /\ B(2) \in Int /\ B(3) \in Int /\ B(4) \in Int /\ B(5) \in Int /\ B(6) \in Int /\ B(7) \in Int
      /\ B(8) \in Int /\ B(9) \in Int /\ B(10) \in Int /\ B(11) \in Int /\ B(12) \in Int /\ B(13) \in Int /\ B(14) \in Int /\ B(15) \in Int
      /\ B(16) \in Int /\ B(17) \in Int /\ B(18) \in Int /\ B(19) \in Int /\ B(20) \in Int /\ B(21) \in Int /\ B(22) \in Int /\ B(23) \in Int
      /\ B(24) \in Int /\ B(25) \in Int /\ B(26) \in Int /\ B(27) \in Int /\ B(28) \in Int /\ B(29) \in Int /\ B(30) \in Int /\ B(31) \in Int
      /\ B(32) \in Int /\ B(33) \in Int /\ B(34) \in Int /\ B(35) \in Int /\ B(36) \in Int /\ B(37) \in Int /\ B(38) \in Int /\ B(39) \in Int
  BY <1>1
<1>8. Conversion!Bits(r, 40 * c, 10) = 4 * s(0) + (s(1) \div 64)
  <2>1. /\ 40 * c + 0 \in Nat /\ 40 * c + 0 + 10 <= 88
        /\ 40 * c + 0 + 0 = 40 * c + 0
        /\ 40 * c + 0 + 1 = 40 * c + 1
        /\ 40 * c + 0 + 2 = 40 * c + 2
        /\ 40 * c + 0 + 3 = 40 * c + 3
        /\ 40 * c + 0 + 4 = 40 * c + 4
        /\ 40 * c + 0 + 5 = 40 * c + 5
        /\ 40 * c + 0 + 6 = 40 * c + 6
        /\ 40 * c + 0 + 7 = 40 * c + 7
        /\ 40 * c + 0 + 8 = 40 * c + 8
        /\ 40 * c + 0 + 9 = 40 * c + 9
    OBVIOUS
  <2>2. Conversion!Bits(r, 40 * c, 10)
          = 512 * B(0) + 256 * B(1) + 128 * B(2) + 64 * B(3) + 32 * B(4)
            + 16 * B(5) + 8 * B(6) + 4 * B(7) + 2 * B(8) + B(9)
    BY <2>1, Bits10
  <2> DEFINE x == s(0)
             y == s(1) \div 64
  <2>3. x = 128 * B(0) + 64 * B(1) + 32 * B(2) + 16 * B(3) + 8 * B(4) + 4 * B(5) + 2 * B(6) + B(7) /\ y = 2 * B(8) + B(9)
    BY <1>2, <1>3
  <2> HIDE DEF B, s, x, y
  <2>4. Conversion!Bits(r, 40 * c, 10) = 4 * x + y
    BY <1>7, <2>2, <2>3
  <2> QED
    BY <2>4 DEF x, y
<1>9. Conversion!Bits(r, 40 * c + 10, 10) = 16 * (s(1) % 64) + (s(2) \div 16)
  <2>1. /\ 40 * c + 10 \in Nat /\ 40 * c + 10 + 10 <= 88
        /\ 40 * c + 10 + 0 = 40 * c + 10
        /\ 40 * c + 10 + 1 = 40 * c + 11
        /\ 40 * c + 10 + 2 = 40 * c + 12
        /\ 40 * c + 10 + 3 = 40 * c + 13
        /\ 40 * c + 10 + 4 = 40 * c + 14
        /\ 40 * c + 10 + 5 = 40 * c + 15
        /\ 40 * c + 10 + 6 = 40 * c + 16
        /\ 40 * c + 10 + 7 = 40 * c + 17
        /\ 40 * c + 10 + 8 = 40 * c + 18
        /\ 40 * c + 10 + 9 = 40 * c + 19
    OBVIOUS
  <2>2. Conversion!Bits(r, 40 * c + 10, 10)
          = 512 * B(10) + 256 * B(11) + 128 * B(12) + 64 * B(13) + 32 * B(14)
            + 16 * B(15) + 8 * B(16) + 4 * B(17) + 2 * B(18) + B(19)
    BY <2>1, Bits10
  <2> DEFINE x == s(1) % 64
             y == s(2) \div 16
  <2>3. x = 32 * B(10) + 16 * B(11) + 8 * B(12) + 4 * B(13) + 2 * B(14) + B(15) /\ y = 8 * B(16) + 4 * B(17) + 2 * B(18) + B(19)
    BY <1>3, <1>4
  <2> HIDE DEF B, s, x, y
  <2>4. Conversion!Bits(r, 40 * c + 10, 10) = 16 * x + y
    BY <1>7, <2>2, <2>3
  <2> QED
    BY <2>4 DEF x, y
<1>10. Conversion!Bits(r, 40 * c + 20, 10) = 64 * (s(2) % 16) + (s(3) \div 4)
  <2>1. /\ 40 * c + 20 \in Nat /\ 40 * c + 20 + 10 <= 88
        /\ 40 * c + 20 + 0 = 40 * c + 20
        /\ 40 * c + 20 + 1 = 40 * c + 21
        /\ 40 * c + 20 + 2 = 40 * c + 22
        /\ 40 * c + 20 + 3 = 40 * c + 23
        /\ 40 * c + 20 + 4 = 40 * c + 24
        /\ 40 * c + 20 + 5 = 40 * c + 25
        /\ 40 * c + 20 + 6 = 40 * c + 26
        /\ 40 * c + 20 + 7 = 40 * c + 27
        /\ 40 * c + 20 + 8 = 40 * c + 28
        /\ 40 * c + 20 + 9 = 40 * c + 29
    OBVIOUS
  <2>2. Conversion!Bits(r, 40 * c + 20, 10)
          = 512 * B(20) + 256 * B(21) + 128 * B(22) + 64 * B(23) + 32 * B(24)
            + 16 * B(25) + 8 * B(26) + 4 * B(27) + 2 * B(28) + B(29)
    BY <2>1, Bits10
  <2> DEFINE x == s(2) % 16
             y == s(3) \div 4
  <2>3. x = 8 * B(20) + 4 * B(21) + 2 * B(22) + B(23) /\ y = 32 * B(24) + 16 * B(25) + 8 * B(26) + 4 * B(27) + 2 * B(28) + B(29)
    BY <1>4, <1>5
  <2> HIDE DEF B, s, x, y
  <2>4. Conversion!Bits(r, 40 * c + 20, 10) = 64 * x + y
    BY <1>7, <2>2, <2>3
  <2> QED
    BY <2>4 DEF x, y
<1>11. Conversion!Bits(r, 40 * c + 30, 10) = 256 * (s(3) % 4) + s(4)
  <2>1. /\ 40 * c + 30 \in Nat /\ 40 * c + 30 + 10 <= 88
        /\ 40 * c + 30 + 0 = 40 * c + 30
        /\ 40 * c + 30 + 1 = 40 * c + 31
        /\ 40 * c + 30 + 2 = 40 * c + 32
        /\ 40 * c + 30 + 3 = 40 * c + 33
        /\ 40 * c + 30 + 4 = 40 * c + 34
        /\ 40 * c + 30 + 5 = 40 * c + 35
        /\ 40 * c + 30 + 6 = 40 * c + 36
        /\ 40 * c + 30 + 7 = 40 * c + 37
        /\ 40 * c + 30 + 8 = 40 * c + 38
        /\ 40 * c + 30 + 9 = 40 * c + 39
    OBVIOUS
  <2>2. Conversion!Bits(r, 40 * c + 30, 10)
          = 512 * B(30) + 256 * B(31) + 128 * B(32) + 64 * B(33) + 32 * B(34)
            + 16 * B(35) + 8 * B(36) + 4 * B(37) + 2 * B(38) + B(39)
    BY <2>1, Bits10
  <2> DEFINE x == s(3) % 4
             y == s(4)
  <2>3. x = 2 * B(30) + B(31) /\ y = 128 * B(32) + 64 * B(33) + 32 * B(34) + 16 * B(35) + 8 * B(36) + 4 * B(37) + 2 * B(38) + B(39)
    BY <1>5, <1>6
  <2> HIDE DEF B, s, x, y
  <2>4. Conversion!Bits(r, 40 * c + 30, 10) = 256 * x + y
    BY <1>7, <2>2, <2>3
  <2> QED
    BY <2>4 DEF x, y
<1>12. /\ s(0) = r[5 * c + 1] /\ s(1) = r[5 * c + 2] /\ s(2) = r[5 * c + 3]
       /\ s(3) = r[5 * c + 4] /\ s(4) = r[5 * c + 5]
  OBVIOUS
<1> HIDE DEF s
<1> QED
  BY <1>8, <1>9, <1>10, <1>11, <1>12

LEMMA UpperEight ==
  ASSUME NEW a \in Nat
  PROVE  /\ (a \div 2^2) % 256 = (((a \div 2^0) % 2^10) \div 4) % 256
         /\ (a \div 2^4) % 256 = (((a \div 2^2) % 2^10) \div 4) % 256
         /\ (a \div 2^6) % 256 = (((a \div 2^4) % 2^10) \div 4) % 256
         /\ (a \div 2^8) % 256 = (((a \div 2^6) % 2^10) \div 4) % 256
<1>1. ASSUME NEW z \in Nat PROVE (z \div 4) % 256 = ((z % 1024) \div 4) % 256
  <2>1. ((z % 1024) \div 4) % 256 = (z % 1024) \div 4
    OBVIOUS
  <2>2. (z \div 4) % 256 = (z % 1024) \div 4
    OBVIOUS
  <2> QED
    BY <2>1, <2>2
<1>2. a \div 2^4 = (a \div 4) \div 4 /\ a \div 2^6 = (a \div 16) \div 4 /\ a \div 2^8 = (a \div 64) \div 4
  OBVIOUS
<1>3. a \div 1 = a /\ a \div 4 \in Nat /\ a \div 16 \in Nat /\ a \div 64 \in Nat
  OBVIOUS
<1>4. /\ (a \div 4) % 256 = ((a % 1024) \div 4) % 256
      /\ ((a \div 4) \div 4) % 256 = (((a \div 4) % 1024) \div 4) % 256
      /\ ((a \div 16) \div 4) % 256 = (((a \div 16) % 1024) \div 4) % 256
      /\ ((a \div 64) \div 4) % 256 = (((a \div 64) % 1024) \div 4) % 256
  BY <1>1, <1>3
<1>5. 2^0 = 1 /\ 2^2 = 4 /\ 2^4 = 16 /\ 2^6 = 64 /\ 2^10 = 1024
  OBVIOUS
<1> QED
  BY <1>2, <1>3, <1>4, <1>5

\* convert_packed_to_16bit: ten bits each
LEMMA TenBits ==
  ASSUME NEW r \in PackedFrame
  PROVE  \A k \in 1..8 : /\ Conversion!Packed16(r, 10, 8)[k] = Conversion!Bits(r, 10 * (k - 1), 10)
                        /\ Conversion!Packed8(r, 10, 8)[k]
                             = (Conversion!Bits(r, 10 * (k - 1), 10) \div 4) % 256
<1> DEFINE f == Conversion!Buffers(r, 10, 8)
<1>1. \A k \in 1..8 : /\ Conversion!Packed16(r, 10, 8)[k] = (f[k].buffer \div 2^f[k].bitsIn) % 2^10
                     /\ Conversion!Packed8(r, 10, 8)[k]
                          = (f[k].buffer \div 2^(f[k].bitsIn + 10 - 8)) % 256
  BY DEF Conversion!Packed16, Conversion!Packed8
<1>2. /\ f[1].bitsIn = 6 /\ f[1].buffer \in Nat /\ f[1].buffer % 2^16 = r[1] * 256 + r[2]
      /\ f[2].bitsIn = 4 /\ f[2].buffer \in Nat /\ f[2].buffer % 2^16 = r[2] * 256 + r[3]
      /\ f[3].bitsIn = 2 /\ f[3].buffer \in Nat /\ f[3].buffer % 2^16 = r[3] * 256 + r[4]
      /\ f[4].bitsIn = 0 /\ f[4].buffer \in Nat /\ f[4].buffer % 2^16 = r[4] * 256 + r[5]
      /\ f[5].bitsIn = 6 /\ f[5].buffer \in Nat /\ f[5].buffer % 2^16 = r[6] * 256 + r[7]
      /\ f[6].bitsIn = 4 /\ f[6].buffer \in Nat /\ f[6].buffer % 2^16 = r[7] * 256 + r[8]
      /\ f[7].bitsIn = 2 /\ f[7].buffer \in Nat /\ f[7].buffer % 2^16 = r[8] * 256 + r[9]
      /\ f[8].bitsIn = 0 /\ f[8].buffer \in Nat /\ f[8].buffer % 2^16 = r[9] * 256 + r[10]
  BY BuffersHold
<1> HIDE DEF f
<1>3. \A i \in 1..11 : r[i] \in 0..255
  BY DEF PackedFrame
<1>4. /\ Conversion!Bits(r, 0, 10) = 4 * r[1] + (r[2] \div 64)
      /\ Conversion!Bits(r, 10, 10) = 16 * (r[2] % 64) + (r[3] \div 16)
      /\ Conversion!Bits(r, 20, 10) = 64 * (r[3] % 16) + (r[4] \div 4)
      /\ Conversion!Bits(r, 30, 10) = 256 * (r[4] % 4) + r[5]
      /\ Conversion!Bits(r, 40, 10) = 4 * r[6] + (r[7] \div 64)
      /\ Conversion!Bits(r, 50, 10) = 16 * (r[7] % 64) + (r[8] \div 16)
      /\ Conversion!Bits(r, 60, 10) = 64 * (r[8] % 16) + (r[9] \div 4)
      /\ Conversion!Bits(r, 70, 10) = 256 * (r[9] % 4) + r[10]
  <2>1. 0 \in 0..1 /\ 1 \in 0..1
    OBVIOUS
  <2>2. /\ Conversion!Bits(r, 0, 10) = 4 * r[1] + (r[2] \div 64)
        /\ Conversion!Bits(r, 10, 10) = 16 * (r[2] % 64) + (r[3] \div 16)
        /\ Conversion!Bits(r, 20, 10) = 64 * (r[3] % 16) + (r[4] \div 4)
        /\ Conversion!Bits(r, 30, 10) = 256 * (r[4] % 4) + r[5]
    BY <2>1, FourValues
  <2>3. /\ Conversion!Bits(r, 40, 10) = 4 * r[6] + (r[7] \div 64)
        /\ Conversion!Bits(r, 50, 10) = 16 * (r[7] % 64) + (r[8] \div 16)
        /\ Conversion!Bits(r, 60, 10) = 64 * (r[8] % 16) + (r[9] \div 4)
        /\ Conversion!Bits(r, 70, 10) = 256 * (r[9] % 4) + r[10]
    BY <2>1, FourValues
  <2> QED
    BY <2>2, <2>3
<1>5. /\ Conversion!Packed16(r, 10, 8)[1] = Conversion!Bits(r, 0, 10)
      /\ Conversion!Packed8(r, 10, 8)[1] = (Conversion!Bits(r, 0, 10) \div 4) % 256
  <2> DEFINE a == f[1].buffer
             x == r[1]
             y == r[2]
  <2>1. /\ a \in Nat /\ x \in 0..255 /\ y \in 0..255 /\ a % 2^16 = x * 256 + y
        /\ Conversion!Bits(r, 0, 10) = 4 * x + (y \div 64)
    BY <1>2, <1>3, <1>4
  <2>2. /\ Conversion!Packed16(r, 10, 8)[1] = (a \div 2^6) % 2^10
        /\ Conversion!Packed8(r, 10, 8)[1] = (a \div 2^8) % 256
    <3>1. /\ Conversion!Packed16(r, 10, 8)[1] = (a \div 2^f[1].bitsIn) % 2^10
          /\ Conversion!Packed8(r, 10, 8)[1] = (a \div 2^(f[1].bitsIn + 10 - 8)) % 256
      BY <1>1
    <3>2. f[1].bitsIn = 6
      BY <1>2
    <3>3. f[1].bitsIn + 10 - 8 = 8
      BY <3>2
    <3> QED
      BY <3>1, <3>2, <3>3
  <2> HIDE DEF a, x, y
  <2>3. (a \div 2^6) % 2^10 = 4 * x + (y \div 64)
    BY <2>1, Shifted, ZenonT(30)
  <2>4. (a \div 2^8) % 256 = (((a \div 2^6) % 2^10) \div 4) % 256
    BY <2>1, UpperEight, SMT
  <2> QED
    BY <2>1, <2>2, <2>3, <2>4
<1>6. /\ Conversion!Packed16(r, 10, 8)[2] = Conversion!Bits(r, 10, 10)
      /\ Conversion!Packed8(r, 10, 8)[2] = (Conversion!Bits(r, 10, 10) \div 4) % 256
  <2> DEFINE a == f[2].buffer
             x == r[2]
             y == r[3]
  <2>1. /\ a \in Nat /\ x \in 0..255 /\ y \in 0..255 /\ a % 2^16 = x * 256 + y
        /\ Conversion!Bits(r, 10, 10) = 16 * (x % 64) + (y \div 16)
    BY <1>2, <1>3, <1>4
  <2>2. /\ Conversion!Packed16(r, 10, 8)[2] = (a \div 2^4) % 2^10
        /\ Conversion!Packed8(r, 10, 8)[2] = (a \div 2^6) % 256
    <3>1. /\ Conversion!Packed16(r, 10, 8)[2] = (a \div 2^f[2].bitsIn) % 2^10
          /\ Conversion!Packed8(r, 10, 8)[2] = (a \div 2^(f[2].bitsIn + 10 - 8)) % 256
      BY <1>1
    <3>2. f[2].bitsIn = 4
      BY <1>2
    <3>3. f[2].bitsIn + 10 - 8 = 6
      BY <3>2
    <3> QED
      BY <3>1, <3>2, <3>3
  <2> HIDE DEF a, x, y
  <2>3. (a \div 2^4) % 2^10 = 16 * (x % 64) + (y \div 16)
    BY <2>1, Shifted, ZenonT(30)
  <2>4. (a \div 2^6) % 256 = (((a \div 2^4) % 2^10) \div 4) % 256
    BY <2>1, UpperEight, SMT
  <2> QED
    BY <2>1, <2>2, <2>3, <2>4
<1>7. /\ Conversion!Packed16(r, 10, 8)[3] = Conversion!Bits(r, 20, 10)
      /\ Conversion!Packed8(r, 10, 8)[3] = (Conversion!Bits(r, 20, 10) \div 4) % 256
  <2> DEFINE a == f[3].buffer
             x == r[3]
             y == r[4]
  <2>1. /\ a \in Nat /\ x \in 0..255 /\ y \in 0..255 /\ a % 2^16 = x * 256 + y
        /\ Conversion!Bits(r, 20, 10) = 64 * (x % 16) + (y \div 4)
    BY <1>2, <1>3, <1>4
  <2>2. /\ Conversion!Packed16(r, 10, 8)[3] = (a \div 2^2) % 2^10
        /\ Conversion!Packed8(r, 10, 8)[3] = (a \div 2^4) % 256
    <3>1. /\ Conversion!Packed16(r, 10, 8)[3] = (a \div 2^f[3].bitsIn) % 2^10
          /\ Conversion!Packed8(r, 10, 8)[3] = (a \div 2^(f[3].bitsIn + 10 - 8)) % 256
      BY <1>1
    <3>2. f[3].bitsIn = 2
      BY <1>2
    <3>3. f[3].bitsIn + 10 - 8 = 4
      BY <3>2
    <3> QED
      BY <3>1, <3>2, <3>3
  <2> HIDE DEF a, x, y
  <2>3. (a \div 2^2) % 2^10 = 64 * (x % 16) + (y \div 4)
    BY <2>1, Shifted, ZenonT(30)
  <2>4. (a \div 2^4) % 256 = (((a \div 2^2) % 2^10) \div 4) % 256
    BY <2>1, UpperEight, SMT
  <2> QED
    BY <2>1, <2>2, <2>3, <2>4
<1>8. /\ Conversion!Packed16(r, 10, 8)[4] = Conversion!Bits(r, 30, 10)
      /\ Conversion!Packed8(r, 10, 8)[4] = (Conversion!Bits(r, 30, 10) \div 4) % 256
  <2> DEFINE a == f[4].buffer
             x == r[4]
             y == r[5]
  <2>1. /\ a \in Nat /\ x \in 0..255 /\ y \in 0..255 /\ a % 2^16 = x * 256 + y
        /\ Conversion!Bits(r, 30, 10) = 256 * (x % 4) + y
    BY <1>2, <1>3, <1>4
  <2>2. /\ Conversion!Packed16(r, 10, 8)[4] = (a \div 2^0) % 2^10
        /\ Conversion!Packed8(r, 10, 8)[4] = (a \div 2^2) % 256
    <3>1. /\ Conversion!Packed16(r, 10, 8)[4] = (a \div 2^f[4].bitsIn) % 2^10
          /\ Conversion!Packed8(r, 10, 8)[4] = (a \div 2^(f[4].bitsIn + 10 - 8)) % 256
      BY <1>1
    <3>2. f[4].bitsIn = 0
      BY <1>2
    <3>3. f[4].bitsIn + 10 - 8 = 2
      BY <3>2
    <3> QED
      BY <3>1, <3>2, <3>3
  <2> HIDE DEF a, x, y
  <2>3. (a \div 2^0) % 2^10 = 256 * (x % 4) + y
    BY <2>1, Shifted, ZenonT(30)
  <2>4. (a \div 2^2) % 256 = (((a \div 2^0) % 2^10) \div 4) % 256
    BY <2>1, UpperEight, SMT
  <2> QED
    BY <2>1, <2>2, <2>3, <2>4
<1>9. /\ Conversion!Packed16(r, 10, 8)[5] = Conversion!Bits(r, 40, 10)
      /\ Conversion!Packed8(r, 10, 8)[5] = (Conversion!Bits(r, 40, 10) \div 4) % 256
  <2> DEFINE a == f[5].buffer
             x == r[6]
             y == r[7]
  <2>1. /\ a \in Nat /\ x \in 0..255 /\ y \in 0..255 /\ a % 2^16 = x * 256 + y
        /\ Conversion!Bits(r, 40, 10) = 4 * x + (y \div 64)
    BY <1>2, <1>3, <1>4
  <2>2. /\ Conversion!Packed16(r, 10, 8)[5] = (a \div 2^6) % 2^10
        /\ Conversion!Packed8(r, 10, 8)[5] = (a \div 2^8) % 256
    <3>1. /\ Conversion!Packed16(r, 10, 8)[5] = (a \div 2^f[5].bitsIn) % 2^10
          /\ Conversion!Packed8(r, 10, 8)[5] = (a \div 2^(f[5].bitsIn + 10 - 8)) % 256
      BY <1>1
    <3>2. f[5].bitsIn = 6
      BY <1>2
    <3>3. f[5].bitsIn + 10 - 8 = 8
      BY <3>2
    <3> QED
      BY <3>1, <3>2, <3>3
  <2> HIDE DEF a, x, y
  <2>3. (a \div 2^6) % 2^10 = 4 * x + (y \div 64)
    BY <2>1, Shifted, ZenonT(30)
  <2>4. (a \div 2^8) % 256 = (((a \div 2^6) % 2^10) \div 4) % 256
    BY <2>1, UpperEight, SMT
  <2> QED
    BY <2>1, <2>2, <2>3, <2>4
<1>10. /\ Conversion!Packed16(r, 10, 8)[6] = Conversion!Bits(r, 50, 10)
      /\ Conversion!Packed8(r, 10, 8)[6] = (Conversion!Bits(r, 50, 10) \div 4) % 256
  <2> DEFINE a == f[6].buffer
             x == r[7]
             y == r[8]
  <2>1. /\ a \in Nat /\ x \in 0..255 /\ y \in 0..255 /\ a % 2^16 = x * 256 + y
        /\ Conversion!Bits(r, 50, 10) = 16 * (x % 64) + (y \div 16)
    BY <1>2, <1>3, <1>4
  <2>2. /\ Conversion!Packed16(r, 10, 8)[6] = (a \div 2^4) % 2^10
        /\ Conversion!Packed8(r, 10, 8)[6] = (a \div 2^6) % 256
    <3>1. /\ Conversion!Packed16(r, 10, 8)[6] = (a \div 2^f[6].bitsIn) % 2^10
          /\ Conversion!Packed8(r, 10, 8)[6] = (a \div 2^(f[6].bitsIn + 10 - 8)) % 256
      BY <1>1
    <3>2. f[6].bitsIn = 4
      BY <1>2
    <3>3. f[6].bitsIn + 10 - 8 = 6
      BY <3>2
    <3> QED
      BY <3>1, <3>2, <3>3
  <2> HIDE DEF a, x, y
  <2>3. (a \div 2^4) % 2^10 = 16 * (x % 64) + (y \div 16)
    BY <2>1, Shifted, ZenonT(30)
  <2>4. (a \div 2^6) % 256 = (((a \div 2^4) % 2^10) \div 4) % 256
    BY <2>1, UpperEight, SMT
  <2> QED
    BY <2>1, <2>2, <2>3, <2>4
<1>11. /\ Conversion!Packed16(r, 10, 8)[7] = Conversion!Bits(r, 60, 10)
      /\ Conversion!Packed8(r, 10, 8)[7] = (Conversion!Bits(r, 60, 10) \div 4) % 256
  <2> DEFINE a == f[7].buffer
             x == r[8]
             y == r[9]
  <2>1. /\ a \in Nat /\ x \in 0..255 /\ y \in 0..255 /\ a % 2^16 = x * 256 + y
        /\ Conversion!Bits(r, 60, 10) = 64 * (x % 16) + (y \div 4)
    BY <1>2, <1>3, <1>4
  <2>2. /\ Conversion!Packed16(r, 10, 8)[7] = (a \div 2^2) % 2^10
        /\ Conversion!Packed8(r, 10, 8)[7] = (a \div 2^4) % 256
    <3>1. /\ Conversion!Packed16(r, 10, 8)[7] = (a \div 2^f[7].bitsIn) % 2^10
          /\ Conversion!Packed8(r, 10, 8)[7] = (a \div 2^(f[7].bitsIn + 10 - 8)) % 256
      BY <1>1
    <3>2. f[7].bitsIn = 2
      BY <1>2
    <3>3. f[7].bitsIn + 10 - 8 = 4
      BY <3>2
    <3> QED
      BY <3>1, <3>2, <3>3
  <2> HIDE DEF a, x, y
  <2>3. (a \div 2^2) % 2^10 = 64 * (x % 16) + (y \div 4)
    BY <2>1, Shifted, ZenonT(30)
  <2>4. (a \div 2^4) % 256 = (((a \div 2^2) % 2^10) \div 4) % 256
    BY <2>1, UpperEight, SMT
  <2> QED
    BY <2>1, <2>2, <2>3, <2>4
<1>12. /\ Conversion!Packed16(r, 10, 8)[8] = Conversion!Bits(r, 70, 10)
      /\ Conversion!Packed8(r, 10, 8)[8] = (Conversion!Bits(r, 70, 10) \div 4) % 256
  <2> DEFINE a == f[8].buffer
             x == r[9]
             y == r[10]
  <2>1. /\ a \in Nat /\ x \in 0..255 /\ y \in 0..255 /\ a % 2^16 = x * 256 + y
        /\ Conversion!Bits(r, 70, 10) = 256 * (x % 4) + y
    BY <1>2, <1>3, <1>4
  <2>2. /\ Conversion!Packed16(r, 10, 8)[8] = (a \div 2^0) % 2^10
        /\ Conversion!Packed8(r, 10, 8)[8] = (a \div 2^2) % 256
    <3>1. /\ Conversion!Packed16(r, 10, 8)[8] = (a \div 2^f[8].bitsIn) % 2^10
          /\ Conversion!Packed8(r, 10, 8)[8] = (a \div 2^(f[8].bitsIn + 10 - 8)) % 256
      BY <1>1
    <3>2. f[8].bitsIn = 0
      BY <1>2
    <3>3. f[8].bitsIn + 10 - 8 = 2
      BY <3>2
    <3> QED
      BY <3>1, <3>2, <3>3
  <2> HIDE DEF a, x, y
  <2>3. (a \div 2^0) % 2^10 = 256 * (x % 4) + y
    BY <2>1, Shifted, ZenonT(30)
  <2>4. (a \div 2^2) % 256 = (((a \div 2^0) % 2^10) \div 4) % 256
    BY <2>1, UpperEight, SMT
  <2> QED
    BY <2>1, <2>2, <2>3, <2>4
<1>13. ASSUME NEW k \in 1..8
       PROVE  /\ Conversion!Packed16(r, 10, 8)[k] = Conversion!Bits(r, 10 * (k - 1), 10)
              /\ Conversion!Packed8(r, 10, 8)[k] = (Conversion!Bits(r, 10 * (k - 1), 10) \div 4) % 256
  <2>1. k \in {1, 2, 3, 4, 5, 6, 7, 8}
    OBVIOUS
  <2>2. CASE k = 1
    <3>1. 10 * (k - 1) = 0
      BY <2>2
    <3> QED
      BY <1>5, <2>2, <3>1
  <2>3. CASE k = 2
    <3>1. 10 * (k - 1) = 10
      BY <2>3
    <3> QED
      BY <1>6, <2>3, <3>1
  <2>4. CASE k = 3
    <3>1. 10 * (k - 1) = 20
      BY <2>4
    <3> QED
      BY <1>7, <2>4, <3>1
  <2>5. CASE k = 4
    <3>1. 10 * (k - 1) = 30
      BY <2>5
    <3> QED
      BY <1>8, <2>5, <3>1
  <2>6. CASE k = 5
    <3>1. 10 * (k - 1) = 40
      BY <2>6
    <3> QED
      BY <1>9, <2>6, <3>1
  <2>7. CASE k = 6
    <3>1. 10 * (k - 1) = 50
      BY <2>7
    <3> QED
      BY <1>10, <2>7, <3>1
  <2>8. CASE k = 7
    <3>1. 10 * (k - 1) = 60
      BY <2>8
    <3> QED
      BY <1>11, <2>8, <3>1
  <2>9. CASE k = 8
    <3>1. 10 * (k - 1) = 70
      BY <2>9
    <3> QED
      BY <1>12, <2>9, <3>1
  <2> QED
    BY <2>1, <2>2, <2>3, <2>4, <2>5, <2>6, <2>7, <2>8, <2>9
<1> QED
  BY <1>13

\* convert_packed_to_8bit: the upper eight of ten bits
LEMMA UpperBits ==
  ASSUME NEW r \in PackedFrame
  PROVE  \A k \in 1..8 : Conversion!Packed8(r, 10, 8)[k] = Conversion!Bits(r, 10 * (k - 1), 8)
<1> SUFFICES ASSUME NEW k \in 1..8
             PROVE  Conversion!Packed8(r, 10, 8)[k] = Conversion!Bits(r, 10 * (k - 1), 8)
  OBVIOUS
<1> DEFINE f == 10 * (k - 1)
           b(j) == Conversion!Bit(r, f + j)
<1>1. f \in 0..70 /\ f \in Nat /\ f + 10 <= 88 /\ f + 8 <= 88
  OBVIOUS
<1>2. Conversion!Packed8(r, 10, 8)[k] = (Conversion!Bits(r, f, 10) \div 4) % 256
  BY TenBits
<1> HIDE DEF f
<1>3. ASSUME NEW j \in 0..9 PROVE b(j) \in 0..1
  <2>1. f + j \in 0..87
    BY <1>1
  <2> QED
    BY <2>1, BitIsBit
<1>4. f + 0 = f
  BY <1>1
<1>5. Conversion!Bits(r, f, 10) = 512 * b(0) + 256 * b(1) + 128 * b(2) + 64 * b(3) + 32 * b(4)
                                  + 16 * b(5) + 8 * b(6) + 4 * b(7) + 2 * b(8) + b(9)
  BY <1>1, <1>4, Bits10
<1>6. Conversion!Bits(r, f, 8) = 128 * b(0) + 64 * b(1) + 32 * b(2) + 16 * b(3) + 8 * b(4)
                                 + 4 * b(5) + 2 * b(6) + b(7)
  BY <1>1, <1>4, Bits8
<1>7. /\ b(0) \in 0..1 /\ b(1) \in 0..1 /\ b(2) \in 0..1 /\ b(3) \in 0..1 /\ b(4) \in 0..1
      /\ b(5) \in 0..1 /\ b(6) \in 0..1 /\ b(7) \in 0..1 /\ b(8) \in 0..1 /\ b(9) \in 0..1
  BY <1>3
<1> HIDE DEF b
<1> DEFINE x == Conversion!Bits(r, f, 8)
           y == Conversion!Bits(r, f, 10)
<1>8. x \in 0..255
  BY <1>6, <1>7
<1>9. y = 4 * x + 2 * b(8) + b(9)
  BY <1>5, <1>6, <1>7
<1> HIDE DEF x, y
<1>10. (y \div 4) % 256 = x
  BY <1>7, <1>8, <1>9
<1> QED
  BY <1>2, <1>10 DEF x, y, f

-----------------------------------------------------------------------------
(* Pictures.                                                               *)

Picture == [Conversion!Pixels -> 0..255]

LEMMA MirrorIs ==
  ASSUME NEW i \in Int, NEW n \in Nat, n >= 2
  PROVE  /\ i < 0 => Conversion!Mirror(i, n) = 0 - i
         /\ i >= 0 /\ i < n => Conversion!Mirror(i, n) = i
         /\ i >= n => Conversion!Mirror(i, n) = 2 * (n - 1) - i
<1>1. -i = 0 - i
  OBVIOUS
<1> QED
  BY <1>1 DEF Conversion!Mirror

\* The three neighbours slide along the line.
LEMMA WindowIs ==
  ASSUME NEW line \in [0..(Width - 1) -> Nat]
  PROVE  \A x \in 0..(Width - 1) :
           Conversion!Window(line)[x] = <<line[Conversion!Mirror(x - 1, Width)], line[x],
                                          line[Conversion!Mirror(x + 1, Width)]>>
<1> DEFINE M(i) == Conversion!Mirror(i, Width)
           D == 0..(Width - 1)
           g == [x \in D |-> <<line[M(x - 1)], line[x], line[M(x + 1)]>>]
           Slide(w, x) == IF x = 0 THEN <<line[1], line[0], line[1]>>
                          ELSE <<w[x - 1][2], w[x - 1][3],
                                 IF x < Width - 1 THEN line[x + 1] ELSE w[x - 1][2]>>
           f == CHOOSE w : w = [x \in D |-> Slide(w, x)]
<1>1. Width \in Nat /\ Width >= 2
  BY PicturesAssumption
<1>2. /\ M(0 - 1) = 1 /\ M(0 + 1) = 1
      /\ \A x \in D : x > 0 => M(x - 1) = x - 1
      /\ \A x \in D : x < Width - 1 => M(x + 1) = x + 1
      /\ \A x \in D : x = Width - 1 => M(x + 1) = x - 1
  <2>1. M(0 - 1) = 1 /\ M(0 + 1) = 1
    <3>1. 0 - 1 \in Int /\ 0 - 1 < 0 /\ 0 - (0 - 1) = 1 /\ 0 + 1 \in Int /\ 0 + 1 >= 0 /\ 0 + 1 < Width /\ 0 + 1 = 1
      BY <1>1
    <3>2. M(0 - 1) = 0 - (0 - 1) /\ M(0 + 1) = 0 + 1
      BY <1>1, <3>1, MirrorIs
    <3> QED
      BY <3>1, <3>2
  <2>2. ASSUME NEW x \in D, x > 0 PROVE M(x - 1) = x - 1
    BY <1>1, <2>2, MirrorIs
  <2>3. ASSUME NEW x \in D, x < Width - 1 PROVE M(x + 1) = x + 1
    BY <1>1, <2>3, MirrorIs
  <2>4. ASSUME NEW x \in D, x = Width - 1 PROVE M(x + 1) = x - 1
    BY <1>1, <2>4, MirrorIs
  <2> QED
    BY <2>1, <2>2, <2>3, <2>4
<1>3. Conversion!Window(line) = f
  BY DEF Conversion!Window
<1> HIDE DEF M
<1>4. ASSUME NEW w, NEW x \in D, x > 0, w[x - 1] = g[x - 1] PROVE Slide(w, x) = g[x]
  <2>1. x - 1 \in D /\ x # 0 /\ x - 1 < Width - 1 /\ (x - 1) + 1 = x
    BY <1>1, <1>4
  <2>2. g[x - 1] = <<line[M((x - 1) - 1)], line[x - 1], line[M((x - 1) + 1)]>>
    BY <2>1
  <2>3. M((x - 1) + 1) = x
    BY <1>2, <2>1
  <2>4. w[x - 1][2] = line[x - 1] /\ w[x - 1][3] = line[x]
    BY <1>4, <2>2, <2>3
  <2>5. M(x - 1) = x - 1
    BY <1>2, <1>4
  <2>6. M(x + 1) = IF x < Width - 1 THEN x + 1 ELSE x - 1
    BY <1>1, <1>2
  <2>7. Slide(w, x) = <<line[x - 1], line[x], line[M(x + 1)]>>
    BY <2>1, <2>4, <2>6
  <2> QED
    BY <2>5, <2>7
<1>5. g[0] = Slide(g, 0) /\ \A w : Slide(w, 0) = g[0]
  <2>1. 0 \in D
    BY <1>1
  <2>2. g[0] = <<line[M(0 - 1)], line[0], line[M(0 + 1)]>>
    BY <2>1
  <2> QED
    BY <1>2, <2>2
<1>6. ASSUME NEW x \in D PROVE g[x] = Slide(g, x)
  <2>1. CASE x = 0
    BY <1>5, <2>1
  <2>2. CASE x # 0
    <3>1. x > 0
      BY <1>1, <2>2
    <3> HIDE DEF g, Slide
    <3> QED
      BY <1>4, <3>1
  <2> QED
    BY <2>1, <2>2
<1>7. g = [x \in D |-> Slide(g, x)]
  <2>1. g = [x \in D |-> g[x]]
    OBVIOUS
  <2> HIDE DEF g
  <2> QED
    BY <1>6, <2>1
<1> HIDE DEF g
<1>8. f = [x \in D |-> Slide(f, x)]
  BY <1>7, Zenon
<1> HIDE DEF f
<1>9. \A x \in D : f[x] = Slide(f, x)
  BY <1>8
<1>10. \A x \in D : f[x] = g[x]
  <2> DEFINE S == {x \in D : f[x] # g[x]}
  <2> SUFFICES ASSUME S # {} PROVE FALSE
    OBVIOUS
  <2>1. PICK x \in S : \A z \in S : x <= z
    <3>1. S \subseteq Nat
      BY <1>1
    <3> QED
      BY <3>1, Least
  <2>2. x \in D /\ x # 0
    BY <1>5, <1>9
  <2>3. x > 0 /\ x - 1 \in D /\ x - 1 \notin S
    <3>1. x > 0 /\ x - 1 \in D /\ ~(x <= x - 1)
      BY <1>1, <2>2
    <3> HIDE DEF S
    <3> QED
      BY <2>1, <3>1
  <2>4. f[x - 1] = g[x - 1]
    BY <2>3
  <2>5. f[x] = g[x]
    BY <1>4, <1>9, <2>2, <2>3, <2>4
  <2> QED
    BY <2>5
<1> QED
  BY <1>3, <1>10 DEF g, M

\* A site beyond the border measures what the one mirrored there measures.
LEMMA MirrorParity ==
  ASSUME NEW n \in Nat, n >= 2, NEW x \in 0..(n - 1), NEW i \in {-1, 0, 1}
  PROVE  /\ Conversion!Mirror(x + i, n) \in 0..(n - 1)
         /\ Conversion!Mirror(x + i, n) % 2 = (x + i) % 2
<1> DEFINE z == x + i
           m == Conversion!Mirror(z, n)
<1>1. z \in Int /\ z >= 0 - 1 /\ z <= n
  OBVIOUS
<1> HIDE DEF z
<1>2. /\ z < 0 => m = 0 - z
      /\ z >= 0 /\ z < n => m = z
      /\ z >= n => m = 2 * (n - 1) - z
  BY <1>1, MirrorIs
<1> HIDE DEF m
<1>3. CASE z < 0
  <2>1. z = 0 - 1 /\ m = 1
    BY <1>1, <1>2, <1>3
  <2> QED
    BY <2>1 DEF z, m
<1>4. CASE z >= 0 /\ z < n
  <2>1. m = z /\ m \in 0..(n - 1)
    BY <1>1, <1>2, <1>4
  <2> QED
    BY <2>1 DEF z, m
<1>5. CASE z >= n
  <2>1. z = n /\ m = n - 2
    BY <1>1, <1>2, <1>5
  <2>2. m \in 0..(n - 1) /\ m % 2 = z % 2
    BY <2>1
  <2> QED
    BY <2>2 DEF z, m
<1> QED
  BY <1>1, <1>3, <1>4, <1>5

\* Whether a site measures a colour, from its parity
Parity(x, y, c) ==
  CASE c = 1 -> y % 2 = 0 /\ x % 2 = 1
    [] c = 2 -> (x % 2) = (y % 2)
    [] c = 3 -> y % 2 = 1 /\ x % 2 = 0
Offsets == {-1, 0, 1}
LEMMA Measured ==
  ASSUME NEW q \in Conversion!Pixels, NEW i \in Offsets, NEW j \in Offsets, NEW c \in 1..3
  PROVE  /\ Conversion!Site(q, <<i, j>>) \in Conversion!Pixels
         /\ Conversion!Measures(Conversion!Site(q, <<i, j>>), c) <=> Parity(q[1] + i, q[2] + j, c)
<1> DEFINE s == Conversion!Mirror(q[1] + i, Width)
           t == Conversion!Mirror(q[2] + j, Height)
           x == q[1] + i
           y == q[2] + j
<1>1. /\ q[1] \in 0..(Width - 1) /\ q[2] \in 0..(Height - 1)
      /\ Width \in Nat /\ Width >= 2 /\ Height \in Nat /\ Height >= 2
  BY PicturesAssumption DEF Conversion!Pixels
<1>2. Conversion!Site(q, <<i, j>>) = <<s, t>>
  BY DEF Conversion!Site
<1>3. s \in 0..(Width - 1) /\ s % 2 = x % 2
  BY <1>1, MirrorParity DEF Offsets
<1>4. t \in 0..(Height - 1) /\ t % 2 = y % 2
  BY <1>1, MirrorParity DEF Offsets
<1>5. x \in Int /\ y \in Int /\ s \in Int /\ t \in Int
  BY <1>1, <1>3, <1>4 DEF Offsets
<1>6. <<s, t>> \in Conversion!Pixels
  BY <1>3, <1>4 DEF Conversion!Pixels
<1> HIDE DEF s, t, x, y
<1>7. (s + t) % 2 = 0 <=> s % 2 = t % 2
  BY <1>5
<1>8. Conversion!Measures(<<s, t>>, c) <=> Parity(x, y, c)
  <2>1. CASE c = 1
    BY <1>3, <1>4, <2>1 DEF Conversion!Measures, Parity
  <2>2. CASE c = 2
    BY <1>3, <1>4, <1>7, <2>2 DEF Conversion!Measures, Parity
  <2>3. CASE c = 3
    BY <1>3, <1>4, <2>3 DEF Conversion!Measures, Parity
  <2> QED
    BY <2>1, <2>2, <2>3
<1> QED
  BY <1>2, <1>6, <1>8 DEF x, y

Self == {<<0, 0>>}
Beside == {<<-1, 0>>, <<1, 0>>}
AboveBelow == {<<0, -1>>, <<0, 1>>}
Cross == {<<-1, 0>>, <<1, 0>>, <<0, -1>>, <<0, 1>>}
Corners == {<<-1, -1>>, <<1, -1>>, <<-1, 1>>, <<1, 1>>}

LEMMA AroundIs ==
  /\ \A i, j \in Offsets : <<i, j>> \in Conversion!Around
  /\ \A d \in Conversion!Around : d[1] \in Offsets /\ d[2] \in Offsets /\ d = <<d[1], d[2]>>
  BY DEF Offsets, Conversion!Around

\* Which offsets are the nearest, from the parities of a pixel
LEMMA NearestIs ==
  ASSUME NEW q \in Conversion!Pixels, NEW c \in 1..3
  PROVE  LET x == q[1] % 2  y == q[2] % 2  N == Conversion!Nearest(q, c) IN
         /\ x = 0 /\ y = 0 => N = IF c = 1 THEN Beside ELSE IF c = 2 THEN Self ELSE AboveBelow
         /\ x = 1 /\ y = 0 => N = IF c = 1 THEN Self ELSE IF c = 2 THEN Cross ELSE Corners
         /\ x = 0 /\ y = 1 => N = IF c = 1 THEN Corners ELSE IF c = 2 THEN Cross ELSE Self
         /\ x = 1 /\ y = 1 => N = IF c = 1 THEN AboveBelow ELSE IF c = 2 THEN Self ELSE Beside
<1> DEFINE x == q[1] % 2
           y == q[2] % 2
           S == {d \in Conversion!Around : Conversion!Measures(Conversion!Site(q, d), c)}
           N == Conversion!Nearest(q, c)
<1>1. q[1] \in Nat /\ q[2] \in Nat
  BY PicturesAssumption DEF Conversion!Pixels
<1>2. ASSUME NEW i \in Offsets, NEW j \in Offsets
      PROVE  <<i, j>> \in S <=> Parity(q[1] + i, q[2] + j, c)
  BY AroundIs, Measured
<1>3. N = IF <<0, 0>> \in S THEN {<<0, 0>>}
          ELSE IF \E d \in S : d[1] = 0 \/ d[2] = 0 THEN {d \in S : d[1] = 0 \/ d[2] = 0} ELSE S
  BY DEF Conversion!Nearest
<1>4. /\ (q[1] + 0) % 2 = x /\ (q[1] + (-1)) % 2 = 1 - x /\ (q[1] + 1) % 2 = 1 - x
      /\ (q[2] + 0) % 2 = y /\ (q[2] + (-1)) % 2 = 1 - y /\ (q[2] + 1) % 2 = 1 - y
  BY <1>1
<1>5. \A d \in S : \E i, j \in Offsets : d = <<i, j>>
  BY AroundIs
<1> HIDE DEF S, N, x, y
<1>6. -1 \in Offsets /\ 0 \in Offsets /\ 1 \in Offsets
  BY DEF Offsets
\* what each of the nine sites measures
<1> DEFINE P(a, b) == CASE c = 1 -> b = 0 /\ a = 1
                        [] c = 2 -> a = b
                        [] c = 3 -> b = 1 /\ a = 0
<1>7. /\ <<0, 0>> \in S <=> P(x, y)
      /\ <<-1, 0>> \in S <=> P(1 - x, y)
      /\ <<1, 0>> \in S <=> P(1 - x, y)
      /\ <<0, -1>> \in S <=> P(x, 1 - y)
      /\ <<0, 1>> \in S <=> P(x, 1 - y)
      /\ <<-1, -1>> \in S <=> P(1 - x, 1 - y)
      /\ <<1, -1>> \in S <=> P(1 - x, 1 - y)
      /\ <<-1, 1>> \in S <=> P(1 - x, 1 - y)
      /\ <<1, 1>> \in S <=> P(1 - x, 1 - y)
  <2>1. <<0, 0>> \in S <=> P(x, y)
    <3>1. Parity(q[1] + 0, q[2] + 0, c) <=> P(x, y)
      BY <1>4 DEF Parity
    <3> QED
      BY <1>2, <1>6, <3>1
  <2>2. <<-1, 0>> \in S <=> P(1 - x, y)
    <3>1. Parity(q[1] + (-1), q[2] + 0, c) <=> P(1 - x, y)
      BY <1>4 DEF Parity
    <3> QED
      BY <1>2, <1>6, <3>1
  <2>3. <<1, 0>> \in S <=> P(1 - x, y)
    <3>1. Parity(q[1] + 1, q[2] + 0, c) <=> P(1 - x, y)
      BY <1>4 DEF Parity
    <3> QED
      BY <1>2, <1>6, <3>1
  <2>4. <<0, -1>> \in S <=> P(x, 1 - y)
    <3>1. Parity(q[1] + 0, q[2] + (-1), c) <=> P(x, 1 - y)
      BY <1>4 DEF Parity
    <3> QED
      BY <1>2, <1>6, <3>1
  <2>5. <<0, 1>> \in S <=> P(x, 1 - y)
    <3>1. Parity(q[1] + 0, q[2] + 1, c) <=> P(x, 1 - y)
      BY <1>4 DEF Parity
    <3> QED
      BY <1>2, <1>6, <3>1
  <2>6. <<-1, -1>> \in S <=> P(1 - x, 1 - y)
    <3>1. Parity(q[1] + (-1), q[2] + (-1), c) <=> P(1 - x, 1 - y)
      BY <1>4 DEF Parity
    <3> QED
      BY <1>2, <1>6, <3>1
  <2>7. <<1, -1>> \in S <=> P(1 - x, 1 - y)
    <3>1. Parity(q[1] + 1, q[2] + (-1), c) <=> P(1 - x, 1 - y)
      BY <1>4 DEF Parity
    <3> QED
      BY <1>2, <1>6, <3>1
  <2>8. <<-1, 1>> \in S <=> P(1 - x, 1 - y)
    <3>1. Parity(q[1] + (-1), q[2] + 1, c) <=> P(1 - x, 1 - y)
      BY <1>4 DEF Parity
    <3> QED
      BY <1>2, <1>6, <3>1
  <2>9. <<1, 1>> \in S <=> P(1 - x, 1 - y)
    <3>1. Parity(q[1] + 1, q[2] + 1, c) <=> P(1 - x, 1 - y)
      BY <1>4 DEF Parity
    <3> QED
      BY <1>2, <1>6, <3>1
  <2> QED
    BY <2>1, <2>2, <2>3, <2>4, <2>5, <2>6, <2>7, <2>8, <2>9
<1> DEFINE a == P(x, y)
           b == P(1 - x, y)
           e == P(x, 1 - y)
           g == P(1 - x, 1 - y)
<1>8. /\ x = 0 /\ y = 0 => IF c = 1 THEN ~a /\ b /\ ~e ELSE IF c = 2 THEN a ELSE ~a /\ ~b /\ e
      /\ x = 1 /\ y = 0 => IF c = 1 THEN a ELSE IF c = 2 THEN ~a /\ b /\ e ELSE ~a /\ ~b /\ ~e /\ g
      /\ x = 0 /\ y = 1 => IF c = 1 THEN ~a /\ ~b /\ ~e /\ g ELSE IF c = 2 THEN ~a /\ b /\ e ELSE a
      /\ x = 1 /\ y = 1 => IF c = 1 THEN ~a /\ ~b /\ e ELSE IF c = 2 THEN a ELSE ~a /\ b /\ ~e
  <2>1. CASE c = 1
    BY <2>1
  <2>2. CASE c = 2
    BY <2>2
  <2>3. CASE c = 3
    BY <2>3
  <2>4. c = 1 \/ c = 2 \/ c = 3
    OBVIOUS
  <2> HIDE DEF P, a, b, e, g
  <2> QED
    BY <2>1, <2>2, <2>3, <2>4
<1> HIDE DEF P, a, b, e, g
<1>9. a => N = Self
  BY <1>3, <1>7 DEF a, Self
<1>10. ASSUME ~a PROVE N = IF b \/ e THEN {d \in S : d[1] = 0 \/ d[2] = 0} ELSE S
  <2>1. <<0, 0>> \notin S
    BY <1>7, <1>10 DEF a
  <2>2. (\E d \in S : d[1] = 0 \/ d[2] = 0) <=> b \/ e
    <3>1. b => <<1, 0>> \in S /\ <<1, 0>>[2] = 0
      BY <1>7 DEF b
    <3>2. e => <<0, 1>> \in S /\ <<0, 1>>[1] = 0
      BY <1>7 DEF e
    <3>3. ASSUME NEW d \in S, d[1] = 0 \/ d[2] = 0 PROVE b \/ e
      <4>1. PICK i, j \in Offsets : d = <<i, j>>
        BY <1>5
      <4>2. d \in {<<0, 0>>, <<-1, 0>>, <<1, 0>>, <<0, -1>>, <<0, 1>>}
        BY <3>3, <4>1 DEF Offsets
      <4> QED
        BY <1>7, <2>1, <4>2 DEF b, e
    <3> QED
      BY <3>1, <3>2, <3>3
  <2> QED
    BY <1>3, <2>1, <2>2
<1>11. ASSUME NEW d
       PROVE  d \in S <=> (d \in Self /\ a) \/ (d \in Beside /\ b)
                            \/ (d \in AboveBelow /\ e) \/ (d \in Corners /\ g)
  <2>1. /\ <<0, 0>> \in S <=> a
        /\ <<-1, 0>> \in S <=> b
        /\ <<1, 0>> \in S <=> b
        /\ <<0, -1>> \in S <=> e
        /\ <<0, 1>> \in S <=> e
        /\ <<-1, -1>> \in S <=> g
        /\ <<1, -1>> \in S <=> g
        /\ <<-1, 1>> \in S <=> g
        /\ <<1, 1>> \in S <=> g
    BY <1>7, Zenon DEF a, b, e, g
  <2>2. d \in S => d \in Self \/ d \in Beside \/ d \in AboveBelow \/ d \in Corners
    BY <1>5 DEF Offsets, Self, Beside, AboveBelow, Corners
  <2>3. d \in Self => (d \in S <=> a)
    BY <2>1, Zenon DEF Self
  <2>4. d \in Beside => (d \in S <=> b)
    BY <2>1, Zenon DEF Beside
  <2>5. d \in AboveBelow => (d \in S <=> e)
    BY <2>1, Zenon DEF AboveBelow
  <2>6. d \in Corners => (d \in S <=> g)
    BY <2>1, Zenon DEF Corners
  <2> QED
    BY <2>2, <2>3, <2>4, <2>5, <2>6, Zenon
<1>12. ASSUME ~a, b, ~e PROVE N = Beside
  <2>1. ASSUME NEW d PROVE d \in N <=> d \in Beside
    <3>1. N = {z \in S : z[1] = 0 \/ z[2] = 0}
      BY <1>10, <1>12
    <3>2. \A z \in Beside : z[1] = 0 \/ z[2] = 0
      BY DEF Beside
    <3>3. \A z \in Corners : z[1] # 0 /\ z[2] # 0
      BY DEF Corners
    <3>4. d \in S <=> d \in Beside \/ (g /\ d \in Corners)
      BY <1>11, <1>12, Zenon
    <3> QED
      BY <3>1, <3>2, <3>3, <3>4
  <2> QED
    BY <1>10, <1>12, <2>1 DEF Beside
<1>13. ASSUME ~a, ~b, e PROVE N = AboveBelow
  <2>1. ASSUME NEW d PROVE d \in N <=> d \in AboveBelow
    <3>1. N = {z \in S : z[1] = 0 \/ z[2] = 0}
      BY <1>10, <1>13
    <3>2. \A z \in AboveBelow : z[1] = 0 \/ z[2] = 0
      BY DEF AboveBelow
    <3>3. \A z \in Corners : z[1] # 0 /\ z[2] # 0
      BY DEF Corners
    <3>4. d \in S <=> d \in AboveBelow \/ (g /\ d \in Corners)
      BY <1>11, <1>13, Zenon
    <3> QED
      BY <3>1, <3>2, <3>3, <3>4
  <2> QED
    BY <1>10, <1>13, <2>1 DEF AboveBelow
<1>14. ASSUME ~a, b, e PROVE N = Cross
  <2>1. ASSUME NEW d PROVE d \in N <=> d \in Cross
    <3>1. N = {z \in S : z[1] = 0 \/ z[2] = 0}
      BY <1>10, <1>14
    <3>2. \A z \in Cross : z[1] = 0 \/ z[2] = 0
      BY DEF Cross
    <3>3. \A z \in Corners : z[1] # 0 /\ z[2] # 0
      BY DEF Corners
    <3>4. d \in S <=> d \in Cross \/ (g /\ d \in Corners)
      <4>1. d \in Cross <=> d \in Beside \/ d \in AboveBelow
        BY Zenon DEF Cross, Beside, AboveBelow
      <4> QED
        BY <1>11, <1>14, <4>1, Zenon
    <3> QED
      BY <3>1, <3>2, <3>3, <3>4
  <2> QED
    BY <1>10, <1>14, <2>1 DEF Cross
<1>15. ASSUME ~a, ~b, ~e, g PROVE N = Corners
  <2>1. ASSUME NEW d PROVE d \in N <=> d \in Corners
    BY <1>10, <1>11, <1>15 DEF Corners
  <2> QED
    BY <1>10, <1>15, <2>1 DEF Corners
<1>16. /\ x = 0 /\ y = 0 => N = IF c = 1 THEN Beside ELSE IF c = 2 THEN Self ELSE AboveBelow
       /\ x = 1 /\ y = 0 => N = IF c = 1 THEN Self ELSE IF c = 2 THEN Cross ELSE Corners
       /\ x = 0 /\ y = 1 => N = IF c = 1 THEN Corners ELSE IF c = 2 THEN Cross ELSE Self
       /\ x = 1 /\ y = 1 => N = IF c = 1 THEN AboveBelow ELSE IF c = 2 THEN Self ELSE Beside
  BY <1>8, <1>9, <1>12, <1>13, <1>14, <1>15
<1> QED
  BY <1>16 DEF x, y, N

LEMMA SumsAround ==
  ASSUME NEW f \in [Conversion!Around -> Nat]
  PROVE  /\ Conversion!SumAround(Self, f) = f[<<0, 0>>]
         /\ Conversion!SumAround(Beside, f) = f[<<-1, 0>>] + f[<<1, 0>>]
         /\ Conversion!SumAround(AboveBelow, f) = f[<<0, -1>>] + f[<<0, 1>>]
         /\ Conversion!SumAround(Cross, f) = f[<<-1, 0>>] + f[<<1, 0>>] + f[<<0, -1>>] + f[<<0, 1>>]
         /\ Conversion!SumAround(Corners, f)
              = f[<<-1, -1>>] + f[<<1, -1>>] + f[<<-1, 1>>] + f[<<1, 1>>]
<1> DEFINE fmm == f[<<-1, -1>>]
           fzm == f[<<0, -1>>]
           fpm == f[<<1, -1>>]
           fmz == f[<<-1, 0>>]
           fzz == f[<<0, 0>>]
           fpz == f[<<1, 0>>]
           fmp == f[<<-1, 1>>]
           fzp == f[<<0, 1>>]
           fpp == f[<<1, 1>>]
<1>1. /\ fmm \in Nat
      /\ fzm \in Nat
      /\ fpm \in Nat
      /\ fmz \in Nat
      /\ fzz \in Nat
      /\ fpz \in Nat
      /\ fmp \in Nat
      /\ fzp \in Nat
      /\ fpp \in Nat
  <2>1. /\ <<-1, -1>> \in Conversion!Around
        /\ <<0, -1>> \in Conversion!Around
        /\ <<1, -1>> \in Conversion!Around
        /\ <<-1, 0>> \in Conversion!Around
        /\ <<0, 0>> \in Conversion!Around
        /\ <<1, 0>> \in Conversion!Around
        /\ <<-1, 1>> \in Conversion!Around
        /\ <<0, 1>> \in Conversion!Around
        /\ <<1, 1>> \in Conversion!Around
    BY DEF Conversion!Around
  <2> QED
    BY <2>1
<1> HIDE DEF fmm, fzm, fpm, fmz, fzz, fpz, fmp, fzp, fpp
<1>2. ASSUME NEW S
      PROVE  Conversion!SumAround(S, f) =
               (IF <<-1, -1>> \in S THEN fmm ELSE 0) + (IF <<0, -1>> \in S THEN fzm ELSE 0)
                 + (IF <<1, -1>> \in S THEN fpm ELSE 0)
               + ((IF <<-1, 0>> \in S THEN fmz ELSE 0) + (IF <<0, 0>> \in S THEN fzz ELSE 0)
                 + (IF <<1, 0>> \in S THEN fpz ELSE 0))
               + ((IF <<-1, 1>> \in S THEN fmp ELSE 0) + (IF <<0, 1>> \in S THEN fzp ELSE 0)
                 + (IF <<1, 1>> \in S THEN fpp ELSE 0))
  BY Zenon DEF Conversion!SumAround, fmm, fzm, fpm, fmz, fzz, fpz, fmp, fzp, fpp
<1>3. Conversion!SumAround(Self, f) = fzz
  <2>1. /\ <<-1, -1>> \notin Self
        /\ <<0, -1>> \notin Self
        /\ <<1, -1>> \notin Self
        /\ <<-1, 0>> \notin Self
        /\ <<0, 0>> \in Self
        /\ <<1, 0>> \notin Self
        /\ <<-1, 1>> \notin Self
        /\ <<0, 1>> \notin Self
        /\ <<1, 1>> \notin Self
    BY DEF Self
  <2> QED
    BY <1>1, <1>2, <2>1
<1>4. Conversion!SumAround(Beside, f) = fmz + fpz
  <2>1. /\ <<-1, -1>> \notin Beside
        /\ <<0, -1>> \notin Beside
        /\ <<1, -1>> \notin Beside
        /\ <<-1, 0>> \in Beside
        /\ <<0, 0>> \notin Beside
        /\ <<1, 0>> \in Beside
        /\ <<-1, 1>> \notin Beside
        /\ <<0, 1>> \notin Beside
        /\ <<1, 1>> \notin Beside
    BY DEF Beside
  <2> QED
    BY <1>1, <1>2, <2>1
<1>5. Conversion!SumAround(AboveBelow, f) = fzm + fzp
  <2>1. /\ <<-1, -1>> \notin AboveBelow
        /\ <<0, -1>> \in AboveBelow
        /\ <<1, -1>> \notin AboveBelow
        /\ <<-1, 0>> \notin AboveBelow
        /\ <<0, 0>> \notin AboveBelow
        /\ <<1, 0>> \notin AboveBelow
        /\ <<-1, 1>> \notin AboveBelow
        /\ <<0, 1>> \in AboveBelow
        /\ <<1, 1>> \notin AboveBelow
    BY DEF AboveBelow
  <2> QED
    BY <1>1, <1>2, <2>1
<1>6. Conversion!SumAround(Cross, f) = fmz + fpz + fzm + fzp
  <2>1. /\ <<-1, -1>> \notin Cross
        /\ <<0, -1>> \in Cross
        /\ <<1, -1>> \notin Cross
        /\ <<-1, 0>> \in Cross
        /\ <<0, 0>> \notin Cross
        /\ <<1, 0>> \in Cross
        /\ <<-1, 1>> \notin Cross
        /\ <<0, 1>> \in Cross
        /\ <<1, 1>> \notin Cross
    BY DEF Cross
  <2> QED
    BY <1>1, <1>2, <2>1
<1>7. Conversion!SumAround(Corners, f) = fmm + fpm + fmp + fpp
  <2>1. /\ <<-1, -1>> \in Corners
        /\ <<0, -1>> \notin Corners
        /\ <<1, -1>> \in Corners
        /\ <<-1, 0>> \notin Corners
        /\ <<0, 0>> \notin Corners
        /\ <<1, 0>> \notin Corners
        /\ <<-1, 1>> \in Corners
        /\ <<0, 1>> \notin Corners
        /\ <<1, 1>> \in Corners
    BY DEF Corners
  <2> QED
    BY <1>1, <1>2, <2>1
<1> QED
  BY <1>3, <1>4, <1>5, <1>6, <1>7 DEF fmm, fzm, fpm, fmz, fzz, fpz, fmp, fzp, fpp

LEMMA MeanIs ==
  ASSUME NEW a \in Nat, NEW b \in Nat
  PROVE  /\ Conversion!Mean(a, b) \in Nat
         /\ 2 * Conversion!Mean(a, b) <= a + b /\ a + b <= 2 * Conversion!Mean(a, b) + 1
  BY DEF Conversion!Mean

\* A pixel and its neighbours, mirrored at the borders
At(p, q, i, j) == p[Conversion!Site(q, <<i, j>>)]
LEMMA BayerIs ==
  ASSUME NEW p \in Picture, NEW q \in Conversion!Pixels
  PROVE  LET a(i, j) == At(p, q, i, j)
             x == q[1]  y == q[2]
             beside == Conversion!Mean(a(-1, 0), a(1, 0))
             above(i) == Conversion!Mean(a(i, -1), a(i, 1))
         IN Conversion!BayerToRgb(p)[q] =
              CASE y % 2 = 0 /\ x % 2 = 0 -> <<beside, a(0, 0), above(0)>>
                [] y % 2 = 0 /\ x % 2 = 1 ->
                     <<a(0, 0), Conversion!Mean(beside, above(0)), Conversion!Mean(above(-1), above(1))>>
                [] y % 2 = 1 /\ x % 2 = 0 ->
                     <<Conversion!Mean(above(-1), above(1)), Conversion!Mean(beside, above(0)), a(0, 0)>>
                [] OTHER -> <<above(0), a(0, 0), beside>>
<1> DEFINE x == q[1]
           y == q[2]
           D == 0..(Width - 1)
           l == Conversion!Mirror(x - 1, Width)
           m == Conversion!Mirror(x + 1, Width)
           u == Conversion!PrevLine(y)
           d == Conversion!NextLine(y)
           here == [i \in D |-> p[<<i, y>>]]
           off == [i \in D |-> Conversion!Mean(p[<<i, u>>], p[<<i, d>>])]
<1>1. /\ Width \in Nat /\ Width >= 2 /\ Height \in Nat /\ Height >= 2
      /\ x \in D /\ y \in 0..(Height - 1) /\ q = <<x, y>>
  BY PicturesAssumption DEF Conversion!Pixels
<1> HIDE DEF x, y
<1>2. /\ Conversion!Mirror(x + (-1), Width) = l /\ Conversion!Mirror(x + 0, Width) = x
      /\ Conversion!Mirror(x + 1, Width) = m /\ l \in D /\ m \in D
  <2>1. x + (-1) = x - 1 /\ x + 0 = x /\ x >= 0 /\ x < Width /\ x \in Int
    BY <1>1
  <2>2. Conversion!Mirror(x, Width) = x
    BY <1>1, <2>1, MirrorIs
  <2>3. Conversion!Mirror(x + (-1), Width) \in D /\ Conversion!Mirror(x + 1, Width) \in D
    BY <1>1, MirrorParity
  <2> QED
    BY <2>1, <2>2, <2>3
<1>3. /\ Conversion!Mirror(y + (-1), Height) = u /\ Conversion!Mirror(y + 0, Height) = y
      /\ Conversion!Mirror(y + 1, Height) = d /\ u \in 0..(Height - 1) /\ d \in 0..(Height - 1)
  <2>1. y + (-1) = y - 1 /\ y + 0 = y /\ y >= 0 /\ y < Height /\ y \in Int
    BY <1>1
  <2>2. Conversion!Mirror(y, Height) = y
    BY <1>1, <2>1, MirrorIs
  <2>3. /\ Conversion!Mirror(y + (-1), Height) \in 0..(Height - 1)
        /\ Conversion!Mirror(y + 1, Height) \in 0..(Height - 1)
    BY <1>1, MirrorParity
  <2>4. Conversion!Mirror(y - 1, Height) = u
    <3>1. CASE y = 0
      <4>1. y - 1 \in Int /\ y - 1 < 0 /\ 0 - (y - 1) = 1
        BY <3>1
      <4>2. Conversion!Mirror(y - 1, Height) = 0 - (y - 1)
        BY <1>1, <4>1, MirrorIs
      <4> QED
        BY <3>1, <4>1, <4>2 DEF Conversion!PrevLine
    <3>2. CASE y # 0
      <4>1. y - 1 \in Int /\ y - 1 >= 0 /\ y - 1 < Height
        BY <1>1, <3>2
      <4>2. Conversion!Mirror(y - 1, Height) = y - 1
        BY <1>1, <4>1, MirrorIs
      <4> QED
        BY <3>2, <4>2 DEF Conversion!PrevLine
    <3> QED
      BY <3>1, <3>2
  <2>5. Conversion!Mirror(y + 1, Height) = d
    <3>1. CASE y = Height - 1
      <4>1. y + 1 \in Int /\ y + 1 >= Height /\ 2 * (Height - 1) - (y + 1) = y - 1
        BY <1>1, <3>1
      <4>2. Conversion!Mirror(y + 1, Height) = 2 * (Height - 1) - (y + 1)
        BY <1>1, <4>1, MirrorIs
      <4> QED
        BY <3>1, <4>1, <4>2 DEF Conversion!NextLine
    <3>2. CASE y # Height - 1
      <4>1. y + 1 \in Int /\ y + 1 >= 0 /\ y + 1 < Height
        BY <1>1, <3>2
      <4>2. Conversion!Mirror(y + 1, Height) = y + 1
        BY <1>1, <4>1, MirrorIs
      <4> QED
        BY <3>2, <4>2 DEF Conversion!NextLine
    <3> QED
      BY <3>1, <3>2
  <2> QED
    BY <2>1, <2>2, <2>3, <2>4, <2>5
<1> HIDE DEF l, m, u, d
<1>4. /\ At(p, q, -1, 0) = p[<<l, y>>] /\ At(p, q, 0, 0) = p[<<x, y>>] /\ At(p, q, 1, 0) = p[<<m, y>>]
      /\ At(p, q, -1, -1) = p[<<l, u>>] /\ At(p, q, 0, -1) = p[<<x, u>>] /\ At(p, q, 1, -1) = p[<<m, u>>]
      /\ At(p, q, -1, 1) = p[<<l, d>>] /\ At(p, q, 0, 1) = p[<<x, d>>] /\ At(p, q, 1, 1) = p[<<m, d>>]
  <2>1. q[1] = x /\ q[2] = y
    BY DEF x, y
  <2>2. ASSUME NEW i, NEW j
        PROVE  At(p, q, i, j) = p[<<Conversion!Mirror(x + i, Width), Conversion!Mirror(y + j, Height)>>]
    BY <2>1 DEF At, Conversion!Site
  <2> QED
    BY <1>2, <1>3, <2>2
<1>5. \A i \in D, j \in 0..(Height - 1) : p[<<i, j>>] \in Nat
  BY DEF Picture, Conversion!Pixels
<1>6. here \in [D -> Nat] /\ off \in [D -> Nat]
  <2>1. here \in [D -> Nat]
    BY <1>1, <1>5
  <2>2. ASSUME NEW i \in D PROVE Conversion!Mean(p[<<i, u>>], p[<<i, d>>]) \in Nat
    BY <1>3, <1>5, MeanIs
  <2> QED
    BY <2>1, <2>2
<1>7. Conversion!Window(here)[x] = <<p[<<l, y>>], p[<<x, y>>], p[<<m, y>>]>>
  <2>1. Conversion!Window(here)[x] = <<here[l], here[x], here[m]>>
    BY <1>1, <1>6, WindowIs DEF l, m
  <2>2. here[l] = p[<<l, y>>] /\ here[x] = p[<<x, y>>] /\ here[m] = p[<<m, y>>]
    BY <1>1, <1>2
  <2> QED
    BY <2>1, <2>2
<1>8. Conversion!Window(off)[x] = <<Conversion!Mean(p[<<l, u>>], p[<<l, d>>]),
                                   Conversion!Mean(p[<<x, u>>], p[<<x, d>>]),
                                   Conversion!Mean(p[<<m, u>>], p[<<m, d>>])>>
  <2>1. Conversion!Window(off)[x] = <<off[l], off[x], off[m]>>
    BY <1>1, <1>6, WindowIs DEF l, m
  <2>2. /\ off[l] = Conversion!Mean(p[<<l, u>>], p[<<l, d>>])
        /\ off[x] = Conversion!Mean(p[<<x, u>>], p[<<x, d>>])
        /\ off[m] = Conversion!Mean(p[<<m, u>>], p[<<m, d>>])
    BY <1>1, <1>2
  <2> QED
    BY <2>1, <2>2
<1> DEFINE h == Conversion!Window(here)[x]
           v == Conversion!Window(off)[x]
           hSum == Conversion!Mean(h[1], h[3])
<1>9. Conversion!BayerToRgb(p)[q] =
        CASE y % 2 = 0 /\ x % 2 = 0 -> <<hSum, h[2], v[2]>>
          [] y % 2 = 0 /\ x % 2 = 1 -> <<h[2], Conversion!Mean(hSum, v[2]), Conversion!Mean(v[1], v[3])>>
          [] y % 2 = 1 /\ x % 2 = 0 -> <<Conversion!Mean(v[1], v[3]), Conversion!Mean(hSum, v[2]), h[2]>>
          [] OTHER -> <<v[2], h[2], hSum>>
  BY DEF Conversion!BayerToRgb, x, y, u, d
<1>10. /\ h[1] = At(p, q, -1, 0) /\ h[2] = At(p, q, 0, 0) /\ h[3] = At(p, q, 1, 0)
       /\ v[1] = Conversion!Mean(At(p, q, -1, -1), At(p, q, -1, 1))
       /\ v[2] = Conversion!Mean(At(p, q, 0, -1), At(p, q, 0, 1))
       /\ v[3] = Conversion!Mean(At(p, q, 1, -1), At(p, q, 1, 1))
  BY <1>4, <1>7, <1>8
<1> HIDE DEF h, v
<1>11. hSum = Conversion!Mean(At(p, q, -1, 0), At(p, q, 1, 0))
  BY <1>10
<1> HIDE DEF hSum
<1> QED
  BY <1>9, <1>10, <1>11 DEF x, y

\* A value is the mean over a set of offsets but for rounding.
Fits(p, q, S, o) ==
  LET n == Conversion!SumAround(S, [d \in Conversion!Around |-> 1])
      sum == Conversion!SumAround(S, [d \in Conversion!Around |-> p[Conversion!Site(q, d)]])
  IN /\ n * o <= sum /\ sum <= n * (o + 1) + n - 1
     /\ n = 1 => o = sum
LEMMA MeansFit ==
  ASSUME NEW p \in Picture, NEW q \in Conversion!Pixels
  PROVE  LET a(i, j) == At(p, q, i, j)
             beside == Conversion!Mean(a(-1, 0), a(1, 0))
             above(i) == Conversion!Mean(a(i, -1), a(i, 1))
         IN /\ Fits(p, q, Self, a(0, 0))
            /\ Fits(p, q, Beside, beside)
            /\ Fits(p, q, AboveBelow, above(0))
            /\ Fits(p, q, Cross, Conversion!Mean(beside, above(0)))
            /\ Fits(p, q, Corners, Conversion!Mean(above(-1), above(1)))
<1> DEFINE one == [d \in Conversion!Around |-> 1]
           val == [d \in Conversion!Around |-> p[Conversion!Site(q, d)]]
           a(i, j) == At(p, q, i, j)
           N(S) == Conversion!SumAround(S, one)
           V(S) == Conversion!SumAround(S, val)
<1>1. ASSUME NEW i \in Offsets, NEW j \in Offsets
      PROVE  <<i, j>> \in Conversion!Around /\ val[<<i, j>>] = a(i, j) /\ a(i, j) \in Nat
             /\ one[<<i, j>>] = 1
  <2>1. Conversion!Site(q, <<i, j>>) \in Conversion!Pixels
    <3>1. 1 \in 1..3
      OBVIOUS
    <3> QED
      BY <3>1, Measured
  <2>2. p[Conversion!Site(q, <<i, j>>)] \in Nat
    BY <2>1 DEF Picture
  <2> QED
    BY <2>2, AroundIs DEF At
<1>2. one \in [Conversion!Around -> Nat]
  OBVIOUS
<1>3. val \in [Conversion!Around -> Nat]
  <2>1. ASSUME NEW d \in Conversion!Around PROVE p[Conversion!Site(q, d)] \in Nat
    <3>1. d[1] \in Offsets /\ d[2] \in Offsets /\ d = <<d[1], d[2]>>
      BY AroundIs
    <3>2. a(d[1], d[2]) \in Nat
      BY <1>1, <3>1
    <3> QED
      BY <3>1, <3>2 DEF At
  <2> QED
    BY <2>1
<1>4. -1 \in Offsets /\ 0 \in Offsets /\ 1 \in Offsets
  BY DEF Offsets
<1> HIDE DEF one, val, a
<1> DEFINE amm == a(-1, -1)
           azm == a(0, -1)
           apm == a(1, -1)
           amz == a(-1, 0)
           azz == a(0, 0)
           apz == a(1, 0)
           amp == a(-1, 1)
           azp == a(0, 1)
           app == a(1, 1)
<1>5. /\ N(Self) = 1 /\ N(Beside) = 1 + 1 /\ N(AboveBelow) = 1 + 1
      /\ N(Cross) = 1 + 1 + 1 + 1 /\ N(Corners) = 1 + 1 + 1 + 1
  BY <1>1, <1>2, <1>4, SumsAround
<1>6. /\ V(Self) = azz /\ V(Beside) = amz + apz /\ V(AboveBelow) = azm + azp
      /\ V(Cross) = amz + apz + azm + azp /\ V(Corners) = amm + apm + amp + app
  BY <1>1, <1>3, <1>4, SumsAround
<1>7. /\ amm \in Nat /\ azm \in Nat /\ apm \in Nat /\ amz \in Nat /\ azz \in Nat
      /\ apz \in Nat /\ amp \in Nat /\ azp \in Nat /\ app \in Nat
  BY <1>1, <1>4
<1> DEFINE F(S, o) == /\ N(S) * o <= V(S) /\ V(S) <= N(S) * (o + 1) + N(S) - 1
                      /\ N(S) = 1 => o = V(S)
<1>8. \A S, o : Fits(p, q, S, o) <=> F(S, o)
  BY DEF Fits, one, val
<1> HIDE DEF N, V, amm, azm, apm, amz, azz, apz, amp, azp, app
<1> DEFINE beside == Conversion!Mean(amz, apz)
           above == Conversion!Mean(azm, azp)
           left == Conversion!Mean(amm, amp)
           right == Conversion!Mean(apm, app)
           cross == Conversion!Mean(beside, above)
           corners == Conversion!Mean(left, right)
<1>9. /\ beside \in Nat /\ 2 * beside <= amz + apz /\ amz + apz <= 2 * beside + 1
      /\ above \in Nat /\ 2 * above <= azm + azp /\ azm + azp <= 2 * above + 1
      /\ left \in Nat /\ 2 * left <= amm + amp /\ amm + amp <= 2 * left + 1
      /\ right \in Nat /\ 2 * right <= apm + app /\ apm + app <= 2 * right + 1
  BY <1>7, MeanIs
<1> HIDE DEF beside, above, left, right
<1>10. /\ cross \in Nat /\ 2 * cross <= beside + above /\ beside + above <= 2 * cross + 1
       /\ corners \in Nat /\ 2 * corners <= left + right /\ left + right <= 2 * corners + 1
  BY <1>9, MeanIs
<1> HIDE DEF cross, corners
<1>11. F(Self, azz)
  BY <1>5, <1>6, <1>7
<1>12. F(Beside, beside) /\ F(AboveBelow, above)
  BY <1>5, <1>6, <1>7, <1>9
<1>13. F(Cross, cross)
  BY <1>5, <1>6, <1>7, <1>9, <1>10
<1>14. F(Corners, corners)
  BY <1>5, <1>6, <1>7, <1>9, <1>10
<1> HIDE DEF F
<1>15. /\ Fits(p, q, Self, azz) /\ Fits(p, q, Beside, beside) /\ Fits(p, q, AboveBelow, above)
       /\ Fits(p, q, Cross, cross) /\ Fits(p, q, Corners, corners)
  BY <1>8, <1>11, <1>12, <1>13, <1>14
<1> QED
  BY <1>15 DEF cross, corners, beside, above, left, right, amm, azm, apm, amz, azz, apz, amp,
     azp, app, a

\* Every colour of every pixel is the mean of the nearest sites that measure it.
LEMMA Interpolated ==
  ASSUME NEW p \in Picture, NEW q \in Conversion!Pixels, NEW c \in 1..3
  PROVE  Fits(p, q, Conversion!Nearest(q, c), Conversion!BayerToRgb(p)[q][c])
<1> DEFINE x == q[1] % 2
           y == q[2] % 2
           azz == At(p, q, 0, 0)
           beside == Conversion!Mean(At(p, q, -1, 0), At(p, q, 1, 0))
           above(i) == Conversion!Mean(At(p, q, i, -1), At(p, q, i, 1))
           abo == above(0)
           cross == Conversion!Mean(beside, above(0))
           corners == Conversion!Mean(above(-1), above(1))
           o == Conversion!BayerToRgb(p)[q]
           N == Conversion!Nearest(q, c)
<1>1. q[1] \in Nat /\ q[2] \in Nat
  BY PicturesAssumption DEF Conversion!Pixels
<1>2. (x = 0 \/ x = 1) /\ (y = 0 \/ y = 1)
  BY <1>1
<1>3. o = CASE y = 0 /\ x = 0 -> <<beside, azz, abo>>
            [] y = 0 /\ x = 1 -> <<azz, cross, corners>>
            [] y = 1 /\ x = 0 -> <<corners, cross, azz>>
            [] OTHER -> <<abo, azz, beside>>
  BY BayerIs
<1>4. /\ Fits(p, q, Self, azz) /\ Fits(p, q, Beside, beside) /\ Fits(p, q, AboveBelow, abo)
      /\ Fits(p, q, Cross, cross) /\ Fits(p, q, Corners, corners)
  BY MeansFit
<1>5. /\ x = 0 /\ y = 0 => N = IF c = 1 THEN Beside ELSE IF c = 2 THEN Self ELSE AboveBelow
      /\ x = 1 /\ y = 0 => N = IF c = 1 THEN Self ELSE IF c = 2 THEN Cross ELSE Corners
      /\ x = 0 /\ y = 1 => N = IF c = 1 THEN Corners ELSE IF c = 2 THEN Cross ELSE Self
      /\ x = 1 /\ y = 1 => N = IF c = 1 THEN AboveBelow ELSE IF c = 2 THEN Self ELSE Beside
  BY NearestIs
<1> HIDE DEF x, y, azz, beside, abo, cross, corners, o, N
<1>6. c = 1 \/ c = 2 \/ c = 3
  OBVIOUS
<1>7. CASE x = 0 /\ y = 0
  <2>1. o = <<beside, azz, abo>>
    BY <1>3, <1>7
  <2>2. o[1] = beside /\ o[2] = azz /\ o[3] = abo
    BY <2>1
  <2> QED
    BY <1>4, <1>5, <1>6, <1>7, <2>2 DEF o, N
<1>8. CASE x = 1 /\ y = 0
  <2>1. o = <<azz, cross, corners>>
    BY <1>3, <1>8
  <2>2. o[1] = azz /\ o[2] = cross /\ o[3] = corners
    BY <2>1
  <2> QED
    BY <1>4, <1>5, <1>6, <1>8, <2>2 DEF o, N
<1>9. CASE x = 0 /\ y = 1
  <2>1. o = <<corners, cross, azz>>
    BY <1>3, <1>9
  <2>2. o[1] = corners /\ o[2] = cross /\ o[3] = azz
    BY <2>1
  <2> QED
    BY <1>4, <1>5, <1>6, <1>9, <2>2 DEF o, N
<1>10. CASE x = 1 /\ y = 1
  <2>1. o = <<abo, azz, beside>>
    BY <1>3, <1>10
  <2>2. o[1] = abo /\ o[2] = azz /\ o[3] = beside
    BY <2>1
  <2> QED
    BY <1>4, <1>5, <1>6, <1>10, <2>2 DEF o, N
<1> QED
  BY <1>2, <1>7, <1>8, <1>9, <1>10

\* UYVY: every channel is a byte, and grey stays grey.
Coloured(u, v, o) ==
  /\ \A c \in 1..3 : o[c] \in 0..255
  /\ u = 128 /\ v = 128 => o[1] = o[2] /\ o[2] = o[3]
LEMMA UyvyIs ==
  ASSUME NEW u \in 0..255, NEW y \in 0..255, NEW v \in 0..255
  PROVE  Coloured(u, v, Conversion!UyvyToRgb(u, y, v))
<1> DEFINE Q(a) == Conversion!Quot(a, 1000)
           luma == Q((y - 16) * 1164)
           e == luma + Q((v - 128) * 1596)
           f == luma - Q((v - 128) * 813) - Q((u - 128) * 391)
           g == luma + Q((u - 128) * 2018)
           o == Conversion!UyvyToRgb(u, y, v)
<1>1. \A a \in Int : Q(a) \in Int
  <2> TAKE a \in Int
  <2>1. -a \in Int /\ a \div 1000 \in Int /\ (-a) \div 1000 \in Int
    OBVIOUS
  <2>2. -((-a) \div 1000) \in Int
    BY <2>1
  <2> QED
    BY <2>1, <2>2 DEF Conversion!Quot
<1>2. Q(0) = 0
  BY DEF Conversion!Quot
<1> HIDE DEF Q
<1>3. luma \in Int
  BY <1>1
<1>4. /\ Q((v - 128) * 1596) \in Int /\ Q((v - 128) * 813) \in Int
      /\ Q((u - 128) * 391) \in Int /\ Q((u - 128) * 2018) \in Int
  BY <1>1
<1> HIDE DEF luma
<1>5. e \in Int /\ f \in Int /\ g \in Int
  BY <1>3, <1>4
<1>6. u = 128 /\ v = 128 => e = luma /\ f = luma /\ g = luma
  <2> SUFFICES ASSUME u = 128, v = 128 PROVE e = luma /\ f = luma /\ g = luma
    OBVIOUS
  <2>1. (v - 128) * 1596 = 0 /\ (v - 128) * 813 = 0 /\ (u - 128) * 391 = 0 /\ (u - 128) * 2018 = 0
    OBVIOUS
  <2> QED
    BY <1>2, <1>3, <2>1
<1>7. o = <<Conversion!Clamp(e), Conversion!Clamp(f), Conversion!Clamp(g)>>
  BY DEF Conversion!UyvyToRgb, Q, luma
<1> HIDE DEF e, f, g
<1>8. \A a \in Int : Conversion!Clamp(a) \in 0..255
  BY DEF Conversion!Clamp
<1> HIDE DEF o
<1>9. o[1] = Conversion!Clamp(e) /\ o[2] = Conversion!Clamp(f) /\ o[3] = Conversion!Clamp(g)
  BY <1>7
<1>10. \A c \in 1..3 : o[c] \in 0..255
  BY <1>5, <1>8, <1>9
<1>11. u = 128 /\ v = 128 => o[1] = o[2] /\ o[2] = o[3]
  BY <1>6, <1>9
<1> QED
  BY <1>10, <1>11 DEF o, Coloured

-----------------------------------------------------------------------------
(* Registration.                                                           *)

LEMMA DivAtLeast ==
  ASSUME NEW a \in Nat, NEW b \in Nat, NEW c \in Nat \ {0}, a >= b * c
  PROVE  a \div c >= b
<1> DEFINE d == a \div c
           r == a % c
<1>1. d \in Nat /\ r \in 0..(c - 1) /\ a = c * d + r
  OBVIOUS
<1> HIDE DEF d, r
<1>2. CASE d < b
  <2>1. c * (d + 1) <= c * b
    <3>1. PICK e \in Nat : b = d + 1 + e
      <4>1. b - (d + 1) \in Nat /\ b = d + 1 + (b - (d + 1))
        BY <1>1, <1>2
      <4> QED
        BY <4>1
    <3>2. c * b = c * (d + 1) + c * e /\ c * e \in Nat /\ c * (d + 1) \in Nat
      BY <1>1, <3>1
    <3> QED
      BY <3>2
  <2>2. c * (d + 1) = c * d + c /\ c * b = b * c /\ c * d \in Nat /\ b * c \in Nat
    BY <1>1
  <2> QED
    BY <1>1, <2>1, <2>2
<1> QED
  BY <1>1, <1>2 DEF d

LEMMA DivMod ==
  ASSUME NEW y \in Nat, NEW w \in Nat \ {0}, NEW x \in 0..(w - 1)
  PROVE  (y * w + x) % w = x /\ (y * w + x) \div w = y
<1> DEFINE n == y * w + x
           d == n \div w
           r == n % w
<1>1. n \in Nat /\ n >= y * w
  OBVIOUS
<1>2. n = w * d + r /\ d \in Nat /\ r \in 0..(w - 1)
  BY <1>1
<1>3. d >= y
  BY <1>1, DivAtLeast
<1> HIDE DEF d, r
<1>4. PICK e \in Nat : d = y + e
  <2>1. d - y \in Nat /\ d = y + (d - y)
    BY <1>2, <1>3
  <2> QED
    BY <2>1
<1>5. w * d = y * w + w * e /\ w * e \in Nat /\ y * w \in Nat
  BY <1>4
<1>6. y * w + x = y * w + w * e + r
  BY <1>2, <1>5 DEF n
<1>7. x = w * e + r
  BY <1>2, <1>5, <1>6
<1>8. e = 0
  <2> SUFFICES ASSUME e # 0 PROVE FALSE
    OBVIOUS
  <2>1. PICK i \in Nat : e = 1 + i
    <3>1. e - 1 \in Nat /\ e = 1 + (e - 1)
      OBVIOUS
    <3> QED
      BY <3>1
  <2>2. w * e = w + w * i /\ w * i \in Nat
    BY <2>1
  <2> QED
    BY <1>2, <1>7, <2>2
<1> QED
  BY <1>2, <1>4, <1>7, <1>8 DEF d, r

\* The loops visit every pixel.
LEMMA PixelsVisited ==
  /\ \A k \in 1..(Width * Height) : Conversion!PixelAt(k) \in Conversion!Pixels
  /\ \A q \in Conversion!Pixels : \E k \in 1..(Width * Height) : Conversion!PixelAt(k) = q
<1>1. Width \in Nat \ {0} /\ Height \in Nat \ {0}
  BY PicturesAssumption
<1> DEFINE N == Width * Height
<1>2. N \in Nat
  BY <1>1
<1>3. ASSUME NEW k \in 1..N PROVE Conversion!PixelAt(k) \in Conversion!Pixels
  <2> DEFINE n == k - 1
             d == n \div Width
             r == n % Width
  <2>1. n \in Nat /\ n < N
    BY <1>2
  <2> HIDE DEF N, n
  <2>2. n = Width * d + r /\ d \in Nat /\ r \in 0..(Width - 1)
    BY <1>1, <2>1
  <2> HIDE DEF d, r
  <2>3. d < Height
    <3> SUFFICES ASSUME ~(d < Height) PROVE FALSE
      OBVIOUS
    <3>1. PICK e \in Nat : d = Height + e
      <4>1. d - Height \in Nat /\ d = Height + (d - Height)
        BY <1>1, <2>2
      <4> QED
        BY <4>1
    <3>2. Width * d = Width * Height + Width * e /\ Width * e \in Nat
      BY <1>1, <3>1
    <3> QED
      BY <1>1, <1>2, <2>1, <2>2, <3>2 DEF N
  <2>4. Conversion!PixelAt(k) = <<r, d>>
    BY DEF Conversion!PixelAt, n, d, r
  <2> QED
    BY <1>1, <2>2, <2>3, <2>4 DEF Conversion!Pixels
<1>4. ASSUME NEW q \in Conversion!Pixels PROVE \E k \in 1..N : Conversion!PixelAt(k) = q
  <2> DEFINE x == q[1]
             y == q[2]
             m == y * Width
             k == m + x + 1
  <2>1. x \in 0..(Width - 1) /\ y \in 0..(Height - 1) /\ y \in Nat /\ q = <<x, y>>
    BY <1>1 DEF Conversion!Pixels
  <2> HIDE DEF x, y
  <2>2. m \in Nat /\ m + x \in Nat /\ k - 1 = m + x
    BY <1>1, <2>1
  <2>3. m + Width <= N
    <3>1. PICK e \in Nat : Height = y + 1 + e
      <4>1. Height - (y + 1) \in Nat /\ Height = y + 1 + (Height - (y + 1))
        BY <1>1, <2>1
      <4> QED
        BY <4>1
    <3>2. Width * Height = y * Width + Width + Width * e /\ Width * e \in Nat
      BY <1>1, <2>1, <3>1
    <3> QED
      BY <1>1, <1>2, <2>2, <3>2
  <2>4. (m + x) % Width = x /\ (m + x) \div Width = y
    BY <1>1, <2>1, DivMod
  <2> HIDE DEF m, N
  <2>5. k \in 1..N
    BY <1>1, <1>2, <2>1, <2>2, <2>3
  <2>6. Conversion!PixelAt(k) = <<(k - 1) % Width, (k - 1) \div Width>>
    BY DEF Conversion!PixelAt
  <2> HIDE DEF k
  <2> QED
    BY <2>1, <2>2, <2>4, <2>5, <2>6
<1> QED
  BY <1>3, <1>4

\* Where a pixel lands inside of the picture there is a pixel.
LEMMA LandsIn ==
  ASSUME NEW reg \in Conversion!Registrations, NEW q \in Conversion!Pixels, NEW z \in 1..MaxMetric
  PROVE  Conversion!Inside(Conversion!Lands(reg, q, z)) <=>
           Conversion!Lands(reg, q, z) \in Conversion!Pixels
<1>1. PICK d \in Distortions, f \in [1..MaxMetric -> Shifts] :
         reg = [table |-> [p \in Conversion!Pixels |-> Conversion!TableEntry(p, d[p])], shift |-> f]
  BY DEF Conversion!Registrations
<1> DEFINE W == Width * Scale
           s == f[z]
           e == Conversion!TableEntry(q, d[q])
           l == Conversion!Quot(e[1] - s, Scale)
<1>2. reg.table[q] = e /\ reg.shift[z] = s
  BY <1>1
<1>3. Conversion!Lands(reg, q, z) = <<l, e[2]>>
  BY <1>2 DEF Conversion!Lands
<1>4. /\ Width \in Nat /\ Height \in Nat /\ Scale \in Nat \ {0} /\ W \in Nat
      /\ s \in Int /\ s <= W
  <2>1. Width \in Nat /\ Height \in Nat /\ Scale \in Nat \ {0} /\ W \in Nat
    BY PicturesAssumption
  <2>2. s \in Shifts
    OBVIOUS
  <2>3. s \in Int /\ s <= W
    BY <2>2, PicturesAssumption, Zenon
  <2> QED
    BY <2>1, <2>3
<1>5. e[2] \in 0..(Height - 1) \/ e = <<2 * Width * Scale, e[2]>>
  BY DEF Conversion!TableEntry
<1> HIDE DEF e
<1>6. CASE e[2] \in 0..(Height - 1)
  <2> HIDE DEF l
  <2> QED
    BY <1>3, <1>6 DEF Conversion!Inside, Conversion!Pixels
<1>7. CASE e = <<2 * Width * Scale, e[2]>>
  <2> DEFINE a == e[1] - s
  <2>1. e[1] = 2 * W
    BY <1>4, <1>7
  <2> HIDE DEF W, s
  <2>2. a \in Nat /\ a >= W
    BY <1>4, <2>1
  <2> HIDE DEF a
  <2>3. a \div Scale >= Width
    BY <1>4, <2>2, DivAtLeast DEF W
  <2>4. a \div Scale \in Nat
    BY <1>4, <2>2
  <2>5. Conversion!Quot(a, Scale) = a \div Scale
    BY <2>2 DEF Conversion!Quot
  <2>6. l = a \div Scale
    BY <2>5 DEF a
  <2> HIDE DEF l
  <2>7. l \notin 0..(Width - 1)
    BY <1>4, <2>3, <2>4, <2>6
  <2> QED
    BY <1>3, <2>7 DEF Conversion!Inside, Conversion!Pixels
<1> QED
  BY <1>5, <1>6, <1>7

\* What the buffer holds after a number of pixels: nothing where none of them lands, and
\* otherwise the least depth that lands there
Landed(reg, mm, usable, i, t) ==
  LET q == Conversion!PixelAt(i) IN mm[q] \in usable /\ Conversion!Lands(reg, q, mm[q]) = t
Kept(reg, mm, usable, k, z) ==
  \A t \in Conversion!Pixels :
    /\ z[t] = 0 \/ \E i \in 1..k : Landed(reg, mm, usable, i, t) /\ z[t] = mm[Conversion!PixelAt(i)]
    /\ \A i \in 1..k : Landed(reg, mm, usable, i, t)
                         => z[t] # 0 /\ z[t] <= mm[Conversion!PixelAt(i)]
Metric == [Conversion!Pixels -> 0..MaxMetric]
Depth(z, reg, mm, usable, k) ==
  LET q == Conversion!PixelAt(k)  t == Conversion!Lands(reg, q, mm[q]) IN
  IF mm[q] \in usable /\ Conversion!Inside(t) /\ Conversion!Nearer(z[t], mm[q])
    THEN [z EXCEPT ![t] = mm[q]]
    ELSE z

\* One pixel
LEMMA DepthKept ==
  ASSUME NEW reg \in Conversion!Registrations, NEW mm \in Metric,
         NEW usable \in SUBSET (1..MaxMetric), NEW k \in 1..(Width * Height),
         NEW z \in [Conversion!Pixels -> Nat]
  PROVE  /\ Depth(z, reg, mm, usable, k) \in [Conversion!Pixels -> Nat]
         /\ Kept(reg, mm, usable, k - 1, z)
              => Kept(reg, mm, usable, k, Depth(z, reg, mm, usable, k))
<1> DEFINE q == Conversion!PixelAt(k)
           t == Conversion!Lands(reg, q, mm[q])
           n == Depth(z, reg, mm, usable, k)
           L(i, u) == Landed(reg, mm, usable, i, u)
           M(i) == mm[Conversion!PixelAt(i)]
           c == mm[q] \in usable /\ Conversion!Inside(t) /\ Conversion!Nearer(z[t], mm[q])
<1>1. Width * Height \in Nat /\ MaxMetric \in Nat
  BY PicturesAssumption
<1>2. \A i \in 1..k : i \in 1..(Width * Height)
  BY <1>1
<1>3. \A i \in 1..k : Conversion!PixelAt(i) \in Conversion!Pixels /\ M(i) \in Nat
  <2> TAKE i \in 1..k
  <2>1. Conversion!PixelAt(i) \in Conversion!Pixels
    BY <1>2, PixelsVisited
  <2> QED
    BY <2>1, <1>1 DEF Metric
<1>4. k \in 1..k /\ k \in Nat /\ \A i \in 1..k : i = k \/ i \in 1..(k - 1)
  BY <1>1
<1>5. q \in Conversion!Pixels /\ mm[q] \in Nat /\ M(k) = mm[q]
  BY <1>3, <1>4
<1>6. mm[q] \in usable => (Conversion!Inside(t) <=> t \in Conversion!Pixels)
  <2> SUFFICES ASSUME mm[q] \in usable PROVE Conversion!Inside(t) <=> t \in Conversion!Pixels
    OBVIOUS
  <2>1. mm[q] \in 1..MaxMetric
    OBVIOUS
  <2> QED
    BY <1>5, <2>1, LandsIn
<1>7. n = IF c THEN [z EXCEPT ![t] = mm[q]] ELSE z
  BY DEF Depth
<1>8. L(k, t) <=> mm[q] \in usable
  BY DEF Landed
<1>9. \A u : L(k, u) => u = t /\ mm[q] \in usable
  BY DEF Landed
<1>10. mm[q] \in usable => mm[q] # 0
  OBVIOUS
<1>11. Conversion!Nearer(z[t], mm[q]) <=> z[t] = 0 \/ z[t] > mm[q]
  BY DEF Conversion!Nearer
<1>12. Kept(reg, mm, usable, k - 1, z) =>
         \A u \in Conversion!Pixels :
           /\ z[u] = 0 \/ \E i \in 1..(k - 1) : L(i, u) /\ z[u] = M(i)
           /\ \A i \in 1..(k - 1) : L(i, u) => z[u] # 0 /\ z[u] <= M(i)
  BY DEF Kept
<1>13. (\A u \in Conversion!Pixels :
           /\ n[u] = 0 \/ \E i \in 1..k : L(i, u) /\ n[u] = M(i)
           /\ \A i \in 1..k : L(i, u) => n[u] # 0 /\ n[u] <= M(i)) => Kept(reg, mm, usable, k, n)
  BY DEF Kept
<1>14. \A i \in 1..(k - 1) : i \in 1..k
  BY <1>4
<1> HIDE DEF q, t, n, L, M
<1>15. n \in [Conversion!Pixels -> Nat]
  BY <1>5, <1>7
<1>16. ASSUME Kept(reg, mm, usable, k - 1, z) PROVE Kept(reg, mm, usable, k, n)
  <2> SUFFICES ASSUME NEW u \in Conversion!Pixels
               PROVE  /\ n[u] = 0 \/ \E i \in 1..k : L(i, u) /\ n[u] = M(i)
                      /\ \A i \in 1..k : L(i, u) => n[u] # 0 /\ n[u] <= M(i)
    BY <1>13
  <2>1. /\ z[u] = 0 \/ \E i \in 1..(k - 1) : L(i, u) /\ z[u] = M(i)
        /\ \A i \in 1..(k - 1) : L(i, u) => z[u] # 0 /\ z[u] <= M(i)
    BY <1>12, <1>16
  <2>2. z[u] \in Nat
    OBVIOUS
  <2>3. CASE c /\ u = t
    <3>1. n[u] = mm[q] /\ mm[q] \in usable /\ mm[q] # 0
      BY <1>7, <1>10, <2>3
    <3>2. L(k, u) /\ n[u] = M(k)
      BY <1>5, <1>8, <2>3, <3>1
    <3>3. z[u] = 0 \/ z[u] > mm[q]
      BY <1>11, <2>3
    <3>4. ASSUME NEW i \in 1..k, L(i, u) PROVE n[u] # 0 /\ n[u] <= M(i)
      <4>1. CASE i = k
        BY <1>5, <3>1, <4>1
      <4>2. CASE i \in 1..(k - 1)
        <5>1. z[u] # 0 /\ z[u] <= M(i)
          BY <2>1, <3>4, <4>2
        <5>2. M(i) \in Nat
          BY <1>3
        <5> QED
          BY <1>5, <2>2, <3>1, <3>3, <5>1, <5>2
      <4> QED
        BY <1>4, <4>1, <4>2
    <3> QED
      BY <1>4, <3>2, <3>4
  <2>4. CASE ~(c /\ u = t)
    <3>1. n[u] = z[u]
      BY <1>7, <2>4
    <3>2. z[u] = 0 \/ \E i \in 1..k : L(i, u) /\ z[u] = M(i)
      BY <1>14, <2>1
    <3>3. ASSUME L(k, u) PROVE z[u] # 0 /\ z[u] <= M(k)
      <4>1. u = t /\ mm[q] \in usable
        BY <1>9, <3>3
      <4>2. Conversion!Inside(t)
        BY <1>6, <4>1
      <4>3. ~Conversion!Nearer(z[t], mm[q])
        BY <2>4, <4>1, <4>2
      <4> QED
        BY <1>5, <1>11, <2>2, <4>1, <4>3
    <3> QED
      BY <1>4, <2>1, <3>1, <3>2, <3>3
  <2> QED
    BY <2>3, <2>4
<1> QED
  BY <1>15, <1>16 DEF n

\* All pixels
LEMMA BufferKept ==
  ASSUME NEW reg \in Conversion!Registrations, NEW mm \in Metric,
         NEW usable \in SUBSET (1..MaxMetric)
  PROVE  LET z == Conversion!ZBuffer(reg, mm, usable) IN
         z \in [Conversion!Pixels -> Nat] /\ Kept(reg, mm, usable, Width * Height, z)
<1> DEFINE N == Width * Height
           A == [Conversion!Pixels -> Nat]
           zero == [q \in Conversion!Pixels |-> 0]
           G == [x \in A \X (1..N) |-> Depth(x[1], reg, mm, usable, x[2])]
           Fill(h, k) == IF k = 0 THEN zero ELSE Depth(h[k - 1], reg, mm, usable, k)
           f == CHOOSE h : h = [k \in 0..N |-> Fill(h, k)]
           D(z, k) == Depth(z, reg, mm, usable, k)
<1>1. N \in Nat /\ zero \in A
  BY PicturesAssumption
<1>2. Conversion!ZBuffer(reg, mm, usable) = f[N]
  BY DEF Conversion!ZBuffer, Depth
<1>3. \A z \in A, k \in 1..N : D(z, k) \in A
  BY DepthKept
<1> HIDE DEF A, N, D
<1>4. G \in [A \X (1..N) -> A] /\ \A z \in A, k \in 1..N : G[<<z, k>>] = D(z, k)
  <2>1. ASSUME NEW x \in A \X (1..N) PROVE Depth(x[1], reg, mm, usable, x[2]) \in A
    BY <1>3 DEF D
  <2>2. ASSUME NEW z \in A, NEW k \in 1..N PROVE G[<<z, k>>] = D(z, k)
    BY DEF D
  <2> QED
    BY <2>1, <2>2
<1> HIDE DEF G, zero
<1>5. PICK g : Recurs(g, A, zero, N, G)
  BY <1>1, <1>4, Recursion
<1>6. g \in [0..N -> A] /\ g[0] = zero /\ \A k \in 1..N : g[k] = G[<<g[k - 1], k>>]
  BY <1>5 DEF Recurs
<1>7. g = [k \in 0..N |-> Fill(g, k)]
  <2>1. ASSUME NEW k \in 0..N PROVE g[k] = Fill(g, k)
    <3>1. CASE k = 0
      BY <1>6, <3>1
    <3>2. CASE k # 0
      <4>1. k \in 1..N /\ k - 1 \in 0..N
        BY <1>1, <3>2
      <4>2. g[k - 1] \in A
        BY <1>6, <4>1
      <4>3. g[k] = D(g[k - 1], k)
        BY <1>4, <1>6, <4>1, <4>2
      <4> QED
        BY <3>2, <4>3 DEF D
    <3> QED
      BY <3>1, <3>2
  <2> HIDE DEF Fill
  <2> QED
    BY <1>6, <2>1
<1>8. f = [k \in 0..N |-> Fill(f, k)]
  <2> HIDE DEF Fill
  <2> QED
    BY <1>7, Zenon
<1> HIDE DEF f
<1>9. /\ f[0] = zero
      /\ \A k \in 1..N : f[k] = D(f[k - 1], k)
  <2>1. \A k \in 0..N : f[k] = Fill(f, k)
    <3> HIDE DEF Fill
    <3> QED
      BY <1>8
  <2>2. 0 \in 0..N /\ \A k \in 1..N : k \in 0..N /\ k # 0
    BY <1>1
  <2> QED
    BY <2>1, <2>2 DEF D
<1> DEFINE K(k) == f[k] \in A /\ Kept(reg, mm, usable, k, f[k])
           S == {k \in 0..N : ~K(k)}
<1>10. K(0)
  <2>1. \A t \in Conversion!Pixels : zero[t] = 0
    BY DEF zero
  <2>2. ~\E i \in 1..0 : TRUE
    OBVIOUS
  <2>3. Kept(reg, mm, usable, 0, zero)
    BY <2>1, <2>2 DEF Kept
  <2> QED
    BY <1>1, <1>9, <2>3
<1>11. ASSUME NEW k \in 1..N, K(k - 1) PROVE K(k)
  <2>1. f[k - 1] \in [Conversion!Pixels -> Nat] /\ Kept(reg, mm, usable, k - 1, f[k - 1])
    BY <1>11 DEF A
  <2>2. k \in 1..(Width * Height)
    BY DEF N
  <2>3. /\ Depth(f[k - 1], reg, mm, usable, k) \in [Conversion!Pixels -> Nat]
        /\ Kept(reg, mm, usable, k, Depth(f[k - 1], reg, mm, usable, k))
    BY <2>1, <2>2, DepthKept
  <2>4. f[k] = Depth(f[k - 1], reg, mm, usable, k)
    BY <1>9 DEF D
  <2> QED
    BY <2>3, <2>4 DEF A
<1> HIDE DEF K
<1>12. S = {}
  <2> SUFFICES ASSUME S # {} PROVE FALSE
    OBVIOUS
  <2>1. PICK k \in S : \A j \in S : k <= j
    <3>1. S \subseteq Nat
      BY <1>1
    <3> QED
      BY <3>1, Least
  <2>2. k \in 0..N /\ ~K(k)
    OBVIOUS
  <2>3. k # 0
    BY <1>10, <2>2
  <2>4. k \in 1..N /\ k - 1 \in 0..N /\ ~(k <= k - 1)
    BY <1>1, <2>2, <2>3
  <2>5. K(k - 1)
    <3>1. k - 1 \notin S
      <4> HIDE DEF S
      <4> QED
        BY <2>1, <2>4
    <3> QED
      BY <2>4, <3>1
  <2> QED
    BY <1>11, <2>2, <2>4, <2>5
<1>13. K(N)
  BY <1>1, <1>12
<1> QED
  BY <1>2, <1>13 DEF K, A, N

\* The least depth of the pixels that land on a place
LEMMA NearestKept ==
  ASSUME NEW reg \in Conversion!Registrations, NEW mm \in Metric,
         NEW usable \in SUBSET (1..MaxMetric), NEW t \in Conversion!Pixels
  PROVE  LET S == Conversion!SourcesOf(reg, mm, t, usable)
             z == Conversion!ZBuffer(reg, mm, usable)
         IN /\ z[t] \in Nat
            /\ IF S = {} THEN z[t] = 0
               ELSE (\E q \in S : z[t] = mm[q]) /\ \A q \in S : z[t] <= mm[q]
<1> DEFINE S == Conversion!SourcesOf(reg, mm, t, usable)
           z == Conversion!ZBuffer(reg, mm, usable)
           N == Width * Height
           L(i) == Landed(reg, mm, usable, i, t)
           P(i) == Conversion!PixelAt(i)
<1>1. z \in [Conversion!Pixels -> Nat] /\ Kept(reg, mm, usable, N, z)
  BY BufferKept
<1>2. z[t] \in Nat
  BY <1>1
<1>3. /\ z[t] = 0 \/ \E i \in 1..N : L(i) /\ z[t] = mm[P(i)]
      /\ \A i \in 1..N : L(i) => z[t] # 0 /\ z[t] <= mm[P(i)]
  BY <1>1 DEF Kept
<1>4. \A i \in 1..N : P(i) \in Conversion!Pixels /\ (L(i) <=> P(i) \in S)
  BY PixelsVisited DEF Landed, Conversion!SourcesOf
<1>5. \A q \in S : \E i \in 1..N : q = P(i) /\ L(i)
  <2> TAKE q \in S
  <2>1. q \in Conversion!Pixels
    BY DEF Conversion!SourcesOf
  <2>2. PICK i \in 1..N : P(i) = q
    BY <2>1, PixelsVisited
  <2> QED
    BY <1>4, <2>2
<1> HIDE DEF S, z, N, L, P
<1>6. CASE S = {}
  BY <1>2, <1>3, <1>4, <1>6 DEF S, z
<1>7. CASE S # {}
  <2>1. PICK p \in S : TRUE
    BY <1>7
  <2>2. z[t] # 0
    BY <1>3, <1>5, <2>1
  <2>3. \E q \in S : z[t] = mm[q]
    BY <1>3, <1>4, <2>2
  <2>4. \A q \in S : z[t] <= mm[q]
    BY <1>3, <1>5
  <2> QED
    BY <1>2, <1>7, <2>3, <2>4 DEF S, z
<1> QED
  BY <1>6, <1>7

\* A pixel gets the colour of its place exactly if nothing nearer lands there.
LEMMA ColourShown ==
  ASSUME NEW reg \in Conversion!Registrations, NEW mm \in Metric, NEW q \in Conversion!Pixels
  PROVE  LET t == Conversion!Lands(reg, q, mm[q]) IN
         (Conversion!Map(reg, mm)[q][1] = "rgb") <=>
           /\ mm[q] # 0 /\ t \in Conversion!Pixels
           /\ \A o \in Conversion!SourcesOf(reg, mm, t, 1..MaxMetric) : mm[o] >= mm[q]
<1> DEFINE t == Conversion!Lands(reg, q, mm[q])
           S == Conversion!SourcesOf(reg, mm, t, 1..MaxMetric)
           z == Conversion!ZBuffer(reg, mm, 1..MaxMetric)
           o == Conversion!Map(reg, mm)[q]
<1>1. MaxMetric \in Nat /\ mm[q] \in 0..MaxMetric
  BY PicturesAssumption DEF Metric
<1>2. o = IF mm[q] = 0 THEN <<"black">>
          ELSE IF ~Conversion!Inside(t) THEN <<"black">>
          ELSE IF mm[q] <= z[t] THEN <<"rgb", t>> ELSE <<"old">>
  BY DEF Conversion!Map
<1>3. mm[q] # 0 => mm[q] \in 1..MaxMetric
  BY <1>1
<1>4. mm[q] # 0 => (Conversion!Inside(t) <=> t \in Conversion!Pixels)
  BY <1>3, LandsIn
<1>5. mm[q] # 0 => q \in S
  BY <1>3 DEF Conversion!SourcesOf
<1>6. \A p \in S : mm[p] \in Nat
  BY <1>1 DEF Conversion!SourcesOf, Metric
<1>7. t \in Conversion!Pixels =>
        /\ z[t] \in Nat
        /\ IF S = {} THEN z[t] = 0
           ELSE (\E p \in S : z[t] = mm[p]) /\ \A p \in S : z[t] <= mm[p]
  <2>1. 1..MaxMetric \in SUBSET (1..MaxMetric)
    OBVIOUS
  <2> QED
    BY <2>1, NearestKept
<1> HIDE DEF t, S, z, o
<1>8. o[1] = "rgb" <=> mm[q] # 0 /\ Conversion!Inside(t) /\ mm[q] <= z[t]
  <2>1. CASE mm[q] = 0
    BY <1>2, <2>1
  <2>2. CASE mm[q] # 0 /\ ~Conversion!Inside(t)
    BY <1>2, <2>2
  <2>3. CASE mm[q] # 0 /\ Conversion!Inside(t) /\ mm[q] <= z[t]
    BY <1>2, <2>3
  <2>4. CASE mm[q] # 0 /\ Conversion!Inside(t) /\ ~(mm[q] <= z[t])
    BY <1>2, <2>4
  <2> QED
    BY <2>1, <2>2, <2>3, <2>4
<1>9. ASSUME mm[q] # 0, t \in Conversion!Pixels
      PROVE  mm[q] <= z[t] <=> \A p \in S : mm[p] >= mm[q]
  <2>1. z[t] \in Nat /\ (\E p \in S : z[t] = mm[p]) /\ \A p \in S : z[t] <= mm[p]
    BY <1>5, <1>7, <1>9
  <2>2. mm[q] \in Nat
    BY <1>1
  <2> QED
    BY <1>6, <2>1, <2>2
<1>10. (o[1] = "rgb") <=> (mm[q] # 0 /\ t \in Conversion!Pixels /\ \A p \in S : mm[p] >= mm[q])
  BY <1>4, <1>8, <1>9
<1> QED
  BY <1>10 DEF o, t, S

LEMMA MetricIs ==
  ASSUME NEW mm \in DepthFrames
  PROVE  Conversion!DepthToMm(mm) \in Metric
<1>1. MaxMetric \in Nat /\ mm \in [Conversion!Pixels -> Nat]
  BY PicturesAssumption, FramesAssumption DEF Conversion!Pixels
<1> QED
  BY <1>1 DEF Conversion!DepthToMm, Metric

-----------------------------------------------------------------------------
(* The conversion of a frame.                                              *)

Converted ==
  Conversion!UnpackedExactly /\ Conversion!ColoursInterpolated /\ Conversion!NearestIsVisible

LEMMA UnpackConverts ==
  ASSUME NEW src \in PackedFrames, Conversion!Unpack(src)
  PROVE  Converted'
<1>1. src \in PackedFrame
  <2>1. PackedFrames \subseteq [1..11 -> Bytes] /\ Bytes \subseteq 0..255
    BY FramesAssumption
  <2>2. src \in [1..11 -> Bytes]
    BY <2>1
  <2>3. \A i \in 1..11 : src[i] \in 0..255
    BY <2>1, <2>2
  <2> QED
    BY <2>2, <2>3 DEF PackedFrame
<1>2. CASE Conversion!Done("16bit", src, Conversion!Packed16(src, 10, 8))
  <2>1. kind' = "16bit" /\ in' = src /\ out' = Conversion!Packed16(src, 10, 8)
    BY <1>2 DEF Conversion!Done
  <2>2. \A k \in 1..8 : out'[k] = Conversion!Bits(in', 10 * (k - 1), 10)
    BY <1>1, <2>1, TenBits
  <2>3. Conversion!UnpackedExactly'
    BY <2>1, <2>2 DEF Conversion!UnpackedExactly
  <2> QED
    BY <2>1, <2>3 DEF Converted, Conversion!ColoursInterpolated, Conversion!NearestIsVisible
<1>3. CASE Conversion!Done("8bit", src, Conversion!Packed8(src, 10, 8))
  <2>1. kind' = "8bit" /\ in' = src /\ out' = Conversion!Packed8(src, 10, 8)
    BY <1>3 DEF Conversion!Done
  <2>2. \A k \in 1..8 : out'[k] = Conversion!Bits(in', 10 * (k - 1), 8)
    BY <1>1, <2>1, UpperBits
  <2>3. Conversion!UnpackedExactly'
    BY <2>1, <2>2 DEF Conversion!UnpackedExactly
  <2> QED
    BY <2>1, <2>3 DEF Converted, Conversion!ColoursInterpolated, Conversion!NearestIsVisible
<1>4. CASE Conversion!Done("11bit", src, Conversion!Unpack8Pixels(src))
  <2>1. kind' = "11bit" /\ in' = src /\ out' = Conversion!Unpack8Pixels(src)
    BY <1>4 DEF Conversion!Done
  <2>2. \A k \in 1..8 : out'[k] = Conversion!Bits(in', 11 * (k - 1), 11)
    BY <1>1, <2>1, ElevenBits
  <2>3. Conversion!UnpackedExactly'
    BY <2>1, <2>2 DEF Conversion!UnpackedExactly
  <2> QED
    BY <2>1, <2>3 DEF Converted, Conversion!ColoursInterpolated, Conversion!NearestIsVisible
<1> QED
  BY <1>2, <1>3, <1>4 DEF Conversion!Unpack

LEMMA BayerConverts ==
  ASSUME NEW p \in BayerFrames, Conversion!Bayer(p)
  PROVE  Converted'
<1>1. p \in Picture
  <2>1. p \in [Conversion!Pixels -> Bytes] /\ Bytes \subseteq 0..255
    BY FramesAssumption DEF Conversion!Pixels
  <2> QED
    BY <2>1 DEF Picture
<1>2. kind' = "bayer" /\ in' = p /\ out' = Conversion!BayerToRgb(p)
  BY DEF Conversion!Bayer, Conversion!Done
<1>3. \A q \in Conversion!Pixels, c \in 1..3 :
        Fits(p, q, Conversion!Nearest(q, c), Conversion!BayerToRgb(p)[q][c])
  BY <1>1, Interpolated
<1>4. Conversion!ColoursInterpolated'
  BY <1>2, <1>3 DEF Conversion!ColoursInterpolated, Fits
<1> QED
  BY <1>2, <1>4 DEF Converted, Conversion!UnpackedExactly, Conversion!NearestIsVisible

LEMMA UyvyConverts ==
  ASSUME NEW u \in Bytes, NEW y \in Bytes, NEW v \in Bytes, Conversion!Uyvy(u, y, v)
  PROVE  Converted'
<1>1. u \in 0..255 /\ y \in 0..255 /\ v \in 0..255
  BY FramesAssumption
<1>2. kind' = "uyvy" /\ in' = <<u, y, v>> /\ out' = Conversion!UyvyToRgb(u, y, v)
  BY DEF Conversion!Uyvy, Conversion!Done
<1>3. in'[1] = u /\ in'[3] = v
  BY <1>2
<1>4. /\ \A c \in 1..3 : out'[c] \in 0..255
      /\ in'[1] = 128 /\ in'[3] = 128 => out'[1] = out'[2] /\ out'[2] = out'[3]
  <2>1. Coloured(u, v, out')
    BY <1>1, <1>2, UyvyIs
  <2> QED
    BY <1>3, <2>1 DEF Coloured
<1>5. Conversion!ColoursInterpolated'
  BY <1>2, <1>4 DEF Conversion!ColoursInterpolated
<1> QED
  BY <1>2, <1>5 DEF Converted, Conversion!UnpackedExactly, Conversion!NearestIsVisible

LEMMA RegistrationConverts ==
  ASSUME NEW reg \in Conversion!Registrations, NEW mm \in Metric,
         Conversion!ApplyRegistration(reg, mm)
  PROVE  Converted'
<1> DEFINE z == Conversion!ZBuffer(reg, mm, 1..(MaxMetric - 1))
<1>1. kind' = "registered" /\ in' = <<reg, mm>> /\ out' = z
  BY DEF Conversion!ApplyRegistration, Conversion!Done
<1>2. in'[1] = reg /\ in'[2] = mm
  BY <1>1
<1>3. 1..(MaxMetric - 1) \in SUBSET (1..MaxMetric)
  BY PicturesAssumption
<1>4. \A t \in Conversion!Pixels :
        LET S == Conversion!SourcesOf(reg, mm, t, 1..(MaxMetric - 1)) IN
        IF S = {} THEN z[t] = 0
        ELSE (\E q \in S : z[t] = mm[q]) /\ \A q \in S : z[t] <= mm[q]
  BY <1>3, NearestKept
<1> HIDE DEF z
<1>5. Conversion!NearestIsVisible'
  BY <1>1, <1>2, <1>4 DEF Conversion!NearestIsVisible
<1> QED
  BY <1>1, <1>5 DEF Converted, Conversion!UnpackedExactly, Conversion!ColoursInterpolated

LEMMA MapConverts ==
  ASSUME NEW reg \in Conversion!Registrations, NEW mm \in DepthFrames,
         Conversion!MapRgbToDepth(reg, mm)
  PROVE  Converted'
<1> DEFINE m == Conversion!DepthToMm(mm)
<1>1. kind' = "mapped" /\ in' = <<reg, m>> /\ out' = Conversion!Map(reg, m)
  BY DEF Conversion!MapRgbToDepth, Conversion!Done
<1>2. in'[1] = reg /\ in'[2] = m
  BY <1>1
<1>3. m \in Metric
  BY MetricIs
<1> HIDE DEF m
<1>4. \A q \in Conversion!Pixels :
        LET t == Conversion!Lands(reg, q, m[q]) IN
        (Conversion!Map(reg, m)[q][1] = "rgb") <=>
          /\ m[q] # 0 /\ t \in Conversion!Pixels
          /\ \A o \in Conversion!SourcesOf(reg, m, t, 1..MaxMetric) : m[o] >= m[q]
  BY <1>3, ColourShown
<1>5. Conversion!NearestIsVisible'
  BY <1>1, <1>2, <1>4 DEF Conversion!NearestIsVisible
<1> QED
  BY <1>1, <1>5 DEF Converted, Conversion!UnpackedExactly, Conversion!ColoursInterpolated

LEMMA ConversionStep ==
  ASSUME Conversion!Next
  PROVE  Converted'
<1>1. CASE \E src \in PackedFrames : Conversion!Unpack(src)
  BY <1>1, UnpackConverts
<1>2. CASE \E p \in BayerFrames : Conversion!Bayer(p)
  BY <1>2, BayerConverts
<1>3. CASE \E u, y, v \in Bytes : Conversion!Uyvy(u, y, v)
  BY <1>3, UyvyConverts
<1>4. CASE \E reg \in Conversion!Registrations, mm \in DepthFrames :
             Conversion!ApplyRegistration(reg, Conversion!DepthToMm(mm))
  BY <1>4, MetricIs, RegistrationConverts
<1>5. CASE \E reg \in Conversion!Registrations, mm \in DepthFrames :
             Conversion!MapRgbToDepth(reg, mm)
  BY <1>5, MapConverts
<1> QED
  BY <1>1, <1>2, <1>3, <1>4, <1>5 DEF Conversion!Next

\* Conversion, for every size of picture, every frame of bytes and depths and every
\* registration: packed values are unpacked to their bits, colours are the means of the
\* nearest sites that measure them, and of the pixels that land on one place the nearest
\* is the one kept and shown.
THEOREM ConversionSafe == Spec => []FramesConverted
<1> DEFINE I == part = "conversion" => Converted
<1>1. Init => I
  BY DEF Init, Conversion!Init, Converted, Conversion!UnpackedExactly,
     Conversion!ColoursInterpolated, Conversion!NearestIsVisible
<1>2. I /\ [Next]_all => I'
  <2> SUFFICES ASSUME I, [Next]_all, part' = "conversion" PROVE Converted'
    OBVIOUS
  <2>1. part = "conversion"
    BY PartSteps
  <2>2. CASE Conversion!Next
    BY <2>2, ConversionStep
  <2>3. CASE UNCHANGED convVars
    BY <2>1, <2>3 DEF Converted, Conversion!UnpackedExactly, Conversion!ColoursInterpolated,
       Conversion!NearestIsVisible, convVars
  <2> QED
    BY <2>1, <2>2, <2>3, PartSteps
<1>3. I => FramesConverted
  BY DEF FramesConverted, Converted
<1> QED
  BY <1>1, <1>2, <1>3, PTL DEF Spec, Steps
=============================================================================
