---------------------------- MODULE TuioCursors -----------------------------
(***************************************************************************)
(* The cursors of a TuioServer: how they get their cursor numbers, and how *)
(* they are stopped and removed when the application no longer touches     *)
(* them.  TuioClient numbers the cursors it hears of in the same way.  Of  *)
(* the motion of a cursor its speed is followed, which an update chooses;  *)
(* the time of a frame is its number.                                      *)
(***************************************************************************)
EXTENDS Integers, Sequences, SequencesExt, FiniteSets, FiniteSetsExt

CONSTANTS
  MaxCursors,   \* bound on the cursors at a time
  MaxFrames,
  Speeds        \* 0 and others

VARIABLES
  cursorList,      \* sequence of [id, speed, state, time, age]
  freeCursorList,  \* the numbers in it; their order is of no consequence
  maxCursorID,
  currentFrame,
  step             \* where the application is in a frame

cursorVars == <<cursorList, freeCursorList, maxCursorID, currentFrame, step>>

\* age counts the frames since the application last updated the cursor.
Cursor(id, t) == [id |-> id, speed |-> 0, state |-> "ADDED", time |-> t, age |-> 0]

Init ==
  /\ cursorList = <<>> /\ freeCursorList = {} /\ maxCursorID = -1
  /\ currentFrame = -1 /\ step = "commit"

\* initFrame
InitFrame ==
  /\ step = "commit" /\ currentFrame < MaxFrames
  /\ currentFrame' = currentFrame + 1 /\ step' = "touch"
  /\ cursorList' = [k \in DOMAIN cursorList |-> [cursorList[k] EXCEPT !.age = @ + 1]]
  /\ UNCHANGED <<freeCursorList, maxCursorID>>

\* Mutant: a number may be reused while it is the next new one, too.
Always(n) == freeCursorList # {}
\* Fewer cursors than numbers: one of them is free.
ReusesNumber(n) == n <= maxCursorID /\ freeCursorList # {}

\* addTuioCursor: the free cursor that was closest gives its number.
AddTuioCursor(id) ==
  LET n == Len(cursorList) IN
  /\ step = "touch" /\ n < MaxCursors
  /\ IF ReusesNumber(n)
       THEN /\ id \in freeCursorList /\ freeCursorList' = freeCursorList \ {id}
            /\ UNCHANGED maxCursorID
       ELSE id = n /\ maxCursorID' = n /\ UNCHANGED freeCursorList
  /\ cursorList' = Append(cursorList, Cursor(id, currentFrame))
  /\ UNCHANGED <<currentFrame, step>>

\* TuioContainer::update: the state follows from the change of the speed.
Moved(c, v) ==
  [c EXCEPT !.speed = v, !.time = currentFrame,
            !.state = CASE v > c.speed -> "ACCELERATING"
                        [] v < c.speed -> "DECELERATING"
                        [] OTHER -> "STOPPED"]

\* updateTuioCursor: once in a frame
UpdateTuioCursor(k, v) ==
  /\ step = "touch" /\ cursorList[k].time # currentFrame
  /\ cursorList' = [cursorList EXCEPT ![k] = [Moved(@, v) EXCEPT !.age = 0]]
  /\ UNCHANGED <<freeCursorList, maxCursorID, currentFrame, step>>

IdsOf(list) == {list[k].id : k \in DOMAIN list}

\* Mutant: numbers above the new maximum stay free.
KeepFree(free, m) == free
\* The free cursors that are deleted with the maximum are those above the new one, all
\* of them if no cursor is left.
StillFree(free, m) == {id \in free : id <= m}

\* removeTuioCursor
Without(k) ==
  LET id == cursorList[k].id
      rest == RemoveAt(cursorList, k)
      m == IF rest = <<>> THEN -1 ELSE Max(IdsOf(rest))
  IN
  /\ cursorList' = rest
  /\ IF id = maxCursorID
       THEN maxCursorID' = m /\ freeCursorList' = StillFree(freeCursorList, m)
       ELSE /\ freeCursorList' = freeCursorList \cup (IF id < maxCursorID THEN {id} ELSE {})
            /\ UNCHANGED maxCursorID

RemoveTuioCursor(k) == step = "touch" /\ Without(k) /\ UNCHANGED <<currentFrame, step>>

IsMoving(c) == c.state \in {"ACCELERATING", "DECELERATING"}
Untouched(c) == c.time # currentFrame

\* The cursors that stopUntouchedMovingCursors stops
ToStop(c) == Untouched(c) /\ IsMoving(c)

\* stopUntouchedMovingCursors: an update that does not move
StopUntouchedMovingCursors ==
  /\ step = "touch" /\ step' = "stopped"
  /\ cursorList' = [k \in DOMAIN cursorList |->
       IF ToStop(cursorList[k]) THEN Moved(cursorList[k], 0) ELSE cursorList[k]]
  /\ UNCHANGED <<freeCursorList, maxCursorID, currentFrame>>

\* removeUntouchedStoppedCursors: after each removal the list is walked from its beginning.
Gone(c) == Untouched(c) /\ ~IsMoving(c)
RemoveUntouchedStoppedCursors ==
  /\ step = "stopped" /\ UNCHANGED currentFrame
  /\ \/ \E k \in DOMAIN cursorList :
          /\ Gone(cursorList[k]) /\ \A j \in 1..(k - 1) : ~Gone(cursorList[j])
          /\ Without(k) /\ UNCHANGED step
     \/ /\ \A k \in DOMAIN cursorList : ~Gone(cursorList[k])
        /\ step' = "commit" /\ UNCHANGED <<cursorList, freeCursorList, maxCursorID>>

Next ==
  \/ InitFrame \/ StopUntouchedMovingCursors \/ RemoveUntouchedStoppedCursors
  \/ \E id \in 0..MaxCursors : AddTuioCursor(id)
  \/ \E k \in DOMAIN cursorList :
       RemoveTuioCursor(k) \/ \E v \in Speeds : UpdateTuioCursor(k, v)

Spec == Init /\ [][Next]_cursorVars

\* However cursors come and go, the numbers in use and the free ones are different and
\* together the numbers up to the greatest one in use, so that the length of the list
\* tells whether a free number exists (TuioServer.cpp:302); and with the two clean-up
\* calls in every frame, a cursor that the application no longer updates is gone with the
\* third frame (TuioServer.cpp:684).
NumbersAreDense ==
  /\ Cardinality(IdsOf(cursorList)) = Len(cursorList)
  /\ IdsOf(cursorList) \cap freeCursorList = {}
  /\ IdsOf(cursorList) \cup freeCursorList = 0..maxCursorID
  /\ maxCursorID = -1 \/ maxCursorID \in IdsOf(cursorList)
  /\ \A k \in DOMAIN cursorList :
       cursorList[k].age < (IF step = "commit" THEN 3 ELSE 4)

-----------------------------------------------------------------------------
(* The inductive invariant.                                                *)

CursorTypes ==
  /\ cursorList \in Seq([id : Int, speed : Nat, time : Int, age : Nat,
                         state : {"ADDED", "ACCELERATING", "DECELERATING", "STOPPED"}])
  /\ maxCursorID \in Int /\ currentFrame \in Int
  /\ step \in {"commit", "touch", "stopped"}

NumberInv ==
  /\ \A j, k \in 1..Len(cursorList) : j # k => cursorList[j].id # cursorList[k].id
  /\ \A k \in 1..Len(cursorList) : cursorList[k].id \notin freeCursorList
  /\ IdsOf(cursorList) \cup freeCursorList = 0..maxCursorID
  /\ maxCursorID = -1 \/ maxCursorID \in IdsOf(cursorList)

\* A cursor left alone is slowed down in the first frame after its update, stopped in the
\* second and removed in the third.
Slower(c, age) ==
  c.age <= age + 2 /\ (c.age > age => c.speed = 0) /\ (c.age = age + 2 => c.state = "STOPPED")
AgeInv ==
  \A k \in 1..Len(cursorList) :
    LET c == cursorList[k] IN
    /\ c.time <= currentFrame
    /\ step = "commit" => Slower(c, 0)
    /\ step = "touch" => IF Untouched(c) THEN Slower(c, 1) ELSE c.age = 0
    /\ step = "stopped" =>
         IF Untouched(c) THEN c.age <= 3 /\ ~IsMoving(c) ELSE Slower(c, 0)

IndInv == CursorTypes /\ NumberInv /\ AgeInv
=============================================================================
