-------------------------- MODULE AlarmSchedulingProofs --------------------------
(***************************************************************************)
(* The alarm of AlarmScheduling covers every deadline and every row that   *)
(* was counted, for every cadence, delay and number of rows.               *)
(***************************************************************************)
EXTENDS AlarmScheduling, TLAPS

(* What a flush under way relies on: the rows it did not count came after   *)
(* it began.                                                                *)
FlushIsCounted ==
  /\ pc = "work" => missed = 0
  /\ pc = "deliver" =>
       backoff = 0 /\ counted >= 1 /\ rows <= counted + missed /\ missed <= rows

AlarmInv == TypeOK /\ DeadlineIsCovered /\ FlushIsCounted /\ CountedIsPrompt

(* The next alarm is no later than the idle cadence, than any deadline, and  *)
(* than the prompt retry.                                                   *)
LEMMA NextAlarmBounds ==
  ASSUME TypeOK, NEW n \in Deadline, NEW r \in Deadline \cup { 1 }, NEW b \in BOOLEAN
  PROVE  /\ NextAlarm(n, r, b) \in 1..Idle
         /\ NextAlarm(n, r, b) <= Clamped(n) /\ NextAlarm(n, r, b) <= Clamped(r)
         /\ b => NextAlarm(n, r, b) <= 1
  BY AlarmAssumption DEF TypeOK, Deadline, Far, NextAlarm, Sooner, Clamped, Asked

(* A request is met, and never delays an alarm that lies ahead. *)
LEMMA AtOrBeforeBounds ==
  ASSUME TypeOK, NEW t \in 0..MaxDelay
  PROVE  /\ AtOrBefore(t) \in 1..Far
         /\ AtOrBefore(t) <= Clamped(t)
         /\ alarm # 0 => AtOrBefore(t) <= alarm
  BY AlarmAssumption DEF TypeOK, Deadline, Far, AtOrBefore, Clamped

LEMMA InitHolds == Init => AlarmInv
  BY AlarmAssumption
  DEF Init, AlarmInv, TypeOK, DeadlineIsCovered, FlushIsCounted, CountedIsPrompt,
      Deadline, Far, Clamped, Away

(* What the maintenance leaves is a deadline. *)
LEMMA MaintainedHolds ==
  ASSUME AlarmInv, Maintained
  PROVE  /\ due' \in Deadline /\ held' \in { "no", "finalizing", "cleaning" }
         /\ due # 0 => due' = due
         /\ due = 0 => due' >= 1
         /\ Clamped(due) <= Clamped(due')
         /\ alarm <= Clamped(due')
<1>1. \/ due = 0 /\ due' \in Delay \cup { Far } /\ held' \in { "no", "cleaning" }
      \/ due # 0 /\ due' = due /\ held' = held
  BY DEF Maintained
<1>2. /\ MaxDelay \in Nat /\ Idle \in Nat /\ MaxDelay < Idle
      /\ due \in 0..MaxDelay \cup { Idle + 1 } /\ alarm \in Nat
      /\ alarm <= IF due = 0 THEN 1 ELSE due
      /\ held \in { "no", "finalizing", "cleaning" }
  BY AlarmAssumption DEF AlarmInv, TypeOK, DeadlineIsCovered, Deadline, Far, Clamped
<1>3. CASE due = 0 /\ due' \in Delay \cup { Far } /\ held' \in { "no", "cleaning" }
  BY <1>2, <1>3 DEF Deadline, Delay, Far, Clamped
<1>4. CASE due # 0 /\ due' = due /\ held' = held
  BY <1>2, <1>4 DEF Deadline, Far, Clamped
<1> QED
  BY <1>1, <1>3, <1>4

LEMMA AlarmStepHolds == AlarmInv /\ Alarm => AlarmInv'
<1> SUFFICES ASSUME AlarmInv, Alarm PROVE AlarmInv'
  OBVIOUS
<1> USE AlarmAssumption
    DEF AlarmInv, TypeOK, DeadlineIsCovered, FlushIsCounted, CountedIsPrompt,
        Deadline, Delay, Far, Away
<1>1. CASE AlarmFires
  BY <1>1 DEF AlarmFires, Clamped
<1>2. CASE WorkFails
  <2>1. /\ due' \in Deadline /\ held' \in { "no", "finalizing", "cleaning" }
    <3>1. CASE Maintained
      BY <3>1, MaintainedHolds
    <3>2. CASE UNCHANGED <<due, held>>
      BY <3>2
    <3> QED
      BY <1>2, <3>1, <3>2 DEF WorkFails
  <2>2. alarm' \in 1..Idle /\ alarm' <= Clamped(due') /\ alarm' <= Clamped(1)
    BY <1>2, <2>1, NextAlarmBounds DEF WorkFails
  <2>3. /\ pc' = "idle" /\ start' = 0 /\ counted' = 0
        /\ rows' = rows /\ backoff' = backoff /\ missed' = missed
    BY <1>2 DEF WorkFails
  <2> QED
    BY <2>1, <2>2, <2>3 DEF Clamped
<1>3. CASE NothingToFlush
  <2>1. /\ due' \in Deadline /\ held' \in { "no", "finalizing", "cleaning" }
    BY <1>3, MaintainedHolds DEF NothingToFlush
  <2> DEFINE retryAt == CASE rows = 0 \/ held' = "finalizing" -> Far
                          [] held' = "no" -> backoff
                          [] OTHER -> due'
             remaining == retryAt = Far /\ rows > 0 /\ held' = "no"
  <2>2. retryAt \in Deadline
    BY <1>3, <2>1 DEF NothingToFlush
  <2>3. alarm' = NextAlarm(due', retryAt, remaining)
    BY <1>3 DEF NothingToFlush, Returns
  <2>4. remaining \in BOOLEAN
    OBVIOUS
  <2>5. /\ alarm' \in 1..Idle /\ alarm' <= Clamped(due') /\ alarm' <= Clamped(retryAt)
    <3> HIDE DEF retryAt, remaining
    <3> QED BY <2>1, <2>2, <2>3, <2>4, NextAlarmBounds
  <2>6. held' = "no" /\ rows > 0 => retryAt = backoff
    BY <1>3 DEF NothingToFlush
  <2> QED
    BY <1>3, <2>1, <2>5, <2>6 DEF NothingToFlush, Returns, Clamped
<1>4. CASE FlushBegins
  <2>1. /\ due' \in Deadline /\ held' \in { "no", "finalizing", "cleaning" }
        /\ alarm <= Clamped(due')
    BY <1>4, MaintainedHolds DEF FlushBegins
  <2> QED
    BY <1>4, <2>1 DEF FlushBegins, Clamped
<1>5. CASE Delivered
  <2>1. due' \in Deadline
    BY <1>5 DEF Delivered, Sooner
  <2>2. PICK b \in BOOLEAN : /\ b <=> counted - 1 > 0 /\ held' = "no"
                             /\ alarm' = NextAlarm(due', Far, b)
    BY <1>5 DEF Delivered, Returns
  <2>3. alarm' \in 1..Idle /\ alarm' <= Clamped(due') /\ (b => alarm' <= 1)
    BY <2>1, <2>2, NextAlarmBounds
  <2> QED
    BY <1>5, <2>1, <2>2, <2>3 DEF Delivered, RowGoes, Returns, Clamped
<1>6. CASE DeliveryFails
  <2>1. PICK d \in Delay : backoff' = d /\ Returns(d, counted)
    BY <1>6 DEF DeliveryFails
  <2> DEFINE remaining == d = Far /\ counted > 0 /\ held' = "no"
  <2>2. alarm' \in 1..Idle /\ alarm' <= Clamped(due') /\ alarm' <= Clamped(d)
    <3>1. alarm' = NextAlarm(due', d, remaining)
      BY <2>1 DEF Returns
    <3>2. due' \in Deadline /\ d \in Deadline /\ remaining \in BOOLEAN
      BY <1>6 DEF DeliveryFails
    <3> HIDE DEF remaining
    <3> QED
      BY <3>1, <3>2, NextAlarmBounds
  <2>3. /\ backoff' = d /\ pc' = "idle" /\ start' = 0 /\ counted' = 0
        /\ due' = due /\ held' = held /\ missed' = missed
        /\ rows' = IF rows = 0 THEN 1 ELSE rows
    BY <1>6, <2>1 DEF DeliveryFails, Returns
  <2>4. rows' \in 0..MaxRows
    BY <1>6, <2>3 DEF DeliveryFails
  <2> QED
    BY <2>2, <2>3, <2>4 DEF Clamped
<1>7. CASE DeliveryExhausted
  <2>1. due' \in Deadline /\ held' \in { "no", "finalizing", "cleaning" }
    BY <1>7 DEF DeliveryExhausted
  <2>2. PICK b \in BOOLEAN : /\ b <=> counted - 1 > 0 /\ held' = "no"
                             /\ alarm' = NextAlarm(due', Far, b)
    BY <1>7 DEF DeliveryExhausted, Returns
  <2>3. alarm' \in 1..Idle /\ alarm' <= Clamped(due') /\ (b => alarm' <= 1)
    BY <2>1, <2>2, NextAlarmBounds
  <2> QED
    BY <1>7, <2>1, <2>2, <2>3 DEF DeliveryExhausted, RowGoes, Returns, Clamped
<1>8. CASE DeliveryHeld
  <2>1. PICK b \in BOOLEAN : /\ b <=> counted > 0 /\ held' = "no"
                             /\ alarm' = NextAlarm(due', Far, b)
    BY <1>8 DEF DeliveryHeld, Returns
  <2>2. alarm' \in 1..Idle /\ alarm' <= Clamped(due') /\ (b => alarm' <= 1)
    BY <1>8, <2>1, NextAlarmBounds DEF DeliveryHeld
  <2> QED
    BY <1>8, <2>1, <2>2 DEF DeliveryHeld, Returns, Clamped
<1> QED
  BY <1>1, <1>2, <1>3, <1>4, <1>5, <1>6, <1>7, <1>8 DEF Alarm

LEMMA OtherStepHolds ==
  AlarmInv /\ (Submit \/ DeadlineComes \/ DeadlineMoves \/ WrapperFinalizes
                 \/ RunEnds \/ Interrupt \/ CleanupEnds \/ Restart \/ Tick)
  => AlarmInv'
<1> USE AlarmAssumption
    DEF AlarmInv, TypeOK, DeadlineIsCovered, FlushIsCounted, CountedIsPrompt,
        Deadline, Delay, Far, Away, AtOrBefore, Clamped, Drain
<1>1. AlarmInv /\ Submit => AlarmInv'
  BY DEF Submit
<1>2. AlarmInv /\ DeadlineComes => AlarmInv'
  BY DEF DeadlineComes, Sooner, Postponed
<1>3. AlarmInv /\ DeadlineMoves => AlarmInv'
  BY DEF DeadlineMoves
<1>4. AlarmInv /\ WrapperFinalizes => AlarmInv'
  BY DEF WrapperFinalizes
<1>5. AlarmInv /\ RunEnds => AlarmInv'
  BY DEF RunEnds
<1>6. AlarmInv /\ Interrupt => AlarmInv'
  <2> SUFFICES ASSUME AlarmInv, Interrupt PROVE AlarmInv'
    OBVIOUS
  <2>1. /\ due' \in Deadline /\ held' \in { "no", "finalizing", "cleaning" }
    BY DEF Interrupt
  <2>2. alarm' = 1
    BY DEF Interrupt
  <2> QED
    BY <2>1, <2>2 DEF Interrupt
<1>7. AlarmInv /\ CleanupEnds => AlarmInv'
  BY DEF CleanupEnds
<1>8. AlarmInv /\ Restart => AlarmInv'
  BY DEF Restart
<1>9. AlarmInv /\ Tick => AlarmInv'
  BY DEF Tick, Later
<1> QED
  BY <1>1, <1>2, <1>3, <1>4, <1>5, <1>6, <1>7, <1>8, <1>9

LEMMA AlarmInvariant == Spec => []AlarmInv
<1>1. AlarmInv /\ UNCHANGED vars => AlarmInv'
  BY DEF AlarmInv, TypeOK, DeadlineIsCovered, FlushIsCounted, CountedIsPrompt, Away, vars
<1>2. AlarmInv /\ [Next]_vars => AlarmInv'
  BY <1>1, AlarmStepHolds, OtherStepHolds DEF Next
<1> QED
  BY InitHolds, <1>2, PTL DEF Spec

(* The alarm, the deadlines and the counts keep their types. *)
THEOREM TypeCorrect == Spec => []TypeOK
  BY AlarmInvariant, PTL DEF AlarmInv

(* No deadline is passed over, whatever is asked while an alarm runs and     *)
(* wherever the object restarts.                                            *)
THEOREM DeadlinesAreCovered == Spec => []DeadlineIsCovered
  BY AlarmInvariant, PTL DEF AlarmInv

(* Every row the last flush counted is tried promptly. *)
THEOREM CountedRowsArePrompt == Spec => []CountedIsPrompt
  BY AlarmInvariant, PTL DEF AlarmInv
=============================================================================
