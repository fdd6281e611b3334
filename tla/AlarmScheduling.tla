---------------------------- MODULE AlarmScheduling ----------------------------
(***************************************************************************)
(* The one alarm of a session object, and the work that must not wait      *)
(* longer than it should (persistence/CloudAgentSession.ts, alarm and      *)
(* scheduleAlarmAtOrBefore; session/session-message-queue.ts,              *)
(* drainNextPendingMessage).                                               *)
(*                                                                         *)
(* Every handler asks for an alarm at or before some time.  The alarm's    *)
(* handler works through its duties, awaits the sandbox meanwhile, and     *)
(* then sets the next alarm from what it knows by then.  Which requests of *)
(* other handlers survive that, is the subject of this module.             *)
(*                                                                         *)
(* Times are ticks from now, one tick being PENDING_FLUSH_DEBOUNCE_MS, the *)
(* second every time in the past is clamped to.  0 is due or past, Far is  *)
(* a time that is not set.  Every action is what one handler does from one *)
(* external await to the next.                                             *)
(***************************************************************************)
EXTENDS Naturals

CONSTANTS
  Idle,       \* REAPER_IDLE_INTERVAL_MS
  Reaper,     \* the reaper interval of ensureAlarmScheduled
  MaxDelay,   \* bound: the longest deadline or backoff
  MaxRows     \* bound: pending rows

ASSUME AlarmAssumption ==
  /\ MaxDelay \in Nat \ {0} /\ Reaper \in Nat /\ Idle \in Nat /\ MaxRows \in Nat
  /\ MaxDelay < Reaper /\ Reaper < Idle

VARIABLES
  alarm,      \* the alarm of the storage
  due,        \* nextMaintenanceDeadlines and nextCallbackDeadline, the earliest
  held,       \* why deliveries are held: isWrapperDeliveryHeld
  rows,       \* how many pending rows there are
  backoff,    \* nextFlushAttemptAt of the oldest
  missed,     \* how many rows have lost their request (Submit, Postponed)
  pc,         \* where the alarm's handler is
  start,      \* alarmAtStart
  counted     \* the rows that were there when the flush began

vars == <<alarm, due, held, rows, backoff, missed, pc, start, counted>>

Far == Idle + 1

Delay == 1..MaxDelay

Deadline == (0..MaxDelay) \cup { Far }

Sooner(s, t) == IF s < t THEN s ELSE t

(* A time that is not in the future is set to a second from now. *)
Clamped(t) == IF t = 0 THEN 1 ELSE t

(* scheduleAlarmAtOrBefore: an alarm that is past was not for this request. *)
AtOrBefore(t) ==
  IF alarm = 0 \/ Clamped(t) < alarm THEN Clamped(t) ELSE alarm

Drain(n) == IF n > 0 THEN AtOrBefore(1) ELSE alarm

Away == pc = "idle"

-----------------------------------------------------------------------------
(* The end of the alarm's handler. *)

(* What another handler asked for while this one was away, if that is still *)
(* ahead.                                                                   *)
Asked == alarm \notin { 0, start }

(* Mutant: without a deadline there is no next alarm. *)
NextAlarmUnlessIdle(next, retryAt, remaining) ==
  LET nearest == Sooner(Clamped(next), Clamped(retryAt)) IN
  IF remaining /\ 1 < nearest THEN 1
  ELSE IF Asked /\ alarm < nearest THEN alarm ELSE nearest

(* Mutant: the rows that remain wait for a deadline. *)
NextAlarmByDeadline(next, retryAt, remaining) ==
  LET nearest == Sooner(Idle, Sooner(Clamped(next), Clamped(retryAt))) IN
  IF Asked /\ alarm < nearest THEN alarm ELSE nearest

(* Mutant: a deadline that has passed is left out. *)
NextAlarmAhead(next, retryAt, remaining) ==
  LET nearest == Sooner(Idle, IF next = 0 THEN retryAt ELSE Sooner(next, retryAt)) IN
  IF remaining /\ 1 < nearest THEN 1
  ELSE IF Asked /\ alarm < nearest THEN alarm ELSE nearest

(* The nearest of the deadlines, of the flush's retry, of what was asked     *)
(* for, and of the prompt retry when rows remain that nothing holds.        *)
NextAlarm(next, retryAt, remaining) ==
  LET nearest == Sooner(Idle, Sooner(Clamped(next), Clamped(retryAt))) IN
  IF remaining /\ 1 < nearest THEN 1
  ELSE IF Asked /\ alarm < nearest THEN alarm ELSE nearest

(* The handler returns: retryAt is pendingFlushRetryAt, remaining is        *)
(* remainingPendingCount; both come from the flush.  What is due and what   *)
(* is held is read now.                                                     *)
Returns(retryAt, remaining) ==
  /\ alarm' = NextAlarm(due', retryAt, retryAt = Far /\ remaining > 0 /\ held' = "no")
  /\ pc' = "idle" /\ start' = 0 /\ counted' = 0

-----------------------------------------------------------------------------
(* The alarm. *)

(* The next alarm is set before anything else, in case this one is cut off. *)
AlarmFires ==
  /\ Away /\ alarm = 0
  /\ alarm' = 1 /\ start' = 1
  /\ pc' = "work"
  /\ missed' = 0
  /\ UNCHANGED <<due, held, rows, backoff, counted>>

(* runMaintenance, repairTerminalEffects, retryPendingCallbacks: a duty that *)
(* is due is done and may leave another, a cleanup may begin or be over.    *)
Maintained ==
  IF due = 0
    THEN \/ due' \in Delay \cup { Far } /\ held' = "no"
         \/ due' \in Delay /\ held' = "cleaning"
    ELSE UNCHANGED <<due, held>>

(* Something of the alarm's work threw, or the delivery it awaited. *)
WorkFails ==
  /\ \/ pc = "work" /\ Maintained
     \/ pc = "deliver" /\ UNCHANGED <<due, held>>
  /\ alarm' = NextAlarm(due', 1, FALSE)
  /\ pc' = "idle" /\ start' = 0 /\ counted' = 0
  /\ UNCHANGED <<rows, backoff, missed>>

(* flushNextPendingSessionMessage finds nothing it may deliver: no row, a   *)
(* hold, a cleanup, or a backoff.                                           *)
NothingToFlush ==
  /\ pc = "work"
  /\ Maintained
  /\ rows = 0 \/ held' # "no" \/ backoff # 0
  /\ Returns(CASE rows = 0 \/ held' = "finalizing" -> Far
               [] held' = "no" -> backoff
               [] OTHER -> due', rows)
  /\ UNCHANGED <<rows, backoff, missed>>

(* The oldest row is delivered, or an exhausted cleanup is observed once     *)
(* more for it; how many rows there are is not asked again.                 *)
FlushBegins ==
  /\ pc = "work"
  /\ Maintained
  /\ rows > 0 /\ held' # "finalizing" /\ backoff = 0
  /\ pc' = "deliver"
  /\ counted' = rows
  /\ UNCHANGED <<alarm, rows, backoff, missed, start>>

(* Mutant: a row that an interruption has removed is taken off once more. *)
RowGoesTwice ==
  /\ rows' = rows - 1
  /\ backoff' = 0

(* The row, unless an interruption has removed it. *)
RowGoes ==
  /\ rows' = IF rows > 0 THEN rows - 1 ELSE 0
  /\ backoff' = 0

(* The wrapper took the prompt: its liveness is watched from now on. *)
Delivered ==
  /\ pc = "deliver"
  /\ RowGoes
  /\ \E d \in Delay : due' = Sooner(due, d)
  /\ UNCHANGED <<held, missed>>
  /\ Returns(Far, counted - 1)

(* The row waits for its next attempt; it is written back if it is gone. *)
DeliveryFails ==
  /\ pc = "deliver"
  /\ rows' = IF rows = 0 THEN 1 ELSE rows
  /\ UNCHANGED <<due, held, missed>>
  /\ \E d \in Delay : backoff' = d /\ Returns(d, counted)

(* The message is failed; a wrapper that was started for it is stopped. *)
DeliveryExhausted ==
  /\ pc = "deliver"
  /\ RowGoes
  /\ \/ UNCHANGED <<due, held>>
     \/ due' = 0 /\ held' = "cleaning"
  /\ Returns(Far, counted - 1)
  /\ UNCHANGED missed

(* The wrapper finalizes its batch; its report may have come before this. *)
DeliveryHeld ==
  /\ pc = "deliver"
  /\ held' = IF due = Far THEN held ELSE "finalizing"
  /\ UNCHANGED <<due, rows, backoff, missed>>
  /\ Returns(Far, counted)

Alarm ==
  \/ AlarmFires \/ WorkFails \/ NothingToFlush \/ FlushBegins
  \/ Delivered \/ DeliveryFails \/ DeliveryExhausted \/ DeliveryHeld

-----------------------------------------------------------------------------
(* The other handlers. *)

(* A row that comes while its predecessor is delivered is not counted. *)
Submit ==
  /\ rows < MaxRows
  /\ rows' = rows + 1
  /\ missed' = IF pc = "deliver" THEN missed + 1 ELSE missed
  /\ alarm' = AtOrBefore(1)
  /\ UNCHANGED <<due, held, backoff, pc, start, counted>>

(* An alarm that is due but has not been started counts as past, and is     *)
(* put off: what it was set for waits for the new deadline.                 *)
Postponed == Away /\ alarm = 0

(* A new deadline: a disconnect, a callback the queue refused. *)
DeadlineComes ==
  /\ \E d \in Delay :
       /\ due' = Sooner(due, d)
       /\ alarm' = AtOrBefore(due')
  /\ missed' = IF Postponed THEN rows ELSE missed
  /\ UNCHANGED <<held, rows, backoff, pc, start, counted>>

(* Output of the wrapper moves its deadlines away; the alarm comes early. *)
DeadlineMoves ==
  /\ due # Far
  /\ \E d \in Delay : d > due /\ due' = d
  /\ UNCHANGED <<alarm, held, rows, backoff, missed, pc, start, counted>>

(* wrapper_finalizing, of a run that is watched. *)
WrapperFinalizes ==
  /\ due # Far /\ held = "no"
  /\ held' = "finalizing"
  /\ UNCHANGED <<alarm, due, rows, backoff, missed, pc, start, counted>>

(* The terminal event: the wrapper is kept warm, or stopped. *)
RunEnds ==
  /\ due # Far /\ held # "cleaning"
  /\ \/ /\ due' \in Delay
        /\ held' = "no"
        /\ alarm' = IF rows > 0 THEN AtOrBefore(1) ELSE AtOrBefore(due')
     \/ /\ due' = 0
        /\ held' = "cleaning"
        /\ alarm' = AtOrBefore(0)
  /\ UNCHANGED <<rows, backoff, missed, pc, start, counted>>

(* The user interrupts everything: a wrapper that is there is stopped. *)
Interrupt ==
  /\ rows' = 0 /\ backoff' = 0 /\ missed' = 0
  /\ (due' = 0 /\ held' = "cleaning") \/ UNCHANGED <<due, held>>
  /\ alarm' = AtOrBefore(1)
  /\ UNCHANGED <<pc, start, counted>>

(* The maintenance an interruption runs, or the stop it awaited, is over. *)
CleanupEnds ==
  /\ held = "cleaning" /\ due # Far
  /\ held' = "no" /\ due' = Far
  /\ alarm' = Drain(rows)
  /\ UNCHANGED <<rows, backoff, missed, pc, start, counted>>

(* The object restarts: ensureAlarmScheduled. *)
Restart ==
  /\ pc' = "idle" /\ start' = 0 /\ counted' = 0 /\ missed' = 0
  /\ alarm' = Drain(rows)
  /\ UNCHANGED <<due, held, rows, backoff>>

-----------------------------------------------------------------------------
(* The specification. *)

Later(t) == IF t \in { 0, Far } THEN t ELSE t - 1

(* An alarm that is due comes before the next tick, unless one is running. *)
Tick ==
  /\ ~Away \/ alarm # 0
  /\ alarm' = Later(alarm) /\ due' = Later(due)
  /\ backoff' = Later(backoff) /\ start' = Later(start)
  /\ UNCHANGED <<held, rows, missed, pc, counted>>

Init ==
  /\ alarm = Reaper
  /\ due = Far /\ held = "no"
  /\ rows = 0 /\ backoff = 0 /\ missed = 0
  /\ pc = "idle" /\ start = 0 /\ counted = 0

Next ==
  \/ Alarm
  \/ Submit \/ DeadlineComes \/ DeadlineMoves \/ WrapperFinalizes
  \/ RunEnds \/ Interrupt \/ CleanupEnds \/ Restart
  \/ Tick

Spec == Init /\ [][Next]_vars

(* Time passes, an alarm is not put off for ever, what it awaits answers or  *)
(* throws, and its work does not throw each time before the flush.          *)
FairSpec ==
  /\ Spec
  /\ WF_vars(Tick) /\ WF_vars(Alarm)
  /\ SF_vars(AlarmFires) /\ SF_vars(NothingToFlush \/ FlushBegins)

-----------------------------------------------------------------------------
(* Properties. *)

(* The type invariant of the alarm and of what it is set from. *)
TypeOK ==
  /\ alarm \in 0..Far
  /\ due \in Deadline
  /\ held \in { "no", "finalizing", "cleaning" }
  /\ rows \in 0..MaxRows /\ backoff \in 0..MaxDelay
  /\ missed \in 0..MaxRows
  /\ pc \in { "idle", "work", "deliver" }
  /\ start \in 0..1
  /\ counted \in 0..MaxRows

(* The alarm is always set, and no deadline of the wrapper's lease, run or   *)
(* grace, nor that of a callback, passes before it by more than the clamp,  *)
(* whatever was asked for while an alarm ran and wherever the object        *)
(* restarts (CloudAgentSession.ts:3383).                                    *)
DeadlineIsCovered == alarm <= Clamped(due) /\ alarm <= Idle

(* A row that was there when the last flush began, and whose alarm was not   *)
(* put off while it was due, is tried at the next second, unless a hold or  *)
(* its own backoff delays it (CloudAgentSession.ts:3415).                   *)
CountedIsPrompt ==
  Away /\ rows > missed /\ held = "no" => alarm <= Clamped(backoff)

(* The same of every row, the ones that came meanwhile included.  The code   *)
(* announces to retry pending work promptly (CloudAgentSession.ts:3379).    *)
PendingIsPrompt ==
  Away /\ rows > 0 /\ held = "no" => alarm <= Clamped(backoff)

(* A request that was lost costs time, never the message: every pending row *)
(* is tried again or finds deliveries held (CloudAgentSession.ts:3379).     *)
PendingIsTried == (rows > 0) ~> (pc = "deliver" \/ held # "no" \/ rows = 0)

=============================================================================
