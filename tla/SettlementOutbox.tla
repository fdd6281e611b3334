--------------------------- MODULE SettlementOutbox ---------------------------
(***************************************************************************)
(* What follows the end of a message: its terminal event, its place in the *)
(* idle-batch callback, its push notification, and the callback job        *)
(* (session/message-settlement-outbox.ts), driven by the wrapper's events, *)
(* by interruption and by the alarm (session/wrapper-supervisor.ts,        *)
(* persistence/CloudAgentSession.ts).  How a message is admitted, queued   *)
(* and delivered is the subject of SessionMessageQueue.                    *)
(*                                                                         *)
(* The callbacks of the messages that end before the session is idle are   *)
(* one batch with one job, that of the last message to end.  A batch whose *)
(* job needs the gate result of its wrapper run stays open until that      *)
(* result is observed or no longer expected.                               *)
(*                                                                         *)
(* The object runs one handler between external awaits (the input gate):   *)
(* "gate" holds the handler inside such a segment.  Each step ends with    *)
(* one durable write, and a crash may fall between any two.  The external  *)
(* awaits are the push notification, the callback queue and the interrupt  *)
(* command to the wrapper.  An activity works on the copy of the message   *)
(* it read before such an await.                                           *)
(***************************************************************************)
EXTENDS Naturals, FiniteSets

CONSTANTS
  Message,        \* message ids
  Required,       \* those with a callback target
  Handler,        \* concurrent RPC and ingest handlers
  Result,         \* what a wrapper's gate check reports
  Push,           \* a web session: a push notification is awaited
  GateExpected,   \* finalization.gateThreshold is set and not "off"
  MaxRuns,        \* bound: wrapper runs
  MaxCrashes      \* bound: crashes of the object

ASSUME OutboxAssumption ==
  /\ Required \subseteq Message
  /\ Handler \cap { "alarm", "open" } = {}
  /\ Push \in BOOLEAN /\ GateExpected \in BOOLEAN
  /\ MaxRuns \in Nat /\ MaxCrashes \in Nat

VARIABLES
  (* storage *)
  rows,           \* messages with a pending row
  msgs,           \* session message states
  batch,          \* the current idle batch, or NoBatch
  finalized,      \* representatives of the finalized batches
  run,            \* the wrapper run of the runtime state, 0 for none
  warm,           \* that run completed and its wrapper is kept warm
  lastRun,        \* the newest wrapper run
  active,         \* kiloServerLastActivity is set
  events,         \* messages with a terminal event
  (* the object *)
  gate,           \* the handler inside a storage segment, or "open"
  work,           \* what every handler is doing
  (* history and bounds *)
  reported,       \* the first gate result recorded for a message
  lost,           \* the runs the alarm gave up
  clock, crashes

history == <<reported, lost>>
storage == <<rows, msgs, batch, finalized, run, warm, lastRun, active, events>>
bounds == <<clock, crashes>>
vars == <<storage, gate, work, history, bounds>>

None == "none"

(* "canceled" is interrupted with the completion source "canceled". *)
Terminal == { "completed", "failed", "interrupted", "canceled" }

Worker == Handler \cup { "alarm" }

MessageState ==
  [ id : Message, status : { None, "queued", "accepted" } \cup Terminal,
    run : 0..MaxRuns, at : Nat, gate : Result \cup { None },
    event : { None, "pending", "accounted" },
    callback : { None, "pending", "accounted" }, allow : BOOLEAN,
    push : { None, "pending", "settled" },
    enqueued : BOOLEAN, retry : BOOLEAN ]

NewMessage(m) ==
  [ id |-> m, status |-> None, run |-> 0, at |-> 0, gate |-> None,
    event |-> None, callback |-> None, allow |-> FALSE, push |-> None,
    enqueued |-> FALSE, retry |-> FALSE ]

NoBatch == [ open |-> FALSE ]

NewBatch(m) == [ open |-> TRUE, rep |-> m, allow |-> FALSE,
                 observed |-> FALSE, released |-> FALSE ]

NoCopy == [ id |-> None ]

Idle == [ kind |-> "idle", pc |-> "idle", todo |-> {}, copy |-> NoCopy,
          captured |-> {}, run |-> 0, result |-> None ]

-----------------------------------------------------------------------------
(* Storage helpers. *)

Ended(m) == msgs[m].status \in Terminal

Accepted(r) ==
  { m \in Message : msgs[m].status = "accepted" /\ (r # 0 => msgs[m].run = r) }

(* The message states of a set of ids, as an activity lists them. *)
States(S) == { msgs[m] : m \in S }

NeedsJob(s) == s.id \in Required /\ ~s.enqueued

(* Mutant: a message without effects is left alone. *)
NoBackfill(s) == s

(* listTerminalMessagesWithPendingEffects reads a message that ended        *)
(* without effects, such as a canceled one, as one whose event is out and   *)
(* whose callback is pending.                                               *)
Normalized(s) ==
  IF s.event = None /\ NeedsJob(s)
  THEN [ s EXCEPT !.event = "accounted", !.callback = "pending" ]
  ELSE s

PendingEffects ==
  { s \in { Normalized(msgs[m]) : m \in { n \in Message : Ended(n) } } :
      \/ s.event = "pending"
      \/ s.callback = "pending"
      \/ s.push = "pending" }

PendingCallbacks == { s \in States(finalized) : NeedsJob(s) }

(* terminalizeMessageOnce: the transition and the effects it owes. *)
Settled(s, outcome, at, allow, push) ==
  [ s EXCEPT !.status = outcome, !.at = at, !.gate = None, !.event = "pending",
             !.callback = IF s.id \in Required THEN "pending" ELSE None,
             !.allow = allow /\ s.id \in Required, !.push = push ]

(* Mutant: the first message to end represents the batch. *)
FirstCandidate(s) ==
  IF batch.open THEN [ batch EXCEPT !.allow = @ \/ s.allow ]
  ELSE [ NewBatch(s.id) EXCEPT !.allow = s.allow ]

(* recordIdleBatchCallbackCandidate *)
WithCandidate(s) ==
  IF batch.open
  THEN [ batch EXCEPT !.rep = IF s.at >= msgs[@].at THEN s.id ELSE @,
                      !.allow = @ \/ s.allow ]
  ELSE [ NewBatch(s.id) EXCEPT !.allow = s.allow ]

(* Mutant: giving a run up does not end the wait for its gate result. *)
WaitsForLostRun ==
  /\ ~batch.observed
  /\ msgs[batch.rep].status = "completed"
  /\ msgs[batch.rep].gate = None
  /\ GateExpected

(* shouldWaitForWrapperGateResult *)
ShouldWait ==
  /\ ~batch.observed /\ ~batch.released
  /\ msgs[batch.rep].status = "completed"
  /\ msgs[batch.rep].gate = None
  /\ GateExpected

(* finalizeIdleBatchCallbackIfReady; hasObservedWrapperIdle answers false. *)
IdleReady(allow) ==
  batch.open /\ rows = {} /\ Accepted(0) = {} /\ allow /\ ~ShouldWait

(* finalizeTerminalWrapperRunCallbackIfReady *)
RunReady(r) ==
  batch.open /\ msgs[batch.rep].run = r /\ Accepted(r) = {} /\ ~ShouldWait

-----------------------------------------------------------------------------
Init ==
  /\ rows = {}
  /\ msgs = [m \in Message |-> NewMessage(m)]
  /\ batch = NoBatch /\ finalized = {}
  /\ run = 0 /\ warm = FALSE /\ lastRun = 0 /\ active = FALSE
  /\ events = {}
  /\ gate = "open"
  /\ work = [h \in Worker |-> Idle]
  /\ reported = [m \in Message |-> None] /\ lost = {}
  /\ clock = 0 /\ crashes = 0

(* Date.now(), which may not have moved since the last message ended. *)
Ticks == { clock, clock + 1 } \ { 0 }

Free(h) == gate = "open" /\ work[h].pc = "idle"

(* Activity h goes on at pc with some fields changed, inside its segment. *)
Continue(h, w) == gate' = h /\ work' = [work EXCEPT ![h] = w]

(* Activity h waits for something outside the object. *)
Await(h, w) == gate' = "open" /\ work' = [work EXCEPT ![h] = w]

Start(h, w) == Free(h) /\ Continue(h, w)

Busy(kinds) == \E h \in Worker : work[h].kind \in kinds

-----------------------------------------------------------------------------
(* The queue's side: admission, acceptance, cancellation. *)

Submit(m) ==
  /\ gate = "open" /\ msgs[m].status = None
  /\ msgs' = [msgs EXCEPT ![m].status = "queued"]
  /\ rows' = rows \cup {m}
  /\ UNCHANGED <<batch, finalized, run, warm, lastRun, active, events, gate,
                 work, history, bounds>>

(* Mutant: a new run does not advance the generation. *)
SameGeneration(r) == lastRun

Newest(r) == IF r > lastRun THEN r ELSE lastRun

(* The alarm delivers a message.  A run that completed is over, so the next *)
(* delivery begins another; a run that finalizes or is being stopped        *)
(* accepts nothing.                                                         *)
Accept(m) ==
  /\ Free("alarm") /\ m \in rows /\ msgs[m].status = "queued"
  /\ ~Busy({ "report", "interruptRun" })
  /\ LET r == IF run = 0 \/ warm THEN lastRun + 1 ELSE run IN
       /\ r <= MaxRuns
       /\ msgs' = [msgs EXCEPT ![m] = [ @ EXCEPT !.status = "accepted", !.run = r ]]
       /\ run' = r /\ warm' = FALSE /\ active' = TRUE
       /\ lastRun' = Newest(r)
  /\ rows' = rows \ {m}
  /\ UNCHANGED <<batch, finalized, events, gate, work, history, bounds>>

(* cancelQueuedMessage: no terminal effects; the row goes next. *)
Cancel(h, m) ==
  /\ m \in rows /\ msgs[m].status = "queued"
  /\ Start(h, [ Idle EXCEPT !.kind = "cancel", !.pc = "row", !.captured = {m} ])
  /\ \E at \in Ticks :
       /\ msgs' = [msgs EXCEPT ![m] = [ @ EXCEPT !.status = "canceled", !.at = at ]]
       /\ clock' = at
  /\ UNCHANGED <<rows, batch, finalized, run, warm, lastRun, active, events,
                 history, crashes>>

(* The drain removes the row of a message that has already ended. *)
DropResidue(m) ==
  /\ Free("alarm") /\ m \in rows /\ Ended(m)
  /\ rows' = rows \ {m}
  /\ UNCHANGED <<msgs, batch, finalized, run, warm, lastRun, active, events,
                 gate, work, history, bounds>>

-----------------------------------------------------------------------------
(* The activities, and what each one settles. *)

(* cloud.message.completed, or an assistant error or abort, for a message   *)
(* of the current run.                                                      *)
MessageEvent(h, m) ==
  /\ run # 0 /\ msgs[m].status # None
  /\ Start(h, [ Idle EXCEPT !.kind = "event", !.pc = "settle", !.run = run,
                            !.todo = States({m}) ])
  /\ UNCHANGED <<storage, history, bounds>>

(* onTerminalEvent, for the current run only. *)
RunReports(h, result) ==
  /\ run # 0
  /\ ~Busy({ "report" })
  /\ Start(h, [ Idle EXCEPT !.kind = "report", !.run = run, !.result = result,
                  !.pc = IF Accepted(run) = {} THEN "tail" ELSE "settle",
                  !.todo = States(Accepted(run)) ])
  /\ UNCHANGED <<storage, history, bounds>>

(* interruptExecution: first the pending messages, then the run's. *)
Interrupt(h) ==
  /\ ~Busy({ "interrupt", "interruptRun" })
  /\ Start(h, [ Idle EXCEPT !.kind = "interrupt", !.captured = rows,
                  !.pc = IF rows = {} THEN "tail" ELSE "settle",
                  !.todo = States(rows) ])
  /\ UNCHANGED <<storage, history, bounds>>

(* handleUnhealthyWrapper ("unhealthy", or "finalizing" when the run had    *)
(* begun to finalize) and checkDisconnectGrace ("grace", or "disconnected"  *)
(* when the run has nothing left to settle).                                *)
LoseRun(kind) ==
  /\ run # 0 /\ ~warm
  /\ kind = "unhealthy" => Accepted(run) # {}
  /\ kind = "disconnected" => Accepted(run) = {}
  /\ Start("alarm", [ Idle EXCEPT !.kind = kind, !.run = run,
                        !.pc = IF Accepted(run) = {} THEN "tail" ELSE "settle",
                        !.todo = States(Accepted(run)) ])
  /\ lost' = lost \cup { run }
  /\ UNCHANGED <<storage, reported, bounds>>

(* checkDisconnectGrace for a run that is no longer the current one. *)
StaleGrace(r) ==
  /\ r # run
  /\ Start("alarm", [ Idle EXCEPT !.kind = "stale", !.pc = "release", !.run = r ])
  /\ UNCHANGED <<storage, history, bounds>>

(* checkKeepWarmCleanup: the wrapper of a completed run stayed idle. *)
KeepWarmEnds ==
  /\ run # 0 /\ warm /\ rows = {} /\ Accepted(run) = {}
  /\ Start("alarm", [ Idle EXCEPT !.kind = "keepWarm", !.pc = "tail", !.run = run ])
  /\ UNCHANGED <<storage, history, bounds>>

(* cleanupIdleKiloServer: no wrapper is left and no work. *)
ServerIdle ==
  /\ active /\ run = 0 /\ rows = {}
  /\ Start("alarm", [ Idle EXCEPT !.kind = "serverIdle", !.pc = "tail" ])
  /\ UNCHANGED <<storage, history, bounds>>

(* repairTerminalEffects; the states are read once, before the first await. *)
Repair ==
  /\ PendingEffects # {} \/ batch.open
  /\ Start("alarm", [ Idle EXCEPT !.kind = "repair", !.todo = PendingEffects,
                        !.pc = IF PendingEffects = {} THEN "close" ELSE "settle" ])
  /\ UNCHANGED <<storage, history, bounds>>

(* retryPendingCallbacks, likewise; a retry that is not due is skipped. *)
Retry ==
  /\ \E s \in PendingCallbacks : ~s.retry
  /\ Start("alarm", [ Idle EXCEPT !.kind = "retry", !.pc = "settle",
                        !.todo = { s \in PendingCallbacks : ~s.retry } ])
  /\ UNCHANGED <<storage, history, bounds>>

(* The drain gives a message up. *)
DeliveryFails(m) ==
  /\ m \in rows /\ msgs[m].status = "queued"
  /\ Start("alarm", [ Idle EXCEPT !.kind = "delivery", !.pc = "settle",
                                  !.todo = States({m}), !.captured = {m} ])
  /\ UNCHANGED <<storage, history, bounds>>

(* callbackRetryAt passes. *)
RetryElapses(m) ==
  /\ gate = "open" /\ msgs[m].retry
  /\ msgs' = [msgs EXCEPT ![m].retry = FALSE]
  /\ UNCHANGED <<rows, batch, finalized, run, warm, lastRun, active, events, gate,
                 work, history, bounds>>

-----------------------------------------------------------------------------
(* terminalizeMessageOnce on the next message of an activity. *)

Interrupting == { "interrupt", "interruptRun" }

(* The alarm gives a run up: its liveness deadline passed, perhaps while it  *)
(* finalized, or the grace after its disconnection.                         *)
Losing == { "unhealthy", "finalizing", "grace", "disconnected" }

Outcomes(kind) ==
  CASE kind \in Interrupting -> { "interrupted" }
    [] kind = "delivery" -> { "failed" }
    [] kind \in Losing -> { "completed", "failed" }
    [] OTHER -> Terminal \ { "canceled" }

Allows(kind) == kind \in Interrupting \cup { "delivery" }

(* Of the messages that one report completes only the last sends a push. *)
Pushes(kind, outcome) ==
  IF kind = "report" /\ outcome = "completed" THEN { "pending", None } ELSE { "pending" }

In(h, pc) == gate = h /\ work[h].pc = pc

(* The next entry of an activity's list, in the order the messages ended. *)
Next1(h) == { s \in work[h].todo : \A other \in work[h].todo : s.at <= other.at }

Without(w, s) == [ w EXCEPT !.todo = @ \ {s} ]

(* A message that is still live ends; a pending one that the wrapper        *)
(* reports on was accepted by its run.                                      *)
Settle(h) ==
  /\ In(h, "settle") /\ work[h].kind \notin { "repair", "retry" }
  /\ \E s \in Next1(h) :
       LET m == s.id
           kind == work[h].kind IN
         /\ ~Ended(m)
         /\ \E outcome \in Outcomes(kind), at \in Ticks :
              \E push \in Pushes(kind, outcome) :
                LET live == IF kind = "event" /\ msgs[m].status = "queued"
                            THEN [ msgs[m] EXCEPT !.run = work[h].run ]
                            ELSE msgs[m]
                    new == Settled(live, outcome, at, Allows(kind), push) IN
                  /\ msgs' = [msgs EXCEPT ![m] = new]
                  /\ clock' = at
                  /\ Continue(h, [ Without(work[h], s) EXCEPT !.copy = new,
                       !.pc = IF kind = "delivery" THEN "row" ELSE "effects" ])
  /\ UNCHANGED <<rows, batch, finalized, run, warm, lastRun, active, events, history, crashes>>

(* A message that has already ended keeps its outcome and its effects are   *)
(* repaired; an interruption throws when that outcome is another.           *)
AlreadySettled(h) ==
  /\ In(h, "settle") /\ work[h].kind \notin { "repair", "retry" }
  /\ \E s \in Next1(h) :
       /\ Ended(s.id)
       /\ IF work[h].kind \in Interrupting /\ msgs[s.id].status \notin { "interrupted", "canceled" }
          THEN Await(h, Idle)
          ELSE Continue(h, [ Without(work[h], s) EXCEPT !.pc = "effects",
                                                         !.copy = msgs[s.id] ])
  /\ UNCHANGED <<storage, history, bounds>>

(* The rows of what ended: a canceled message, a given up one, or the ones  *)
(* an interruption captured.                                                *)
RemoveRows(h) ==
  /\ In(h, "row")
  /\ rows' = rows \ work[h].captured
  /\ CASE work[h].kind = "cancel" -> Await(h, Idle)
       [] work[h].kind = "delivery" -> Continue(h, [ work[h] EXCEPT !.pc = "effects" ])
       [] work[h].kind = "interruptRun" -> Continue(h, [ work[h] EXCEPT !.pc = "close" ])
  /\ UNCHANGED <<msgs, batch, finalized, run, warm, lastRun, active, events, history, bounds>>

(* A repair or a retry goes on with the copy it listed. *)
TakeCopy(h) ==
  /\ In(h, "settle") /\ work[h].kind \in { "repair", "retry" }
  /\ \E s \in Next1(h) :
       Continue(h, [ Without(work[h], s) EXCEPT !.copy = s,
                       !.pc = IF work[h].kind = "repair" THEN "effects" ELSE "job" ])
  /\ UNCHANGED <<storage, history, bounds>>

-----------------------------------------------------------------------------
(* applyTerminalEffects on the copy of the activity. *)

Copy(h) == work[h].copy

Save(s) == msgs' = [msgs EXCEPT ![s.id] = s]

(* On to the next message, or past the last one: a message event is done,   *)
(* without an observed idle it leaves the batch open; a repair and a given  *)
(* up delivery close it if they may; the others have more to do first.      *)
Proceed(h, w) ==
  CASE w.todo # {} -> Continue(h, [ w EXCEPT !.pc = "settle" ])
    [] w.todo = {} /\ w.kind = "event" -> Await(h, Idle)
    [] w.todo = {} /\ w.kind \in { "repair", "delivery" } ->
         Continue(h, [ w EXCEPT !.pc = "close" ])
    [] OTHER -> Continue(h, [ w EXCEPT !.pc = "tail" ])

(* Mutant: the event is marked but never inserted. *)
ForgetEvent(m) == events

InsertEvent(m) == events \cup {m}

EmitEvent(h) ==
  /\ In(h, "effects") /\ Copy(h).event # "accounted"
  /\ events' = InsertEvent(Copy(h).id)
  /\ Continue(h, [ work[h] EXCEPT !.pc = "emitted" ])
  /\ UNCHANGED <<rows, msgs, batch, finalized, run, warm, lastRun, active, history, bounds>>

MarkEmitted(h) ==
  /\ In(h, "emitted")
  /\ LET s == [ Copy(h) EXCEPT !.event = "accounted",
                  !.callback = IF Copy(h).event = None /\ Copy(h).id \in Required
                               THEN "pending" ELSE @ ] IN
       /\ Save(s)
       /\ Continue(h, [ work[h] EXCEPT !.pc = "effects", !.copy = s ])
  /\ UNCHANGED <<rows, batch, finalized, run, warm, lastRun, active, events, history, bounds>>

RecordCandidate(h) ==
  /\ In(h, "effects")
  /\ Copy(h).event = "accounted" /\ Copy(h).callback = "pending"
  /\ batch' = WithCandidate(Copy(h))
  /\ Continue(h, [ work[h] EXCEPT !.pc = "recorded" ])
  /\ UNCHANGED <<rows, msgs, finalized, run, warm, lastRun, active, events, history, bounds>>

MarkRecorded(h) ==
  /\ In(h, "recorded")
  /\ LET s == [ Copy(h) EXCEPT !.callback = "accounted" ] IN
       /\ Save(s)
       /\ Continue(h, [ work[h] EXCEPT !.pc = "effects", !.copy = s ])
  /\ UNCHANGED <<rows, batch, finalized, run, warm, lastRun, active, events, history, bounds>>

OwesPush(h) ==
  /\ In(h, "effects")
  /\ Copy(h).event = "accounted" /\ Copy(h).callback # "pending"
  /\ Copy(h).push = "pending"

SavePushed(h) ==
  /\ Save([ Copy(h) EXCEPT !.push = "settled" ])
  /\ Proceed(h, work[h])

(* Another platform, a connected stream client, or no CLI session. *)
SuppressPush(h) ==
  /\ OwesPush(h) /\ SavePushed(h)
  /\ UNCHANGED <<rows, batch, finalized, run, warm, lastRun, active, events, history, bounds>>

SendPush(h) ==
  /\ Push /\ OwesPush(h)
  /\ Await(h, [ work[h] EXCEPT !.pc = "push" ])
  /\ UNCHANGED <<storage, history, bounds>>

PushAccounted(h) ==
  /\ gate = "open" /\ work[h].pc = "push"
  /\ SavePushed(h)
  /\ UNCHANGED <<rows, batch, finalized, run, warm, lastRun, active, events, history, bounds>>

(* The push stays pending for the alarm. *)
PushFails(h) ==
  /\ gate = "open" /\ work[h].pc = "push"
  /\ Proceed(h, work[h])
  /\ UNCHANGED <<storage, history, bounds>>

NothingOwed(h) ==
  /\ In(h, "effects")
  /\ Copy(h).event = "accounted" /\ Copy(h).callback # "pending"
  /\ Copy(h).push # "pending"
  /\ Proceed(h, work[h])
  /\ UNCHANGED <<storage, history, bounds>>

-----------------------------------------------------------------------------
(* What an activity does once its messages are settled. *)

Tail(h, kinds) == In(h, "tail") /\ work[h].kind \in kinds

(* onTerminalEvent keeps the run of a completed batch warm, or clears it. *)
ReportTail(h) ==
  /\ Tail(h, { "report" })
  /\ IF run = work[h].run
     THEN \/ run' = 0 /\ warm' = FALSE
          \/ run' = run /\ warm' = TRUE
     ELSE UNCHANGED <<run, warm>>
  /\ Continue(h, [ work[h] EXCEPT !.pc = "result" ])
  /\ UNCHANGED <<rows, msgs, batch, finalized, lastRun, active, events, history, bounds>>

(* Mutant: any report on the open batch replaces the result. *)
LastResult(h) == batch.open /\ NeedsJob(msgs[batch.rep])

TakesResult(h) ==
  /\ batch.open /\ work[h].result # None
  /\ NeedsJob(msgs[batch.rep]) /\ msgs[batch.rep].gate = None

(* observeWrapperTerminalForIdleBatch: the result, ... *)
RecordResult(h) ==
  /\ In(h, "result")
  /\ IF TakesResult(h)
     THEN /\ msgs' = [msgs EXCEPT ![batch.rep].gate = work[h].result]
          /\ reported' = [reported EXCEPT ![batch.rep] =
                            IF @ = None THEN work[h].result ELSE @]
     ELSE UNCHANGED <<msgs, reported>>
  /\ Continue(h, [ work[h] EXCEPT !.pc = "observe" ])
  /\ UNCHANGED <<rows, batch, finalized, run, warm, lastRun, active, events, lost, bounds>>

(* ... then the mark that it came. *)
Observe(h) ==
  /\ In(h, "observe")
  /\ batch' = IF batch.open THEN [ batch EXCEPT !.observed = TRUE ] ELSE batch
  /\ Continue(h, [ work[h] EXCEPT !.pc = "close" ])
  /\ UNCHANGED <<rows, msgs, finalized, run, warm, lastRun, active, events, history, bounds>>

ClearRun(h) ==
  IF run = work[h].run THEN run' = 0 /\ warm' = FALSE ELSE UNCHANGED <<run, warm>>

(* An activity is over; an unhealthy wrapper loses its identity only now. *)
Ends(h) ==
  /\ Await(h, Idle)
  /\ IF work[h].kind \in { "unhealthy", "finalizing" }
     THEN ClearRun(h) ELSE UNCHANGED <<run, warm>>

(* What the alarm forgets before it releases the wait: the identity of a    *)
(* run that disconnected or went idle, or the activity of an idle server.   *)
Forget(h) ==
  /\ Tail(h, Losing \cup { "keepWarm", "serverIdle" })
  /\ IF work[h].kind \in { "grace", "keepWarm" }
     THEN ClearRun(h) ELSE UNCHANGED <<run, warm>>
  /\ active' = (active /\ work[h].kind # "serverIdle")
  /\ Continue(h, [ work[h] EXCEPT !.pc = "release" ])
  /\ UNCHANGED <<rows, msgs, batch, finalized, lastRun, events, history, bounds>>

(* releaseWrapperTerminalWaitForIdleBatch, for one run or for any. *)
Release(h) ==
  /\ In(h, "release")
  /\ LET forRun == work[h].kind \in { "grace", "stale" }
         releases == batch.open /\ (forRun => msgs[batch.rep].run = work[h].run) IN
       /\ batch' = IF releases THEN [ batch EXCEPT !.released = TRUE ] ELSE batch
       /\ IF forRun /\ ~releases
          THEN Await(h, Idle)
          ELSE Continue(h, [ work[h] EXCEPT !.pc = "close" ])
  /\ UNCHANGED <<rows, msgs, finalized, run, warm, lastRun, active, events,
                 history, bounds>>

(* The pending messages are settled; next those of the run. *)
InterruptRun(h) ==
  /\ Tail(h, { "interrupt" })
  /\ Continue(h, [ work[h] EXCEPT !.kind = "interruptRun", !.run = run,
                     !.todo = States(Accepted(run)),
                     !.pc = IF Accepted(run) = {} THEN "tail" ELSE "settle" ])
  /\ UNCHANGED <<storage, history, bounds>>

InterruptCommand(h) ==
  /\ Tail(h, { "interruptRun" })
  /\ Await(h, [ work[h] EXCEPT !.pc = "command" ])
  /\ UNCHANGED <<storage, history, bounds>>

(* The run loses its identity; the rows of the captured messages are next. *)
InterruptTail(h) ==
  /\ gate = "open" /\ work[h].pc = "command"
  /\ ClearRun(h)
  /\ Continue(h, [ work[h] EXCEPT !.pc = "row" ])
  /\ UNCHANGED <<rows, msgs, batch, finalized, lastRun, active, events, history, bounds>>

(* Which batch an activity may close. *)
MayClose(h) ==
  LET kind == work[h].kind IN
    CASE kind \in { "report", "grace", "stale", "finalizing" } -> RunReady(work[h].run)
      [] kind = "repair" -> batch.open /\ IdleReady(batch.allow)
      [] OTHER -> IdleReady(TRUE)

(* finalizeIdleBatchCallbackState; a batch that is finalized but still the  *)
(* current one is no longer open.                                           *)
Close(h) ==
  /\ In(h, "close")
  /\ IF MayClose(h)
     THEN finalized' = finalized \cup { batch.rep } /\ batch' = NoBatch
     ELSE UNCHANGED <<batch, finalized>>
  /\ IF MayClose(h) /\ NeedsJob(msgs[batch.rep])
     THEN /\ Continue(h, [ work[h] EXCEPT !.pc = "job", !.copy = msgs[batch.rep] ])
          /\ UNCHANGED <<run, warm>>
     ELSE Ends(h)
  /\ UNCHANGED <<rows, msgs, lastRun, active, events, history, bounds>>

-----------------------------------------------------------------------------
(* enqueueMessageCallbackNotification on the copy of the activity. *)

AfterJob(h) ==
  IF work[h].todo = {} THEN Ends(h)
  ELSE Continue(h, [ work[h] EXCEPT !.pc = "settle" ]) /\ UNCHANGED <<run, warm>>

(* A job that cannot fit the queue's size limit is abandoned. *)
AbandonJob(h) ==
  /\ In(h, "job")
  /\ Save([ Copy(h) EXCEPT !.enqueued = TRUE ])
  /\ AfterJob(h)
  /\ UNCHANGED <<rows, batch, finalized, lastRun, active, events, history, bounds>>

SendJob(h) ==
  /\ In(h, "job")
  /\ Await(h, [ work[h] EXCEPT !.pc = "send" ])
  /\ UNCHANGED <<storage, history, bounds>>

JobFails(h) ==
  /\ gate = "open" /\ work[h].pc = "send"
  /\ Save([ Copy(h) EXCEPT !.retry = TRUE ])
  /\ AfterJob(h)
  /\ UNCHANGED <<rows, batch, finalized, lastRun, active, events, history, bounds>>

JobSent(h) ==
  /\ gate = "open" /\ work[h].pc = "send"
  /\ Await(h, [ work[h] EXCEPT !.pc = "sent" ])
  /\ UNCHANGED <<storage, history, bounds>>

JobRecorded(h) ==
  /\ gate = "open" /\ work[h].pc = "sent"
  /\ Save([ Copy(h) EXCEPT !.enqueued = TRUE ])
  /\ AfterJob(h)
  /\ UNCHANGED <<rows, batch, finalized, lastRun, active, events, history, bounds>>

-----------------------------------------------------------------------------
(* The object stops: storage and queue stay, every activity is lost. *)
Crash ==
  /\ crashes < MaxCrashes
  /\ \E h \in Worker : work[h].pc # "idle"
  /\ crashes' = crashes + 1
  /\ gate' = "open"
  /\ work' = [h \in Worker |-> Idle]
  /\ UNCHANGED <<storage, history, clock>>

Goes(h) ==
  \/ Settle(h) \/ AlreadySettled(h) \/ TakeCopy(h) \/ RemoveRows(h)
  \/ EmitEvent(h) \/ MarkEmitted(h) \/ RecordCandidate(h) \/ MarkRecorded(h)
  \/ SuppressPush(h) \/ SendPush(h) \/ PushAccounted(h) \/ PushFails(h)
  \/ NothingOwed(h)
  \/ ReportTail(h) \/ RecordResult(h) \/ Observe(h)
  \/ Forget(h) \/ Release(h) \/ InterruptRun(h) \/ InterruptCommand(h)
  \/ InterruptTail(h) \/ Close(h)
  \/ AbandonJob(h) \/ SendJob(h) \/ JobFails(h) \/ JobSent(h) \/ JobRecorded(h)

AlarmRuns ==
  \/ \E kind \in Losing : LoseRun(kind)
  \/ \E r \in 1..lastRun : StaleGrace(r)
  \/ KeepWarmEnds \/ ServerIdle \/ Repair \/ Retry
  \/ \E m \in Message : DeliveryFails(m)

Next ==
  \/ \E m \in Message : Submit(m) \/ Accept(m) \/ DropResidue(m)
                          \/ RetryElapses(m)
  \/ \E h \in Handler : \/ \E m \in Message : MessageEvent(h, m) \/ Cancel(h, m)
                        \/ \E result \in Result \cup { None } : RunReports(h, result)
                        \/ Interrupt(h)
  \/ AlarmRuns
  \/ \E h \in Worker : Goes(h)
  \/ Crash

Spec == Init /\ [][Next]_vars

-----------------------------------------------------------------------------
Batch == { NoBatch } \cup
  [ open : {TRUE}, rep : Message, allow : BOOLEAN, observed : BOOLEAN, released : BOOLEAN ]

Activity ==
  [ kind : { "idle", "event", "report", "keepWarm", "serverIdle", "stale",
             "repair", "retry", "delivery", "cancel" } \cup Interrupting \cup Losing,
    pc : { "idle", "settle", "row", "effects", "emitted", "recorded", "push", "tail", "result",
           "observe", "release", "command", "close", "job", "send", "sent" },
    todo : SUBSET MessageState, copy : MessageState \cup { NoCopy },
    captured : SUBSET Message, run : 0..MaxRuns, result : Result \cup { None } ]

(* Type invariant of the outbox's storage, queue and handlers. *)
TypeOK ==
  /\ rows \subseteq Message /\ finalized \subseteq Message
  /\ msgs \in [Message -> MessageState]
  /\ batch \in Batch
  /\ lastRun \in 0..MaxRuns /\ run \in 0..lastRun
  /\ warm \in BOOLEAN /\ active \in BOOLEAN
  /\ events \subseteq Message
  /\ gate \in Worker \cup { "open" }
  /\ work \in [Worker -> Activity]
  /\ reported \in [Message -> Result \cup { None }] /\ lost \subseteq 1..lastRun
  /\ clock \in Nat /\ crashes \in 0..MaxCrashes

(* A receiver of a callback finds the terminal event of its message in the  *)
(* session's history, whichever path and whichever repair sent the job.     *)
(* (The end of a canceled message is no terminal event.)                    *)
EventBeforeCallback ==
  \A h \in Worker :
    work[h].pc = "job" /\ work[h].copy.status # "canceled" => work[h].copy.id \in events

(* No message that owes a callback is forgotten, across repairs, crashes    *)
(* and late answers: the alarm's repair still finds its callback pending,   *)
(* or a batch, open or finalized, stands for it with a message that ended   *)
(* no earlier.                                                              *)
CallbackCovered ==
  \A m \in Required :
    Ended(m) =>
      \/ Normalized(msgs[m]).callback = "pending"
      \/ \E n \in finalized \cup (IF batch.open THEN { batch.rep } ELSE {}) :
           msgs[n].at >= msgs[m].at

RunOver(r) == r # run \/ warm \/ r \in lost

(* The job of a completed message leaves without a gate result only when    *)
(* the run that would report one is over                                    *)
(* (test/integration/session/message-terminalization.test.ts:867).          *)
GateIsAwaited ==
  \A h \in Worker :
    work[h].pc = "job" /\ work[h].kind # "retry" =>
      LET s == work[h].copy IN
        s.status = "completed" /\ s.gate = None /\ GateExpected => RunOver(s.run)

(* A gate result that was recorded for a message is in every job that is    *)
(* sent for it afterwards: no replay and no late write replaces it          *)
(* (session/message-settlement-outbox.test.ts:907).                         *)
GateIsKept ==
  \A h \in Worker :
    work[h].pc = "job" =>
      LET s == work[h].copy IN reported[s.id] # None => s.gate = reported[s.id]
-----------------------------------------------------------------------------
(* A handler inside a segment goes on and what it awaits answers; the       *)
(* callback queue does not fail for ever; the alarm, which always sets its  *)
(* next time, comes back to each of its duties: it delivers the pending     *)
(* messages or gives them up, repairs and retries; and a wrapper run does   *)
(* not stay for ever: it is reported on, given up or expires when idle.     *)
Fairness ==
  /\ WF_vars(\E h \in Worker : gate = h /\ Goes(h))
  /\ \A h \in Worker : SF_vars(gate = "open" /\ Goes(h))
  /\ SF_vars(\E h \in Worker : JobSent(h))
  /\ SF_vars(\E m \in Message : Accept(m) \/ DeliveryFails(m) \/ DropResidue(m))
  /\ SF_vars(\E m \in Message : RetryElapses(m))
  /\ SF_vars(KeepWarmEnds \/ ServerIdle \/ \E kind \in Losing : LoseRun(kind))
  /\ SF_vars(Repair) /\ SF_vars(Retry)

FairSpec == Spec /\ Fairness

(* A message that a wrapper run held, or that was interrupted or given up,  *)
(* and that wants a callback, gets it: its own job or that of a message of  *)
(* its batch that ended no earlier is handed to the queue or abandoned as   *)
(* too large.  A canceled message that no run follows is not promised one.  *)
CallbackIsSent ==
  \A m \in Required :
    Ended(m) /\ (msgs[m].run # 0 \/ msgs[m].allow)
      ~> \E n \in Required : msgs[n].at >= msgs[m].at /\ msgs[n].enqueued

=============================================================================
