# Verification of the Kilo cloud agent session

This directory holds TLA+ specifications of the session core of `services/cloud-agent-next`,
the service that runs a user's coding agent in the cloud, with TLC configurations that check
them and TLAPS proofs about them. All paths below are relative to the repository root; `CA` is
`services/cloud-agent-next/src`.

## 1. Inventory

The repository is a monorepo: three applications (`apps/web`, `apps/mobile`, `apps/extension`),
some thirty Cloudflare Workers under `services`, and shared packages. Most of it is user
interface, validation and calls to other services. The part whose correctness rests on the order
of concurrent steps is the family of Durable Objects, and among them the `CloudAgentSession`
object is the largest and the one whose failures cost a user's work. It is made of these parts.

| Part | State it keeps | Operations | What makes it correct |
| --- | --- | --- | --- |
| Pending rows and flush policy (`CA/session/pending-messages.ts`) | one `pending_message:<time>:<id>` row per undelivered message, with attempts, last cause, next attempt | admit, list, record a failed flush, delete | one row per message; bounded and delayed retries; a named cause is kept |
| Message queue (`CA/session/session-message-queue.ts`) | the rows, the marker of an interruption in progress | admission and its replay, drain by the alarm, interrupt, recover, cancel, snapshot | acknowledged work is durable; FIFO; limit; nothing settled twice |
| Message state (`CA/session/session-message-state.ts`) | `session_message:<id>`: none, queued, accepted, completed, failed, interrupted, and which effects of the end are outstanding | create, accept, terminalize once, list | terminal is final |
| Settlement outbox (`CA/session/message-settlement-outbox.ts`) | effects of a terminal message, the current idle batch | terminal event, idle-batch callback, push, repair, retry | every required callback is enqueued in the end, after the batch is idle |
| Session object and alarm (`CA/persistence/CloudAgentSession.ts`) | one alarm; everything above | public methods, alarm | no lost wake-up: no deadline passes the alarm by |
| Agent runtime (`CA/session/agent-runtime.ts`) | none of its own | authorize a physical wrapper, deliver one message to its run | one live wrapper; at-least-once delivery under one fence |
| Wrapper supervisor and runtime state (`CA/session/wrapper-supervisor.ts`, `wrapper-runtime-state.ts`) | physical lease, current wrapper run with its deadlines, disconnect grace, finalization hold | liveness, disconnect grace, terminal events, physical stop and its quarantine | accepted work is watched until it is settled; a lost run's work is failed, never sent twice; holds end |
| Wrapper (`services/cloud-agent-next/wrapper/src`) | bound session, admitted messages, deliveries in flight, idle candidate, drain | deliver a prompt or command, observe idle, seal, complete, abort, reconnect | a batch is completed once, with every message it was given, when they are done |
| Ingest and stream sockets (`CA/websocket`) | sockets, event table | wrapper events in, viewer events out | events of a stale run are refused |
| Callback delivery (`CA/callbacks`) | queue messages | deliver, retry, give up | bounded retries |
| Sandbox control (`CA/persistence/SandboxControl.ts`) | leases of physical sandboxes | allocate, renew, stop | capacity is respected |

The parts interact inside one object: an RPC handler or a socket event writes storage and asks
for an alarm; the alarm runs maintenance of the wrapper, repairs the effects of terminal
messages, finishes an interrupted interruption, and flushes the oldest pending row; a flush calls
the sandbox and awaits its answer, and meanwhile every other handler may run. Nothing but storage
survives an eviction. The hard behaviours are therefore the interleavings at external awaits,
crashes between two durable writes, ambiguous deliveries (the prompt was taken and the answer
lost), retries with alternating causes, and the order of the steps of an alarm.

Other stateful services are listed with their reason in `PROJECT.json`: the code review
orchestrator, the webhook trigger objects, the owner leases of the security analysis and the
container usage meter are the next candidates.

## 2. Modules

| Module | Models | Depends on |
| --- | --- | --- |
| `PendingFlushPolicy` | `recordPendingFlushFailure` as operators over a delivery record | |
| `PendingFlush` | one pending row under arbitrary failures | `PendingFlushPolicy` |
| `MessageLifecycle` | abstract: what the object promises about a message | |
| `SessionMessageQueue` | admission, drain, delivery, interruption, cancellation, wrapper events, crashes | `PendingFlushPolicy`, `MessageLifecycle` (by `INSTANCE`) |
| `SettlementOutbox` | what follows the end of a message: terminal event, idle batch, gate result, push, callback job, with every path that drives them | |
| `WrapperRuntime` | the physical wrapper, its lease and its run as the session object sees them, with the alarm, the interrupt and the terminal handler that share them | |
| `WrapperBatch` | the wrapper process: deliveries, idle candidate, sealing, drain, aborts | |
| `AlarmScheduling` | when the one alarm of the object comes, with a clock | |
| `MC...` | instances for TLC | |
| `PendingFlushPolicyProofs`, `PendingFlushProofs` | theorems about the retry policy | the module they are about |
| `SessionMessageQueueProofs` | type correctness of the queue | `SessionMessageQueue` |
| `SessionMessageQueueSafetyProofs` | the safety invariant of the queue and the refinement | `SessionMessageQueueProofs` |
| `AlarmSchedulingProofs`, `WrapperBatchProofs`, `SettlementOutboxProofs`, `WrapperRuntimeProofs` | type correctness and the safety of the alarm, of the wrapper process, of the outbox and of the wrapper as the session sees it | the module they are about |

The modules look at one object from several sides. `SessionMessageQueue` takes what a wrapper does
as input; `WrapperRuntime` takes the queue as a set of messages with a status and models the wrapper
as the session sees it; `WrapperBatch` opens the process itself, whose seal, completion and refusal
are the inputs of `WrapperRuntime`; `SettlementOutbox` follows what a settled message owes; and
`AlarmScheduling` asks whether the alarm that drives all of them comes in time.

### How the queue model corresponds to the code

* *Storage.* `rows`, `state`, `marker`, `events` and `finalizing` are the keys of the object's
  storage; a row's `delivery` is the retry bookkeeping of `PendingFlushPolicy`. Messages with one
  id and different content are one message: a replay with other content is refused without a write.
* *Atomicity.* The input gate of a Durable Object admits no other event while a handler waits only
  for storage. `gate` is the handler inside such a segment; every action is one durable write (or
  one atomic transaction), leaves `gate` at the handler when the code continues with storage only,
  and opens it where the code awaits something external: the billing check, the delivery, the
  effects of an interruption, the stop of the wrapper. Event and state tables are written in
  separate actions wherever a crash between them can be observed.
* *Admission* (`AdmitReplay`, `AdmitRepair`, `AdmitCheck`, `AdmitPutRow`, `AdmitPutState`,
  `AdmitClone`, `AdmitEffects`) is `admitSubmittedMessage` and `admitIntent`; refusals write
  nothing and are not actions, except the one that follows the billing await (`BillingDenies`).
* *Alarm* (`AlarmFires` ... `DrainRemovesRow`) is `alarm`, `recoverPendingInterruption` and
  `drainNextPendingMessage` with `flushNextPendingSessionMessage`. The delivery is three steps:
  the wrapper takes the prompt (`WrapperTakes`), the answer is recorded (`DeliveryAccepted`), or
  the attempt fails before or after the wrapper took it (`DeliveryFails`).
* *Interruption* (`InterruptStarts`, then `RepairCaptured` ... `ClearMarker`) runs as an RPC or as
  the alarm's recovery, on the same steps (`Settler`).
* *Cancellation* (`CancelRepairs` ... `CancelAgain`) is `cancelQueuedMessage` of the queue and of
  the object.
* *Wrapper* (`TerminalEvent`, `TerminalEventInfersAccepted`, `RunEnds`, `SettleLost`) is what the
  ingest socket and the supervisor do with a run's end. `wrapper` holds the messages the current
  run was given and has not reported: it is the fence of a report, the list an interruption captures
  its accepted messages from, and the list a lost run is settled from. `RunReplaced` is a delivery
  that finds no wrapper and allocates a run (`agent-runtime.ts:356`); a message the run before has
  accepted is then in no run (`Orphaned`) and only an interruption that finds no run takes it up.
* *Crash* drops every handler and keeps storage and wrapper.

### How the outbox model corresponds to the code

* *Messages.* A member of `msgs` is the part of `SessionMessageState` the outbox reads:
  `event`, `callback` (with `allow`, its `allowWithoutObservedIdle`) and `push` are
  `terminalEffects`; `enqueued` is `callbackEnqueuedAt` or `callbackAbandonedAt`; `retry` says that
  `callbackRetryAt` lies ahead. Status "canceled" is `interrupted` with the completion source
  `canceled`. `at` is `terminalAt`; two messages may end in the same millisecond (`Ticks`).
* *Batch.* `batch` is the current `IdleBatchCallbackState` with its representative, `observed`
  (`wrapperTerminalObservedAt`) and `released` (`wrapperTerminalWaitReleasedAt`); `finalized` holds
  the representatives of the batches with `finalizedAt`.
* *Activities.* `work[h]` is what handler `h` is doing: which of the drivers it is (`kind`), where
  (`pc`), the messages it still has to settle, and the copy of the message it works on. The copy
  matters: the code writes whole message states back, from the copy read before a push or a send
  was awaited. `MessageEvent` and `RunReports` are the ingest socket's; `Interrupt` and `Cancel`
  are RPCs; `LoseRun` (liveness deadline or disconnect grace), `StaleGrace`, `KeepWarmEnds`,
  `ServerIdle`, `Repair`, `Retry` and `DeliveryFails` are the alarm's duties. All of them settle
  through the same steps: `Settle`, `EmitEvent`, `MarkEmitted`, `RecordCandidate`, `MarkRecorded`,
  the push, then the driver's own tail (`ReportTail` ... `InterruptTail`), `Close` and the job.
* *One step where the queue has several.* Admission, acceptance and the marker of an interruption
  are modelled in `SessionMessageQueue`; here a message is submitted and accepted in one step, and
  a message event that overtakes the acceptance infers it in the step that settles the message.
* *`hasObservedWrapperIdle`* answers false in the code, so a message's own event never closes the
  batch. The current wrapper sends no `cloud.message.completed`, but the ingest socket handles it,
  and an assistant error or abort takes the same way.

### How the wrapper runtime model corresponds to the code

* *Storage.* `lease` is `wrapper_lease` (with `gen` its `nextInstanceGeneration` and `exhausted` its
  `exhaustedAt`), `run` is `wrapper_runtime_state`, `grace` is `disconnect_grace`. Generation, run
  id and connection id are allocated and fenced together, so one number stands for the three.
  `run.live` is which of the no-output, ping and pong deadlines are set. `msgs[m].observed` says
  that the acceptance was recorded from the wrapper's answer and not inferred from its report.
* *Lease.* `Allocate`, `WithDeadline`, `OwnedAbsent`, `RequestStop`, `BeginStop`, `RetryStop`,
  `Exhaust` are the events of `reduceWrapperLease`, each with its guard. The attempt id of a stop is
  the handler that began it (`holder`): a handler has one stop under way at most.
* *Handlers.* `work[w]` is what the alarm, the user's interrupt and the handler of a terminal event
  are doing. Maintenance (`BeginMaintenance` ... `Ends`) runs in the alarm and at the end of an
  interrupt; its checks come in the code's order, and a check that finds nothing due is passed over
  (`Before`). The delivery (`Flush` ... `Delivered`) is `flushNextPendingSessionMessage` and
  `AgentRuntime.send` with `authorizePhysicalWrapper`.
* *Awaits.* `gate` holds a handler between two external awaits: a stop, an observation of wrappers,
  the execution with its callback `onWorkspaceReady`, and, when `Awaited`, what follows the
  settlement of a message. Everything between them is one segment no other handler enters.
* *Time.* Deadlines have no clock. One that is set may be due, but only if it was set before the
  maintenance that looks at it began (`MayBeDue`), since the code compares with a `now` taken then.
* *Wrapper.* `wrapper[i]` is physical instance `i`: whether it runs, which run it is bound to, which
  messages it holds, whether it has sealed its batch, its connection, and the event on its way. It
  may die, fail, seal, fall silent, drop its connection and reconnect at any time.
* *Reuse.* A warm wrapper gets its startup deadline from the copy of the lease that was read before
  the observation, and keeps the deadline it was kept warm until (`"reused"`: both are set).
* *Failed deliveries.* A delivery that a cleanup blocks may be skipped, or count as a failure when
  the cleanup is exhausted or the attempt before did not reach the sandbox; a failure leaves the row
  for another attempt or, its budget spent, fails the message (`DeliveryFails`).
* *Interrupt.* It ends with an error when a message it lists was settled otherwise meanwhile
  (`IsForestalled`). That takes two handlers settling one message, hence an await in a settlement:
  it is reached with `Awaited` only, as in `MCWrapperInterrupt.cfg`.
* *Disconnect.* Grace begins while the run has active work; whether the outbox waits for the run's
  gate result, which begins it too, is a choice.

### How the wrapper batch model corresponds to the code

* *State.* `session`, `admitted`, `acks`, `finalizing`, `blocked` are the fields of `WrapperState`;
  `root`, `aborted`, `drain` the variables of the lifecycle manager; `link` (the ingest socket),
  `feed` (the subscription to kilo's events) and `buffered` the connection manager's. `req[m]` is
  where the request that delivers `m` awaits.
* *Two meanings of connected.* A delivery looks at `state.isConnected`, which is the socket alone; the
  seal looks at `connectionManager.isConnected`, which asks for a live subscription too
  (`Connected`). `open` publishes the socket before it awaits the handshake of the subscription
  (`Attaches`, `Opened`), so that a second delivery passes it by and sends its prompt unheard. A
  newer handshake takes the place of one under way, whose opener goes on as if it had succeeded; one
  that fails rolls the connection back for everybody (`OpenFails`).
* *Bindings.* `Bind` is `bindSessionContext`, for `session/ready` as for a delivery, and happens at any
  time: what separates it from the admission are awaits. The binding of the same run brings another
  ticket each time `session/ready` mints one; it then closes the connection and resets the
  lifecycle, idle candidate included (`LifecycleResets`).
* *Deliveries.* `Request` is the admission of a delivery (`beginDeliveryAcknowledgement`);
  `Prepared`, `Attaches`, `Opened`, `Takes`, `Answered` are what it does after each await, with
  one failure action per await. A command is accepted before the connection is opened, a prompt
  after; the answer to a command comes when its turn is over.
* *End of a batch.* `IdleIsStable` is `trySealIdleBatch` with `beginFinalizing`; `TasksEnd` and
  `DrainEnds` are the two halves of `finalizeDrain`; `Closes` and `clearSession` end the run.
  `GraceEnds` is the session object's own watch over a wrapper without a connection.
* *Ghosts.* `owed` are the messages the object was told are delivered and whose end it has not
  learned; `orderly` is false from the moment a request is overtaken (see hazards): an abort, a new
  run, or a repetition of its own while it is in flight. `unheard` are the messages kilo took while
  no subscription was live: their idle events cannot be told from those of the turn before.
  `missed` says that the last idle of kilo reached nobody, or was forgotten with the candidate.
* *What the end of a message rests on.* `OwedIsEnded` has `~missed` as its premise and as its
  escape, and does not hold without it: with two requests already, one of them sends while the other
  awaits the handshake, its turn ends unheard, and the batch is neither sealed nor given up until
  another turn ends. The code means to exclude this (comment at `connection.ts:1414`), and does for
  a single request.

### How the alarm model corresponds to the code

* *Clock.* A tick is the second to which a deadline in the past is clamped; the alarm, a deadline and
  a backoff are the ticks that are left. `Idle` is the interval of an idle object, `Reaper` that of
  a new one.
* *State.* `due` is the nearest of the maintenance deadlines and callback retries
  (`getNextAlarmDeadlines`), `held` why deliveries are held, `rows` the pending rows, `counted` how
  many the flush under way has counted, `start` the alarm the handler set first (line 3304).
* *Handlers.* The alarm runs from `AlarmFires` to `Returns`, which is the code from line 3378 on;
  it awaits a delivery in between, and every other handler that asks for an alarm may run then. What
  it does may throw before the flush or out of the delivery (`WorkFails`): the count of rows is then
  unknown, and the next alarm a second away.

## 3. Plan

Done: the queue and its retry policy, the outbox, the wrapper runtime, the wrapper process, the
alarm. Still to write, in this order:

1. `CallbackDelivery`: the queue consumer that delivers what the outbox enqueued, with bounded
   retries.
2. A composition of `WrapperRuntime` and `WrapperBatch` over one connection: what the first takes
   as input of a wrapper is what the second may do.
3. A composition of the queue and the outbox over one storage, for the ends a message reaches
   through the queue (failed delivery, interruption) and their callbacks.
4. Other stateful services, one each: the code review orchestrator, the webhook trigger objects,
   the owner leases of the security analysis, the capacity of `SandboxControl`.

Every invariant and action property that a passing run checks is stated by a theorem. Left to
prove is what comes with the modules above: the promises of `CallbackDelivery`, and the compositions,
whose point is that the inputs one module assumes are steps the other one takes.

## 4. What the runs check

The bounds are in the `.cfg` files; counts are distinct states.

| Run | Instance | What it shows | States |
| --- | --- | --- | --- |
| `pending_flush` | the real lengths of the delay lists, every failure code and override | the retries of one row are bounded, delayed, and keep their cause, in every order of the failures | 104 |
| `queue_safety` | 2 messages, 1 caller, 1 interruption, 2 crashes, transient and permanent failures | durable admission, one row per message, sent event before the row goes, the marker of an interruption outlives every message of its batch, `MessageLifecycle`, first in first out | 890,369 |
| `queue_liveness` | 2 messages, limit 1, billing and clone reporting on, 1 caller, 1 crash | the limit on the other path of admission; if holds end, acknowledged work settles unless its run was replaced, and no row stays behind | 45,784 |
| `outbox_safety` | 2 messages, 2 wrapper runs, 1 handler and the alarm | event before callback, no callback forgotten, gate results kept | 3,017,569 |
| `outbox_crash` | 1 message, a push awaited, 1 handler and the alarm, 2 crashes | the same with stale copies written back, through repairs and retries | 2,195,094 |
| `outbox_liveness` | 1 message, 1 run, 1 handler and the alarm | the callback is sent | 6,958 |
| `wrapper_safety` | 2 messages, 2 physical wrappers, 2 runs, 1 stop attempt, 1 interrupt or broken connection | one live wrapper; no handler takes the watch from work a live wrapper holds | 1,617,355 |
| `wrapper_liveness` | 1 message, 1 physical wrapper, 3 runs, 2 stop attempts, 1 interrupt or broken connection, 1 crash | cleanups are settled or quarantined, holds end, accepted work is settled | 168,529 |
| `alarm` | idle interval 8, first interval 6, deadlines up to 4, 3 rows | no deadline passes the alarm by, counted rows are retried at once, every row is tried again | 4,082 |
| `batch` | 2 messages, prompts and commands, 2 runs, 3 requests, 1 upset (an abort, a lost connection or subscription, a refreshed binding) | one completion per run, nothing falls out of a batch, no batch is sealed early, every end is reported unless its idle was missed | 528,113 |

Why the bounds are enough to meet the hazards. Two messages give every pair of handlers a message
to disagree about, one in front of the other; three with a limit of two
(`MCQueueLimit.cfg`) fill the queue while a row of a settled message is written back. A crash may fall between any two durable writes, so one crash
reaches every partial state, and two reach a crash during the recovery from the first. An
interruption runs as an RPC and as the alarm's recovery, which overlap; any number of them is covered
by the theorems of section 5. A delivery is granted one redelivery, so a row is delivered, fails, waits, is delivered again and is given up.
`MaxRows` bounds the rows admissions write, hence the number of admissions; a message may still be
replayed any number of times.

For the outbox, two messages make a batch with a representative that must change, and a second run
lets a batch outlive the run that opened it. One handler beside the alarm gives each copy held over
an await a writer to collide with; the alarm itself never runs twice. Handlers and crashes multiply,
so a handler with crashes is checked on one message. `MaxRuns` and `MaxCrashes` are the bounds; the
messages themselves end only once, which bounds `clock`. Symmetry of the messages is used for safety
only.

For the wrapper, two messages let one be delivered while the wrapper works on the other, which is
where a run is reused, replaced or lost; a second instance and a second run are the replacement.
One stop attempt already makes a cleanup exhaust, be rechecked and be released; two let an attempt
be retried after it expired. An interrupt or a broken connection each happen once (`MaxFaults`);
deaths, silence, failures, refusals and late answers are not bounded. Liveness is checked with one
message: with two, `AcceptedIsSettled` fails for the reason of run `wrapper_orphan`. A sandbox call
does not outlive the object that made it.

For the wrapper's batch, two requests meet each other at every await, a third repeats one that failed
or comes over what the two have left, and two runs let a run be bound over the remains of the other.
`MaxUpsets` bounds what is not a delivery; sends, preparations and handshakes may fail any number
of times. `MCBatchRetries.cfg` has four requests and two upsets on one run. For the alarm, the intervals are long enough that a deadline
can lie before, between and after what was asked for; the theorems hold for every length.

`queue_safety` has a single interruption on purpose: with two, the one that ends first deletes
the marker the other relies on (hazard at `session-message-queue.ts:1206`), and the property as
stated is false. `queue_liveness` has none, since an interruption can block the queue for ever; that
is run `queue_wedged`.

### Fairness

Safety is checked under `Spec`, which assumes nothing. Liveness is checked under `FairSpec`:

* a handler that waits for storage only, or for a call that answers, goes on (`CallContinues`,
  weak: the runtime resumes it), and so does an alarm (`AlarmContinues`, strong, because another
  handler's segment closes the gate in between; the constructor and every run of the alarm set the
  next one, and a throwing alarm is retried by the runtime);
* an interruption under way goes on (strong, for the same reason);
* what the current run has accepted is settled (`SettleLost`, strong): maintenance of the wrapper is
  the first thing every alarm does, and the deadlines of a watched run expire (`AcceptedIsSettled`
  of `WrapperRuntime`). Nothing is assumed of a message whose run was replaced: it may stay accepted
  for ever, and `AckedIsSettled` excepts it (`Orphaned`);
* a delivery that is tried again and again is not blocked for ever by a cleanup (`DeliveryResolves`,
  strong): its attempts are bounded, and an exhausted cleanup is a failure;
* a backoff elapses.

That a hold of deliveries ends is not a fairness condition, as a crash can leave one behind (hazard at
`agent-runtime.ts:473`): it is the premise `HoldsEnd` of `AckedIsSettled`, `ResidueIsRemoved` and
`ChatStaysUsable`, and `RunEnds` is not fair.

For the outbox: a handler inside a segment goes on (weak), what it awaits answers, the callback
queue does not refuse for ever, and the alarm comes back to each of its duties (strong, as other
handlers hold the gate in between). A wrapper run does not stay silent for ever: it reports, or its
liveness deadline, its disconnect grace or its keep-warm deadline passes, or the idle server is
cleaned up, all of them deadlines the alarm schedules for itself. (A wrapper whose messages have all
been settled by their own events and that then stays connected and silent has no such deadline; its
batch waits for the socket to close, and the fairness assumes that it does.) Liveness is claimed without
crashes only (`MaxCrashes = 0`): `cleanupIdleKiloServer` clears the activity before it releases the
batch, and a crash in between leaves the batch open until the session is used again. It is not
claimed for a message that is only canceled, since nothing closes its batch before other work does.

Nothing is assumed of clients, of crashes, or of the wrapper taking a prompt.

For the wrapper runtime: the alarm always comes and goes on (weak; `AlarmScheduling` shows that it
comes), and every deadline it looks at again and again is due at some time (strong); calls to the
sandbox return or time out; handlers under way go on, a wrapper that starts is up or gone, its
events arrive or are lost with its connection, and it does not retry a lost connection for ever
(`UnderWay`, strong, as the alarm's segments close the gate in between). That a wrapper falls silent
counts as a deadline only when no pong and no output can come (`TurnsSilent`); no fairness is
assumed of death, failure, refusal or of the user. For the wrapper's batch: what it awaits answers, a
lost connection comes back or is given up, a renewed subscription succeeds or ends the connection,
a connection that keeps coming back is there at some time when the timer of the idle candidate
runs out, and the object does not wait for ever for a wrapper that has closed its connection
(`GraceEnds`). For the alarm: time passes, an alarm that is due
and is put off again and again is started at last, and the maintenance does not throw before every
flush.

### Findings

Two runs are expected to fail: each states a promise found in the repository's own documents or
comments that the code does not keep. `PROJECT.json` quotes the lines.

* `queue_wedged`: a delivery fails ambiguously after the wrapper took the prompt, its run reports
  the turn completed, and the failed delivery writes the row back. An interruption then captures
  the row and throws because the message is already completed; its marker stays, so every alarm
  throws before the flush and no later message is delivered.
* `wrapper_orphan`: a wrapper dies with an accepted message. Before the end of its connection is
  handled, or while its grace runs, the next message is delivered: the observation finds no
  wrapper, a new instance is allocated, and `send` clears the run identity and the grace without
  settling what the old run had accepted. No maintenance looks at that message again.

### Further configurations

These instances are not among the runs of `PROJECT.json`; each is run as the others are. The first
seven fail, and show how.

* `MCQueueCanceled.cfg` (`CanceledStaysDropped`): a message is cancelled while its delivery is under
  way; when that delivery fails, the row is written back, and the snapshot for reconnecting viewers
  lists it again until a later alarm removes it.
* `MCQueueReplay.cfg` (`SettledOnce`): two admissions of one message wait for billing together; the
  later one writes the message as queued again over whatever it had become.
* `MCOutboxGate.cfg` (`GateIsKept`): in a web session the alarm gives a silent run up and awaits the
  push of its message; the wrapper reports after all, its gate result is stored and the job sent with
  it; the push answers and the alarm writes its older copy back, without result and without the mark
  that the job was sent. The retry sends a second job without the gate result.
* `MCOutboxGateCrash.cfg` (`GateIsKept` without pushes, with a crash): the object stops between the
  record of a message in a batch and the mark of that record; the repair records the message again,
  in a second batch, while the job of the first is being sent with an older copy. The result is
  stored, the older copy is written back, and the retry leaves without the result.
* `MCOutboxAwait.cfg` (`GateIsAwaited`): the release of the wait for a gate result, granted when the
  grace of a run expires during an interruption, stays with the open batch; a message of the next run
  is reported before that run has reported its result.
* `MCWrapperInterrupt.cfg` (`HeldIsWatched` with settlements that await): an interrupt awaits the
  effects of what it settles, a new message begins its delivery to the same run, the interrupt
  clears the run's identity, and the acceptance is recorded without any deadline.
* `MCBatchSealed.cfg` (`SealedIsCompleted`): an abort during the post-completion tasks of a sealed
  batch keeps its completion from being sent; the object learns its end from the abort.
* `MCQueueLimit.cfg` (3 messages, limit 2) and `MCBatchRetries.cfg` (1 run, 4 requests, 2 upsets;
  1,787,109 states) are larger instances of passing runs, and pass. The second checks every property of
  `batch`, `OwedIsEnded` included. Without their exceptions for what nobody heard `WorkIsDone` and
  `OwedIsEnded` fail there.

## 5. What is proved

`tlapm` checks every theorem for every value of the constants, under the assumptions named in the
modules (`BudgetIsBounded`: the ordinary modes hold at most one delay; `QueueAssumption`: types of
the constants).

* *Retry policy.* `RetriesAreBounded`, `RetriesAreDelayed`, `RetriesStayWithinBudget`,
  `CausesAreKept`. The bound is not inductive: the attempt counter restarts when a failure enters a
  reset-eligible mode. The invariant `History` relates the counter to the number of failures:
  outside these modes they are equal, inside them at most `Budget["other"]` failures came before.
* *Queue, types.* `SessionMessageQueueProofs!TypeCorrect`: every handler that resumes after an await
  still holds the message or row it works on, whatever ran meanwhile.
* *Queue, safety.* `AdmittedWorkIsDurable`, `RowsAreUnique`, `SentEventIsPersisted`,
  `SettledMessagesStay` and the refinement `QueueImplementsLifecycle`. The invariant `QueueInv` adds
  to the properties what each handler checked before an await and still relies on after it: a message
  an admission found new stays new until its row is written; the message under delivery exists; an
  interruption deletes captured rows of settled messages only; a run holds only messages that
  exist. Each step is shown to change the storage only in the ways of `StepHolds`: a state
  only advances, a row leaves only with a message that left the queue and reported it, and a
  message comes to exist only with its row. `StepHolds` then yields both the refinement and the
  preservation of every other handler's part (`...Untouched` lemmas).
* *Queue, order and limit.* `OldestLeavesFirst`, `QueueIsBounded`. The invariant `OrderInv` adds that
  rows have distinct admission times; that the copy a flush holds is the head of the queue, whatever
  is admitted, cancelled or written back around it, and its row leaves only when its message is
  settled; that what a run holds and is still queued is oldest (so a report that overtakes the
  acceptance keeps the order); and that an admission that found room has it reserved until its row
  is written. The limit can be exceeded by one row: a failed delivery writes back a row whose
  message was settled meanwhile. That row is at the head, and no delivery begins before it is gone.
* These theorems have one hypothesis, `OneAdmission`: with billing enabled, no two admissions
  wait for its answer together. It cannot be dropped: `MCQueueReplay.cfg` is the counterexample.
* *Queue, interruption.* `MarkersCoverTheirBatch`. A marked message has left the queue or still has a
  row, and each of the two handlers that may work on the marker (the call, the recovery by the
  alarm) still has in its own list what it has not found settled (`MarkerInv`). Neither needs the
  other: one may clear the marker while the other is in the middle. Since an interruption lists only
  the accepted messages of the current run, a marked message that was accepted by a replaced run is
  settled only as a captured row; the argument is therefore about the oldest marked row
  (`HeadIsHandled`), which an interruption settles within its first segment, so that no flush finds
  it accepted and removes it. The second hypothesis,
  `MaxInterrupts <= 1`, is the defect of `session-message-queue.ts:1206`: of two calls under way
  the one that ends first deletes the marker the other relies on.
* *Alarm.* `TypeCorrect`, `DeadlinesAreCovered`, `CountedRowsArePrompt`. The invariant `AlarmInv`
  adds that a flush under way has counted every row but those that came after it
  (`FlushIsCounted`): the handler decides the next alarm from that count, not from the rows.
* *Outbox, events and callbacks.* `TypeCorrect`, `EventsPrecedeCallbacks`, `CallbacksAreCovered`, with
  pushes that are awaited, any number of handlers, and crashes anywhere. `OutboxInv` says what an old
  copy of a message may be: every state stored or held over an await is `Genuine`, that is, its
  outcome and time are final, an event it reports is in the history, and its callback is pending
  unless a message that ended no earlier represents a batch (`Covered`). Writing such a copy back
  therefore undoes no duty. `RepresentativesEnded` and `ActivitiesHold` say the same of batches and of
  each step of a handler.
* *Outbox, gate results.* `ReportedResultsAreKept`: under two hypotheses no job leaves without a
  result that was recorded before. Here old copies do matter. `ResultInv` shows that a message is
  recorded in one batch only; that a copy inside a segment, where nobody else runs, is current; and
  that a copy held over an await is of a finalized batch, whose result no longer changes. The
  hypotheses are that no push is awaited (`~Push`) and that the object never stops between
  the record of a message in a batch and its mark (`CrashesInRecord`; it may stop anywhere else). Each
  is needed: `MCOutboxGate.cfg` and `MCOutboxGateCrash.cfg`. `ResultsAreKeptWithoutCrash` is the
  instance the run checks.
* *Wrapper runtime.* `TypeCorrect`, `OneWrapperIsLive`, with awaited effects, late answers and crashes.
  `Shape` joins the types (the lease is well formed in every state, `TypeInv`) to what each handler
  holds where it awaits (`SegmentsHold`), to the room left for another run (`RoomForRun`), and to the
  fact that only an instance that runs is connected (`LinkedIsUp`).
* *Wrapper runtime, watch.* `WhatIsHeldIsWatched`: work a live wrapper holds keeps a run with
  deadlines or a handler that settles it, crashes included. `WatchInv` needs more: a run with
  accepted messages has deadlines as long as it is current, and what the observed wrapper holds of
  its run, once accepted, is of the current run (`World`); a delivery under way
  stays bound to the instance it was prepared for, and the prompt of a run that was lost is held by
  nobody (`Delivery`); a wrapper that is kept warm works on nothing its run has accepted
  (`WarmIsUnused`), also when the lease that says so is the copy read before the observation; a
  handler that gives a run up settles everything that run had accepted
  (`Stops`). Its hypothesis is that what follows a settled message is not awaited
  (`~Awaited`): `MCWrapperInterrupt.cfg` shows what happens where it is.
* *Wrapper process.* `TypeCorrect`, `RunsCompleteOnce`, `SealedBatchesStay`. The invariant `BatchInv`
  adds that the deliveries counted in flight have requests (`AcksHaveRequests`), that the session is
  of the run last bound and a block names that run, no later one being completed
  (`BlockedKnowsItsRun`), and that a drain blocks admissions and has not completed its run before its
  tasks end (`DrainBlocks`): what binds over a block is therefore a run never completed.
* *Wrapper process, contents of a batch.* `OwedStaysAdmitted`, `SealedWorkIsDone`. `OrderInv` relates
  the requests to the idle candidate: a message in flight was not acknowledged before
  (`DeliveredAreDone`), an abort blocks (`AbortsBlock`), the requests in flight are exactly those
  whose acknowledgement is awaited, and there are none over a sealed batch (`RequestsAreAwaited`),
  what was sent is admitted (`SentIsAdmitted`), the object waits for nothing once the connection or
  the session is gone (`EndsAreTold`), and a candidate exists only when kilo is idle
  (`CandidateIsIdle`). The last holds with one exception, which the attempt at the
  proof found: a prompt taken while no subscription is live leaves a candidate of the turn before in
  place. `WorkIsDone` names it (`unheard`).

Only model-checked: the liveness properties `EventuallyExhausted`, `AckedIsSettled`,
`ResidueIsRemoved`, `CallbackIsSent`, `StopIsSettled`, `HoldIsReleased`, `AcceptedIsSettled`,
`PendingIsTried` and `OwedIsEnded`, and the two properties the failing runs refute. Liveness under
fairness and `ENABLED` are beyond the proof system; so are inductions over data and theorems about
recursive operators, of which these modules have none.

## 6. What the models leave out

Prompts, attachments, models and credentials are opaque; a message stands for its id and content,
and a replay with other content is refused. Validation errors and refusals that write nothing are
not actions. Time is abstract: a backoff or lease is over when its action fires. Storage writes are
durable once issued (the output gate holds back answers until they are). One cancellation call and
one ingest event are under way at a time, since they run to their end inside one segment. Two
alarms never overlap, which the runtime guarantees. The outbox model leaves out deleted sessions, the
fields kept for rolled-back workers, and the size of a payload: whether a job fits is a choice
(`AbandonJob`). A job may be sent twice, when the object stops between the send and its record; the code gives every job
an idempotency key for that. A callback queue that is not configured behaves as one that refuses.
A batch without a representative, which a crash inside its creation leaves, is not represented: the
message is still pending and is recorded again by the repair. 
The wrapper runtime leaves out the failover of shared sandboxes, the recovery of a runtime
authorization, development containers and the versions of the wrapper, whose refusals are failures
of the delivery; how a settled message ended, which nothing there tells apart; and the second
awaits of one settlement. The wrapper's batch leaves out a restart of the runtime inside the process
(`onBeforeSpawnTeardown` and a new lifecycle manager), its shutdown, the `compact` command's own
report, the progress messages of a preparation, and two requests in flight for one message. A
connection opens with its first snapshot in one step, and a reconnection already scheduled when
`open` rolls the connection back, which may still open a socket after it, is left out. The alarm leaves out
stored state that cannot be parsed (`CloudAgentSession.ts:3424`), deletion and its time to live, and a failing `setAlarm`; a
`wrapper_finalizing` of a run whose messages are all settled has deadlines only from the next alarm
on, at most `Idle` later. `PendingIsPrompt` of that module is what the comment at line 3379
announces and is not kept by the code: a message submitted while the alarm awaits a delivery is not
among the rows it counted and its request for an alarm is ignored, so that it waits for the next
one; what holds of every row is `PendingIsTried`.

The other services are listed in
`PROJECT.json` with the reason each is left out.
