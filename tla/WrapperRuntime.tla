----------------------------- MODULE WrapperRuntime -----------------------------
(***************************************************************************)
(* The wrapper process of one session and what the session's Durable       *)
(* Object knows of it: the physical lease, the wrapper run, the deadlines  *)
(* that watch accepted work, and the disconnect grace                      *)
(* (session/wrapper-runtime-state.ts, session/wrapper-supervisor.ts,       *)
(* session/agent-runtime.ts, persistence/CloudAgentSession.ts).            *)
(*                                                                         *)
(* The lease says which physical wrapper the session may use and is given  *)
(* up only when no wrapper is observed.  The run is one connection of a    *)
(* wrapper to the session; its generation, run id and connection id are    *)
(* allocated together and stand for one another here.  Three handlers      *)
(* touch them: the alarm (maintenance, then the delivery of one message),  *)
(* the user's interrupt, and the handler of the wrapper's terminal event.  *)
(*                                                                         *)
(* A handler runs alone from one external await to the next (the input     *)
(* gate): "gate" holds it.  The awaits are stopWrappers, the observation   *)
(* of wrappers, the delivery itself, and, when Awaited, the effects of a   *)
(* settled message.  Deadlines have no clock: one that is set may be due.  *)
(* How messages are queued and how callbacks are sent is the subject of    *)
(* SessionMessageQueue and SettlementOutbox.                               *)
(***************************************************************************)
EXTENDS Naturals, FiniteSets

CONSTANTS
  Message,        \* message ids
  MaxStops,       \* WRAPPER_STOP_MAX_ATTEMPTS
  Awaited,        \* settling awaits a push notification or the callback queue
  MaxInstances,   \* bound: physical wrappers allocated
  MaxRuns,        \* bound: wrapper runs allocated
  MaxFaults,      \* bound: interrupts by the user, and connections that break
  MaxCrashes      \* bound: crashes of the object

ASSUME WrapperAssumption ==
  /\ MaxStops \in Nat \ {0}
  /\ Awaited \in BOOLEAN
  /\ MaxInstances \in Nat /\ MaxRuns \in Nat
  /\ MaxFaults \in Nat /\ MaxCrashes \in Nat

VARIABLES
  (* storage *)
  lease,          \* wrapper_lease
  run,            \* wrapper_runtime_state, or NoRun
  grace,          \* the run in disconnect_grace, or 0
  msgs,           \* session message states
  served,         \* kiloServerLastActivity is set
  (* the sandbox *)
  wrapper,        \* the wrapper processes, by instance
  (* the object *)
  gate,           \* the handler inside a storage segment, or "open"
  work,           \* what every handler is doing
  (* bounds *)
  lastRun, faults, crashes

storage == <<lease, run, grace, msgs, served>>
bounds == <<lastRun, faults, crashes>>
vars == <<storage, wrapper, gate, work, bounds>>

None == "none"

Worker == { "alarm", "user", "wrapper" }

Instance == 1..MaxInstances

(* nextInstanceGeneration is gen.  A deadline is startupDeadlineAt or        *)
(* keepWarmUntil, or, once a warm wrapper is "reused", both; holder stands  *)
(* for attemptId: the handler whose attempt it is.                          *)
Lease ==
  [ state : { None, "owns_wrapper", "stop_needed", "stopping" },
    gen : 1..(MaxInstances + 1), inst : 0..MaxInstances,
    deadline : { None, "startup", "warm", "reused" }, attempts : 0..MaxStops,
    holder : Worker \cup { None }, exhausted : BOOLEAN ]

(* What each state of the lease carries. *)
WellFormed(l) ==
  /\ l.inst # 0 <=> l.state = "owns_wrapper"
  /\ l.deadline # None => l.state = "owns_wrapper"
  /\ l.holder # None <=> l.state = "stopping"
  /\ l.attempts > 0 => l.state \in { "stop_needed", "stopping" }
  /\ l.exhausted => l.state = "stop_needed" /\ l.attempts = MaxStops

EmptyLease(gen) ==
  [ state |-> None, gen |-> gen, inst |-> 0, deadline |-> None,
    attempts |-> 0, holder |-> None, exhausted |-> FALSE ]

(* live: neither the no-output nor a ping deadline is set ("off"), both the *)
(* no-output and the next ping are ("watched"), a pong is due ("pinged").   *)
(* idle: wrapperIdleDeadlineAt.                                             *)
Run ==
  [ id : 0..MaxRuns, finalizing : BOOLEAN,
    dispatching : Message \cup { None },
    live : { "off", "watched", "pinged" }, idle : BOOLEAN ]

NewRun(r) == [ id |-> r, finalizing |-> FALSE, dispatching |-> None,
               live |-> "off", idle |-> FALSE ]

NoRun == NewRun(0)

(* out: the event on its way to the object.  A wrapper that is sealed       *)
(* refuses prompts for its run (WRAPPER_FINALIZING).                        *)
Process ==
  [ phase : { None, "launching", "up", "gone" }, run : 0..MaxRuns,
    held : SUBSET Message, sealed : BOOLEAN,
    linked : { "no", "yes", "closing" },
    out : { None, "finalizing", "completed", "failed" } ]

NewProcess(phase) ==
  [ phase |-> phase, run |-> 0, held |-> {}, sealed |-> FALSE,
    linked |-> "no", out |-> None ]

IdleWork == [ pc |-> "idle", kind |-> None, run |-> 0, todo |-> {},
              msg |-> None, inst |-> 0, fresh |-> FALSE ]

-----------------------------------------------------------------------------
(* The physical lease: reduceWrapperLease. *)

Owns(l, i) == l.state = "owns_wrapper" /\ l.inst = i

(* keepWarmUntil is set. *)
KeptWarm(l) == l.deadline \in { "warm", "reused" }

(* startupDeadlineAt is set. *)
Starting(l) == l.deadline \in { "startup", "reused" }

Cleaning(l) == l.state \in { "stop_needed", "stopping" }

Allocate(l) ==
  IF l.state # None THEN l
  ELSE [ EmptyLease(l.gen + 1) EXCEPT !.state = "owns_wrapper",
                                      !.inst = l.gen, !.deadline = "startup" ]

(* startup_verified, delivery_accepted, retain_warm and reuse. *)
WithDeadline(l, i, deadline) ==
  IF Owns(l, i) THEN [l EXCEPT !.deadline = deadline] ELSE l

OwnedAbsent(l, i) == IF Owns(l, i) THEN EmptyLease(l.gen) ELSE l

RequestStop(l) ==
  IF l.state \in { None, "owns_wrapper" }
    THEN [ EmptyLease(l.gen) EXCEPT !.state = "stop_needed" ] ELSE l

(* Mutant: the attempts are not counted. *)
BeginStopUncounted(l, w) == [l EXCEPT !.state = "stopping", !.holder = w]

BeginStop(l, w) ==
  [l EXCEPT !.state = "stopping", !.holder = w, !.attempts = @ + 1]

(* Mutant: the attempt that is over stays the holder. *)
RetryStopHeld(l) == [l EXCEPT !.state = "stop_needed"]

(* stop_not_confirmed and stop_attempt_expired. *)
RetryStop(l) == [l EXCEPT !.state = "stop_needed", !.holder = None]

(* cleanup_exhausted: only with the whole budget spent. *)
Exhaust(l) ==
  IF Cleaning(l) /\ l.attempts >= MaxStops
    THEN [ RetryStop(l) EXCEPT !.exhausted = TRUE ] ELSE l

(* An attempt that ended without confirmed absence. *)
StopFailed(l) == IF l.attempts >= MaxStops THEN Exhaust(l) ELSE RetryStop(l)

-----------------------------------------------------------------------------
(* The wrapper run and the messages. *)

Current(r) == run.id # 0 /\ run.id = r

(* updateIfCurrent: the update is dropped when the run is another. *)
UpdateIfCurrent(r, new) == run' = IF Current(r) THEN new ELSE run

(* recordMeaningfulWrapperOutput: any event of the wrapper starts the watch; *)
(* a pong that is due stays due.                                            *)
Heard == [run EXCEPT !.live = IF @ = "off" THEN "watched" ELSE @]

(* clearWrapperRuntimeIdentity with the fence of run r. *)
ClearIdentity(r) == run' = IF Current(r) THEN NoRun ELSE run

(* listNonTerminalAcceptedMessages: of every run when r is 0. *)
Accepted(r) ==
  { m \in Message : msgs[m].status = "accepted" /\ (r # 0 => msgs[m].run = r) }

Queued == { m \in Message : msgs[m].status = "queued" }

OfRun(r) == { m \in Message : msgs[m].run = r }

(* Mutant: a batch that finalizes is no active work. *)
ActiveMessages == Accepted(run.id) # {}

ActiveWork == run.finalizing \/ Accepted(run.id) # {}

(* getNextWrapperLivenessDeadline: no deadline without active work. *)
Rearmed == IF ActiveWork THEN run ELSE [run EXCEPT !.live = "off"]

(* ensureAcceptedMessageBeforeTerminal: what the wrapper reports of a       *)
(* message that is still queued shows that its delivery was accepted.       *)
EnsureAccepted(S, r) ==
  [ m \in Message |->
      IF m \in S /\ msgs[m].status = "queued"
        THEN [ status |-> "accepted", run |-> r, observed |-> FALSE ]
        ELSE msgs[m] ]

(* terminalizeSessionMessageOnce: completed, failed or interrupted, which    *)
(* nothing here tells apart.                                                *)
SettleOnce(m) ==
  IF msgs[m].status \in { "queued", "accepted" }
    THEN msgs' = [msgs EXCEPT ![m].status = "settled"]
    ELSE UNCHANGED msgs

-----------------------------------------------------------------------------
(* Handlers. *)

(* What the list of processes shows: wrappers that run, and that start. *)
Observed == { i \in Instance : wrapper[i].phase \in { "launching", "up" } }

May(w, pc) == gate \in { "open", w } /\ work[w].pc = pc

(* The checks of the maintenance and of the alarm, in their order.  A check  *)
(* that finds nothing due is passed over.                                   *)
Before ==
  [ stage \in { "grace", "liveness", "warm", "server", "flush", "end" } |->
      CASE stage = "grace" -> { "grace" }
        [] stage = "liveness" -> { "grace", "liveness" }
        [] stage = "warm" -> { "grace", "liveness", "warm" }
        [] stage = "server" -> { "grace", "liveness", "warm", "server" }
        [] OTHER -> { "grace", "liveness", "warm", "server", "flush" } ]

Reaches(w, stage) == \E pc \in Before[stage] : May(w, pc)

(* The handler goes on to pc within its segment. *)
Go(w, pc) == gate' = w /\ work' = [work EXCEPT ![w].pc = pc]

(* The handler waits at pc for an answer from outside. *)
Await(w, pc) == gate' = "open" /\ work' = [work EXCEPT ![w].pc = pc]

(* The alarm ends with the choice of its next deadline. *)
Return(w) ==
  IF w = "alarm"
    THEN gate' = w /\ work' = [work EXCEPT ![w] = [IdleWork EXCEPT !.pc = "rearm"]]
    ELSE gate' = "open" /\ work' = [work EXCEPT ![w] = IdleWork]

(* Messages of run r are to be settled, for the reason kind. *)
GoSettle(w, kind, r, S) ==
  /\ gate' = w
  /\ work' = [work EXCEPT ![w] = [@ EXCEPT !.pc = "settle", !.kind = kind,
                                           !.run = r, !.todo = S]]

(* An interrupt insists on having interrupted the message itself. *)
IsForestalled(w, m) ==
  work[w].kind \in { "pending", "user" } /\ msgs[m].status = "settled"

(* One message is settled; what follows it may be awaited.  If another has  *)
(* settled the message meanwhile, an interrupt ends with an error.          *)
Settle(w) ==
  /\ May(w, "settle")
  /\ \E m \in work[w].todo :
       IF IsForestalled(w, m) THEN Return(w) /\ UNCHANGED msgs
       ELSE /\ SettleOnce(m)
            /\ work' = [work EXCEPT ![w].todo = @ \ {m}]
            /\ gate' = IF Awaited THEN "open" ELSE w
  /\ UNCHANGED <<lease, run, grace, served, wrapper, bounds>>

AfterSettle ==
  [ kind \in { "pending", "user", "grace", "unhealthy", "failed",
               "protocol", "missing", "completed" } |->
      CASE kind = "pending" -> "interrupt"
        [] kind = "completed" -> "retain"
        [] kind = "missing" -> "stop-missing"
        [] OTHER -> "clear" ]

SettleEnds(w) ==
  /\ May(w, "settle") /\ work[w].todo = {}
  /\ Go(w, AfterSettle[work[w].kind])
  /\ UNCHANGED <<storage, wrapper, bounds>>

(* A maintenance begins: it compares every deadline with the time of now, so *)
(* that none is due of a run that is allocated later.                       *)
BeginMaintenance(w) ==
  /\ gate' = w
  /\ work' = [work EXCEPT ![w] = [@ EXCEPT !.pc = "cleanup", !.run = lastRun]]

MayBeDue(w) == run.id <= work[w].run

AfterClear ==
  [ kind \in { "grace", "unhealthy" } |-> IF kind = "grace" THEN "liveness" ELSE "warm" ]

(* The run whose messages were settled loses its identity, if it still has  *)
(* it; the terminal handler ends with clearDisconnectGrace.                 *)
Clear(w) ==
  /\ May(w, "clear")
  /\ ClearIdentity(work[w].run)
  /\ CASE w = "wrapper" -> Return(w) /\ grace' = 0
       [] work[w].kind = "user" -> BeginMaintenance(w) /\ UNCHANGED grace
       [] OTHER -> Go(w, AfterClear[work[w].kind]) /\ UNCHANGED grace
  /\ UNCHANGED <<lease, msgs, served, wrapper, bounds>>

-----------------------------------------------------------------------------
(* Maintenance: reconcilePhysicalCleanup. *)

Maintainer == { "alarm", "user" }

Probing == \E w \in Maintainer : work[w].pc \in { "probe", "forced" }

(* Nothing of the lease is due. *)
NothingToClean(w) ==
  /\ May(w, "cleanup")
  /\ Go(w, "grace")
  /\ UNCHANGED <<storage, wrapper, bounds>>

(* An exhausted cleanup is only observed again, never stopped. *)
RecheckExhausted(w) ==
  /\ May(w, "cleanup") /\ ~Probing
  /\ lease.exhausted
  /\ Await(w, "probe")
  /\ UNCHANGED <<storage, wrapper, bounds>>

(* One recheck at a time: the other handler's answers both. *)
JoinRecheck(w) ==
  /\ May(w, "cleanup") /\ Probing
  /\ lease.exhausted
  /\ Await(w, "join")
  /\ UNCHANGED <<storage, wrapper, bounds>>

JoinReturns(w) ==
  /\ May(w, "join") /\ ~Probing
  /\ Go(w, "grace")
  /\ UNCHANGED <<storage, wrapper, bounds>>

(* startupDeadlineAt is due: accepted work shows that the wrapper started.  *)
StartupExpires(w) ==
  /\ May(w, "cleanup")
  /\ Starting(lease)
  /\ IF ActiveWork
       THEN /\ lease' = WithDeadline(lease, lease.inst, None)
            /\ Go(w, "grace")
       ELSE /\ lease' = RequestStop(lease)
            /\ Go(w, "cleanup")
  /\ UNCHANGED <<run, grace, msgs, served, wrapper, bounds>>

(* attemptDeadlineAt is due: whoever made the attempt may still wait for it. *)
StopExpires(w) ==
  /\ May(w, "cleanup")
  /\ lease.state = "stopping"
  /\ lease' = StopFailed(lease)
  /\ Go(w, "grace")
  /\ UNCHANGED <<run, grace, msgs, served, wrapper, bounds>>

(* A stop, unless the budget was spent without having been recorded so. *)
StopBegins(w) ==
  /\ May(w, "cleanup")
  /\ lease.state = "stop_needed" /\ ~lease.exhausted
  /\ IF lease.attempts < MaxStops
       THEN lease' = BeginStop(lease, w) /\ Await(w, "stop")
       ELSE lease' = Exhaust(lease) /\ Go(w, "grace")
  /\ UNCHANGED <<run, grace, msgs, served, wrapper, bounds>>

(* latest.attemptId = attemptId. *)
OwnAttempt(w) == lease.state = "stopping" /\ lease.holder = w

(* Mutant: a stop that was not confirmed counts as one. *)
ConfirmedAnyway == TRUE

(* stopWrappers reports absence only when it observes no wrapper of the      *)
(* session, whatever its target.                                            *)
ObservedAbsent == Observed = {}

StopReturns(w) ==
  /\ May(w, "stop")
  /\ \/ ObservedAbsent /\ lease' = IF OwnAttempt(w) THEN EmptyLease(lease.gen) ELSE lease
     \/ lease' = IF OwnAttempt(w) THEN StopFailed(lease) ELSE lease
  /\ Go(w, "grace")
  /\ UNCHANGED <<run, grace, msgs, served, wrapper, bounds>>

ProbeReturns(w) ==
  /\ May(w, "probe")
  /\ \/ ObservedAbsent /\ lease' = IF lease.exhausted THEN EmptyLease(lease.gen) ELSE lease
     \/ UNCHANGED lease
  /\ Go(w, "grace")
  /\ UNCHANGED <<run, grace, msgs, served, wrapper, bounds>>

-----------------------------------------------------------------------------
(* Maintenance: the disconnect grace, the liveness of accepted work, and    *)
(* the wrapper that is kept warm.                                           *)

Linked(r) == \E i \in Observed : wrapper[i].run = r /\ wrapper[i].linked = "yes"

(* The wrapper is back, or its run is over, or nothing depends on it. *)
GraceIsMoot(w) ==
  /\ Reaches(w, "grace") /\ grace # 0
  /\ ~Current(grace) \/ Linked(grace) \/ ~ActiveWork
  /\ grace' = 0
  /\ Go(w, "liveness")
  /\ UNCHANGED <<lease, run, msgs, served, wrapper, bounds>>

(* Mutant: the accepted messages are left to another check. *)
GraceDropsRun(w) ==
  /\ Reaches(w, "grace") /\ Current(grace) /\ ~Linked(grace) /\ ActiveWork
  /\ lease' = RequestStop(lease)
  /\ grace' = 0
  /\ run' = NoRun
  /\ Go(w, "liveness")
  /\ UNCHANGED <<msgs, served, wrapper, bounds>>

GraceExpires(w) ==
  /\ Reaches(w, "grace") /\ MayBeDue(w) /\ Current(grace) /\ ~Linked(grace) /\ ActiveWork
  /\ lease' = RequestStop(lease)
  /\ grace' = 0
  /\ GoSettle(w, "grace", run.id, Accepted(run.id))
  /\ UNCHANGED <<run, msgs, served, wrapper, bounds>>

Watched == run.id # 0 /\ run.live # "off" /\ ~Current(grace)

(* clearCurrentWrapperRuntimeLivenessState. *)
StopsWatching(w) ==
  /\ Reaches(w, "liveness") /\ Watched /\ ~ActiveWork
  /\ run' = [run EXCEPT !.live = "off"]
  /\ Go(w, "warm")
  /\ UNCHANGED <<lease, grace, msgs, served, wrapper, bounds>>

(* markWrapperPingSent. *)
SendsPing(w) ==
  /\ Reaches(w, "liveness") /\ MayBeDue(w)
  /\ Watched /\ ActiveWork /\ run.live = "watched"
  /\ run' = [run EXCEPT !.live = "pinged"]
  /\ Go(w, "warm")
  /\ UNCHANGED <<lease, grace, msgs, served, wrapper, bounds>>

(* handleUnhealthyWrapper: no output, or no pong, in time. *)
TurnsUnhealthy(w) ==
  /\ Reaches(w, "liveness") /\ MayBeDue(w) /\ Watched /\ ActiveWork
  /\ lease' = RequestStop(lease)
  /\ GoSettle(w, "unhealthy", run.id, Accepted(run.id))
  /\ UNCHANGED <<run, grace, msgs, served, wrapper, bounds>>

(* The keep-warm deadline of an owned wrapper, else the idle deadline of the *)
(* run.                                                                     *)
WarmIsOver ==
  /\ ~run.finalizing
  /\ IF lease.state = "owns_wrapper" THEN lease.deadline = "warm" ELSE run.idle
  /\ Queued = {} /\ Accepted(run.id) = {}

(* checkKeepWarmCleanup. *)
WarmEnds(w) ==
  /\ Reaches(w, "warm") /\ WarmIsOver
  /\ run' = NoRun
  /\ lease' = RequestStop(lease)
  /\ Go(w, "server")
  /\ UNCHANGED <<grace, msgs, served, wrapper, bounds>>

(* Nothing more is due. *)
Ends(w) ==
  /\ Reaches(w, "end")
  /\ Return(w)
  /\ UNCHANGED <<storage, wrapper, bounds>>

Maintain(w) ==
  \/ NothingToClean(w) \/ RecheckExhausted(w) \/ JoinRecheck(w)
  \/ JoinReturns(w)
  \/ StartupExpires(w) \/ StopExpires(w) \/ StopBegins(w)
  \/ StopReturns(w) \/ ProbeReturns(w)
  \/ GraceIsMoot(w) \/ GraceExpires(w)
  \/ StopsWatching(w) \/ SendsPing(w) \/ TurnsUnhealthy(w)
  \/ WarmEnds(w) \/ Ends(w)

-----------------------------------------------------------------------------
(* The alarm: maintenance, the idle server, and the delivery of a message. *)

AlarmFires ==
  /\ May("alarm", "idle")
  /\ BeginMaintenance("alarm")
  /\ UNCHANGED <<storage, wrapper, bounds>>

AlarmIsSet ==
  /\ May("alarm", "rearm")
  /\ run' = Rearmed
  /\ gate' = "open" /\ work' = [work EXCEPT !["alarm"] = IdleWork]
  /\ UNCHANGED <<lease, grace, msgs, served, wrapper, bounds>>

(* hasWrapperRuntimeOrPendingWork. *)
RuntimeOrPendingWork ==
  \/ Queued # {} \/ lease.state # None
  \/ run.id # 0 /\ Accepted(run.id) # {}

(* cleanupIdleKiloServer, when the server is idle for long enough. *)
ServerIdles ==
  /\ Reaches("alarm", "server") /\ served /\ ~RuntimeOrPendingWork
  /\ lease' = RequestStop(lease)
  /\ served' = FALSE
  /\ Go("alarm", "flush")
  /\ UNCHANGED <<run, grace, msgs, wrapper, bounds>>

(* flushNextPendingSessionMessage: an exhausted cleanup is observed once     *)
(* more for the user who waits.                                             *)
Flush(m) ==
  /\ Reaches("alarm", "flush") /\ ~run.finalizing /\ m \in Queued
  /\ gate' = IF lease.exhausted THEN "open" ELSE "alarm"
  /\ work' = [work EXCEPT !["alarm"] = [@ EXCEPT !.msg = m,
       !.pc = CASE ~lease.exhausted -> "send"
                [] Probing -> "forced-join"
                [] OTHER -> "forced"]]
  /\ UNCHANGED <<storage, wrapper, bounds>>

(* The delivery failed: the row stays for another attempt or, its budget     *)
(* spent, the message is failed.                                            *)
DeliveryFails(m) == UNCHANGED msgs \/ SettleOnce(m)

ForcedRecheck ==
  /\ \/ May("alarm", "forced") /\ ObservedAbsent
        /\ lease' = IF lease.exhausted THEN EmptyLease(lease.gen) ELSE lease
     \/ May("alarm", "forced") /\ UNCHANGED lease
     \/ May("alarm", "forced-join") /\ ~Probing /\ UNCHANGED lease
  /\ IF Cleaning(lease')
       THEN Return("alarm") /\ DeliveryFails(work["alarm"].msg)
       ELSE Go("alarm", "send") /\ UNCHANGED msgs
  /\ UNCHANGED <<run, grace, served, wrapper, bounds>>

(* AgentRuntime.send: held while the run finalizes; blocked while a cleanup *)
(* is in progress, which counts as a failure if the cleanup is exhausted or *)
(* the last attempt did not reach the sandbox.  The lease that is about to  *)
(* be authorized is remembered.                                             *)
SendHeld ==
  /\ May("alarm", "send") /\ (run.finalizing \/ Cleaning(lease))
  /\ IF run.finalizing THEN UNCHANGED msgs ELSE DeliveryFails(work["alarm"].msg)
  /\ Return("alarm")
  /\ UNCHANGED <<lease, run, grace, served, wrapper, bounds>>

Observe ==
  /\ May("alarm", "send") /\ ~run.finalizing /\ ~Cleaning(lease)
  /\ gate' = "open"
  /\ work' = [work EXCEPT !["alarm"] = [@ EXCEPT !.pc = "observe",
       !.kind = lease.state, !.inst = lease.inst, !.run = lease.gen,
       !.fresh = KeptWarm(lease)]]
  /\ UNCHANGED <<storage, wrapper, bounds>>

(* hasSamePhysicalAuthorization: the lease is the one that was observed. *)
SameAuthorization ==
  /\ lease.state = work["alarm"].kind
  /\ lease.inst = work["alarm"].inst /\ lease.gen = work["alarm"].run

Reauthorize ==
  /\ May("alarm", "observe") /\ ~SameAuthorization
  /\ Go("alarm", "send")
  /\ UNCHANGED <<storage, wrapper, bounds>>

(* The one wrapper that is observed is the leased one.  One that was kept    *)
(* warm when the lease was read gets a fresh run, and the lease as it was   *)
(* then a startup deadline besides.                                         *)
Reuse ==
  /\ May("alarm", "observe") /\ SameAuthorization
  /\ lease.state = "owns_wrapper" /\ Observed = { lease.inst }
  /\ work["alarm"].fresh \/ run.id = 0 => lastRun < MaxRuns
  /\ lease' = IF work["alarm"].fresh THEN WithDeadline(lease, lease.inst, "reused")
              ELSE lease
  /\ Go("alarm", "identity")
  /\ UNCHANGED <<run, grace, msgs, served, wrapper, bounds>>

(* No wrapper is observed: a new instance is allocated. *)
AllocateInstance ==
  /\ May("alarm", "observe") /\ SameAuthorization
  /\ ObservedAbsent /\ lease.gen <= MaxInstances /\ lastRun < MaxRuns
  /\ lease' = Allocate(OwnedAbsent(lease, lease.inst))
  /\ gate' = "alarm"
  /\ work' = [work EXCEPT !["alarm"] = [@ EXCEPT !.pc = "identity",
                                           !.inst = lease.gen, !.fresh = TRUE]]
  /\ UNCHANGED <<run, grace, msgs, served, wrapper, bounds>>

(* Another wrapper is observed, or the observation fails. *)
ObservesUnexpected ==
  /\ May("alarm", "observe") /\ SameAuthorization
  /\ lease' = RequestStop(lease)
  /\ DeliveryFails(work["alarm"].msg)
  /\ Return("alarm")
  /\ UNCHANGED <<run, grace, served, wrapper, bounds>>

(* A fresh instance, or one that was warm, drops the run that was current;  *)
(* allocateWrapperRuntimeState keeps the run that is.                       *)
Identify ==
  /\ May("alarm", "identity")
  /\ LET fresh == work["alarm"].fresh \/ run.id = 0 IN
       /\ run' = IF fresh THEN NewRun(lastRun + 1) ELSE run
       /\ lastRun' = IF fresh THEN lastRun + 1 ELSE lastRun
       /\ grace' = IF fresh THEN 0 ELSE grace
       /\ work' = [work EXCEPT !["alarm"] = [@ EXCEPT !.pc = "execute",
                                              !.fresh = fresh, !.run = run'.id]]
  /\ gate' = "open"
  /\ UNCHANGED <<lease, msgs, served, wrapper, faults, crashes>>

(* ensureWrapper: a wrapper of the session that is not the leased instance  *)
(* is refused; without one the leased instance is started.                  *)
Launch ==
  /\ May("alarm", "execute") /\ ObservedAbsent
  /\ wrapper' = [wrapper EXCEPT ![work["alarm"].inst] =
       [@ EXCEPT !.phase = "launching", !.held = {}, !.sealed = FALSE]]
  /\ Await("alarm", "launched")
  /\ UNCHANGED <<storage, bounds>>

Executing == May("alarm", "execute") \/ May("alarm", "launched")

(* bindSessionContext: the run of the wrapper, or a fresh one after the     *)
(* batch of the last one was reported.                                      *)
Binds(i, r) ==
  IF wrapper[i].sealed THEN wrapper[i].run # r /\ wrapper[i].held = {} ELSE TRUE

(* onWorkspaceReady: the lease gets its ready deadline, and what is about   *)
(* to be dispatched is recorded in the run.                                 *)
WorkspaceReady ==
  /\ Executing
  /\ LET i == work["alarm"].inst  r == work["alarm"].run IN
       /\ wrapper[i].phase = "up" /\ Binds(i, r)
       /\ UpdateIfCurrent(r, [run EXCEPT !.idle = TRUE,
                                         !.dispatching = work["alarm"].msg])
       /\ lease' = WithDeadline(lease, i, "startup")
       /\ wrapper' = [wrapper EXCEPT ![i] = [@ EXCEPT !.run = r, !.sealed = FALSE]]
  /\ Await("alarm", "prompt")
  /\ UNCHANGED <<grace, msgs, served, bounds>>

(* The wrapper takes the prompt.  It opens its connection first, which the   *)
(* object accepts for the current run only.                                 *)
Prompt ==
  /\ May("alarm", "prompt")
  /\ LET i == work["alarm"].inst  r == work["alarm"].run IN
       /\ wrapper[i].phase = "up" /\ wrapper[i].run = r /\ ~wrapper[i].sealed
       /\ wrapper[i].linked = "yes" \/ Current(r)
       /\ wrapper' = [wrapper EXCEPT ![i] =
            [@ EXCEPT !.held = wrapper[i].held \cup { work["alarm"].msg },
                      !.linked = "yes"]]
       /\ grace' = IF wrapper[i].linked # "yes" /\ grace = r THEN 0 ELSE grace
  /\ served' = TRUE
  /\ Await("alarm", "accepted")
  /\ UNCHANGED <<lease, run, msgs, bounds>>

(* The wrapper refuses: it finalizes its batch. *)
Refused ==
  /\ Executing \/ May("alarm", "prompt")
  /\ LET i == work["alarm"].inst  r == work["alarm"].run IN
       /\ wrapper[i].phase = "up" /\ wrapper[i].sealed
       /\ IF wrapper[i].run = r
            THEN UpdateIfCurrent(r, [run EXCEPT !.dispatching = None,
                                                !.finalizing = TRUE])
            ELSE UpdateIfCurrent(r, [run EXCEPT !.dispatching = None])
  /\ Return("alarm")
  /\ UNCHANGED <<lease, grace, msgs, served, wrapper, bounds>>

(* The delivery failed, at any point: a run that was allocated for it goes, *)
(* and with it its instance.                                                *)
ExecuteFails ==
  /\ Executing \/ May("alarm", "prompt") \/ May("alarm", "accepted")
  /\ LET r == work["alarm"].run IN
       IF work["alarm"].fresh
         THEN lease' = RequestStop(lease) /\ ClearIdentity(r)
         ELSE /\ UpdateIfCurrent(r, [run EXCEPT !.dispatching = None])
              /\ UNCHANGED lease
  /\ DeliveryFails(work["alarm"].msg)
  /\ Return("alarm")
  /\ UNCHANGED <<grace, served, wrapper, bounds>>

(* recordWrapperAcceptedMessage: the deadlines come before the acceptance.  *)
WatchAccepted ==
  /\ May("alarm", "accepted")
  /\ UpdateIfCurrent(work["alarm"].run,
                     [Heard EXCEPT !.idle = FALSE])
  /\ Go("alarm", "accept")
  /\ UNCHANGED <<lease, grace, msgs, served, wrapper, bounds>>

(* recordRuntimeAcceptedMessage. *)
Accept ==
  /\ May("alarm", "accept")
  /\ LET m == work["alarm"].msg  r == work["alarm"].run IN
       msgs' = IF msgs[m].status = "queued"
                 THEN [msgs EXCEPT ![m] = [ status |-> "accepted", run |-> r,
                                            observed |-> TRUE ]]
                 ELSE msgs
  /\ Go("alarm", "delivered")
  /\ UNCHANGED <<lease, run, grace, served, wrapper, bounds>>

(* delivery_accepted: the lease has no deadline while the work is watched.  *)
Delivered ==
  /\ May("alarm", "delivered")
  /\ UpdateIfCurrent(work["alarm"].run, [run EXCEPT !.dispatching = None])
  /\ lease' = WithDeadline(lease, work["alarm"].inst, None)
  /\ Return("alarm")
  /\ UNCHANGED <<grace, msgs, served, wrapper, bounds>>

Deliver ==
  \/ ForcedRecheck \/ SendHeld \/ Observe \/ Reauthorize \/ Reuse
  \/ AllocateInstance \/ ObservesUnexpected \/ Identify \/ Launch
  \/ WorkspaceReady \/ Prompt \/ Refused \/ ExecuteFails
  \/ WatchAccepted \/ Accept \/ Delivered

Alarm ==
  \/ AlarmFires \/ AlarmIsSet \/ ServerIdles
  \/ (\E m \in Message : Flush(m)) \/ Deliver

-----------------------------------------------------------------------------
(* The user: messages are admitted, and interrupted. *)

Submit(m) ==
  /\ gate = "open" /\ msgs[m].status = None
  /\ msgs' = [msgs EXCEPT ![m].status = "queued"]
  /\ UNCHANGED <<lease, run, grace, served, wrapper, gate, work, bounds>>

(* interruptPendingQueuedMessages. *)
Interrupt ==
  /\ May("user", "idle") /\ faults < MaxFaults
  /\ faults' = faults + 1
  /\ GoSettle("user", "pending", 0, Queued)
  /\ UNCHANGED <<storage, wrapper, lastRun, crashes>>

(* interruptAcceptedWrapperMessages: with neither accepted work nor a run   *)
(* there is nothing to stop.                                                *)
InterruptAccepted ==
  /\ May("user", "interrupt")
  /\ IF run.id = 0 /\ Accepted(0) = {}
       THEN Return("user") /\ UNCHANGED lease
       ELSE /\ lease' = RequestStop(lease)
            /\ GoSettle("user", "user", run.id, Accepted(run.id))
  /\ UNCHANGED <<run, grace, msgs, served, wrapper, bounds>>

User == (\E m \in Message : Submit(m)) \/ Interrupt \/ InterruptAccepted

-----------------------------------------------------------------------------
(* The wrapper's events. *)

(* What a wrapper sent before its connection closed still arrives. *)
Sent(i) == wrapper[i].linked # "no"

(* wrapper_finalizing: no prompt is delivered until the batch is settled.   *)
ArriveFinalizing(i) ==
  /\ gate = "open" /\ Sent(i) /\ wrapper[i].out = "finalizing"
  /\ UpdateIfCurrent(wrapper[i].run, [Heard EXCEPT !.finalizing = TRUE])
  /\ wrapper' = [wrapper EXCEPT ![i].out = "completed"]
  /\ UNCHANGED <<lease, grace, msgs, served, gate, work, bounds>>

(* After its report the wrapper closes its connection and its session. *)
Reported(i) ==
  wrapper' = [wrapper EXCEPT ![i] =
    [@ EXCEPT !.out = None, !.held = {}, !.sealed = TRUE,
              !.linked = IF wrapper[i].linked = "yes" THEN "closing"
                         ELSE wrapper[i].linked]]

(* The event of a run that is not current is ignored. *)
ArriveStale(i) ==
  /\ May("wrapper", "idle") /\ Sent(i) /\ wrapper[i].out \in { "completed", "failed" }
  /\ ~Current(wrapper[i].run)
  /\ Reported(i)
  /\ UNCHANGED <<storage, gate, work, bounds>>

(* A run that failed or was interrupted: the wrapper is stopped. *)
ArriveFailed(i) ==
  /\ May("wrapper", "idle") /\ Sent(i) /\ wrapper[i].out = "failed" /\ Current(wrapper[i].run)
  /\ lease' = RequestStop(lease)
  /\ gate' = "wrapper"
  /\ work' = [work EXCEPT !["wrapper"] = [@ EXCEPT !.pc = "repair",
       !.kind = "failed", !.run = run.id, !.msg = run.dispatching]]
  /\ run' = Heard
  /\ Reported(i)
  /\ UNCHANGED <<grace, msgs, served, bounds>>

(* completed, with the messages of the sealed batch. *)
ArriveCompleted(i) ==
  /\ May("wrapper", "idle") /\ Sent(i) /\ wrapper[i].out = "completed" /\ Current(wrapper[i].run)
  /\ gate' = "wrapper"
  /\ work' = [work EXCEPT !["wrapper"] = [@ EXCEPT !.pc = "repair",
       !.kind = "completed", !.run = run.id, !.msg = run.dispatching,
       !.todo = wrapper[i].held]]
  /\ run' = Heard
  /\ Reported(i)
  /\ UNCHANGED <<lease, grace, msgs, served, bounds>>

(* Mutant: a prompt whose answer is on its way is forgotten. *)
RepairSealed ==
  /\ May("wrapper", "repair")
  /\ msgs' = EnsureAccepted(work["wrapper"].todo, work["wrapper"].run)
  /\ Go("wrapper", "batch")
  /\ UNCHANGED <<lease, run, grace, served, wrapper, bounds>>

(* The sealed messages, and the one whose answer is on its way, were        *)
(* accepted.                                                                *)
Repair ==
  /\ May("wrapper", "repair")
  /\ msgs' = EnsureAccepted(work["wrapper"].todo \cup { work["wrapper"].msg },
                            work["wrapper"].run)
  /\ Go("wrapper", "batch")
  /\ UNCHANGED <<lease, run, grace, served, wrapper, bounds>>

FailBatch ==
  /\ May("wrapper", "batch") /\ work["wrapper"].kind = "failed"
  /\ GoSettle("wrapper", "failed", work["wrapper"].run, Accepted(work["wrapper"].run))
  /\ UNCHANGED <<storage, wrapper, bounds>>

(* settleSealedBatch: every message of the run is sealed and every sealed   *)
(* message is one of the run, else the batch fails as a whole.              *)
BatchIsSealed == work["wrapper"].todo = OfRun(work["wrapper"].run)

BreakBatch ==
  /\ May("wrapper", "batch") /\ work["wrapper"].kind = "completed" /\ ~BatchIsSealed
  /\ lease' = RequestStop(lease)
  /\ GoSettle("wrapper", "protocol", work["wrapper"].run, Accepted(work["wrapper"].run))
  /\ UNCHANGED <<run, grace, msgs, served, wrapper, bounds>>

(* With an assistant reply for every message the wrapper is kept warm, with *)
(* one missing it is stopped.                                               *)
SealBatch ==
  /\ May("wrapper", "batch") /\ work["wrapper"].kind = "completed" /\ BatchIsSealed
  /\ \E kind \in { "completed", "missing" } :
       GoSettle("wrapper", kind, work["wrapper"].run, Accepted(work["wrapper"].run))
  /\ UNCHANGED <<storage, wrapper, bounds>>

StopMissing ==
  /\ May("wrapper", "stop-missing")
  /\ lease' = RequestStop(lease)
  /\ Go("wrapper", "clear")
  /\ UNCHANGED <<run, grace, msgs, served, wrapper, bounds>>

(* retainPhysicalWrapperWarm: whatever lease is owned and whatever run is   *)
(* current by then.                                                         *)
Retain ==
  /\ May("wrapper", "retain")
  /\ lease' = WithDeadline(lease, lease.inst, "warm")
  /\ run' = IF lease.state = "owns_wrapper" THEN NoRun ELSE run
  /\ grace' = 0
  /\ Return("wrapper")
  /\ UNCHANGED <<msgs, served, wrapper, bounds>>

Terminal ==
  \/ \E i \in Instance :
       ArriveFinalizing(i) \/ ArriveStale(i) \/ ArriveFailed(i) \/ ArriveCompleted(i)
  \/ Repair \/ FailBatch \/ BreakBatch \/ SealBatch \/ StopMissing \/ Retain

Settling == \E w \in Worker : Settle(w) \/ SettleEnds(w) \/ Clear(w)

-----------------------------------------------------------------------------
(* The sandbox. *)

Started(i) ==
  /\ wrapper[i].phase = "launching"
  /\ \E phase \in { "up", "gone" } : wrapper' = [wrapper EXCEPT ![i].phase = phase]
  /\ UNCHANGED <<storage, gate, work, bounds>>

(* The batch is idle for long enough: the wrapper takes no further prompt.  *)
Seal(i) ==
  /\ wrapper[i].phase = "up" /\ wrapper[i].linked = "yes"
  /\ ~wrapper[i].sealed /\ wrapper[i].held # {}
  /\ wrapper' = [wrapper EXCEPT ![i] = [@ EXCEPT !.sealed = TRUE,
                                                 !.out = "finalizing"]]
  /\ UNCHANGED <<storage, gate, work, bounds>>

(* A fatal error of the run. *)
Fails(i) ==
  /\ wrapper[i].phase = "up" /\ wrapper[i].linked = "yes"
  /\ ~wrapper[i].sealed /\ wrapper[i].held # {}
  /\ wrapper' = [wrapper EXCEPT ![i] = [@ EXCEPT !.sealed = TRUE, !.out = "failed"]]
  /\ UNCHANGED <<storage, gate, work, bounds>>

(* Stopped, out of memory, or gone with its container.  An event that was   *)
(* not sent is lost.                                                        *)
Dies(i) ==
  /\ wrapper[i].phase = "up"
  /\ \E out \in { wrapper[i].out, None } :
       wrapper' = [wrapper EXCEPT ![i] =
         IF @.linked = "no" THEN NewProcess("gone")
         ELSE [@ EXCEPT !.phase = "gone", !.out = out, !.linked = "closing",
                        !.held = IF out = None THEN {} ELSE wrapper[i].held]]
  /\ UNCHANGED <<storage, gate, work, bounds>>

Drops(i) ==
  /\ wrapper[i].phase = "up" /\ wrapper[i].linked = "yes"
  /\ faults < MaxFaults
  /\ faults' = faults + 1
  /\ wrapper' = [wrapper EXCEPT ![i].linked = "closing"]
  /\ UNCHANGED <<storage, gate, work, lastRun, crashes>>

(* onDisconnected: grace for the current run while something depends on it, *)
(* be it the outbox, which may wait for the gate result of the run.         *)
Disconnected(i) ==
  /\ gate = "open" /\ wrapper[i].linked = "closing"
  /\ wrapper' = [wrapper EXCEPT ![i] =
       IF @.phase = "gone" THEN NewProcess("gone") ELSE [@ EXCEPT !.linked = "no"]]
  /\ IF ~Current(wrapper[i].run) THEN UNCHANGED grace
     ELSE grace' \in (IF ActiveWork THEN { run.id } ELSE { grace, run.id })
  /\ run' = Rearmed
  /\ UNCHANGED <<lease, msgs, served, gate, work, bounds>>

(* recordReconnectAccepted and observePong: a pong that is due is forgiven. *)
Answered == IF run.live = "pinged" THEN [run EXCEPT !.live = "watched"] ELSE run

Reconnect(i) ==
  /\ gate = "open" /\ wrapper[i].phase = "up" /\ wrapper[i].linked = "no"
  /\ Current(wrapper[i].run) /\ wrapper[i].held # {}
  /\ wrapper' = [wrapper EXCEPT ![i].linked = "yes"]
  /\ run' = Answered
  /\ grace' = IF grace = run.id THEN 0 ELSE grace
  /\ UNCHANGED <<lease, msgs, served, gate, work, bounds>>

(* The wrapper gives up its connection: it aborts its batch, or closes after *)
(* a report that was still in the buffer.                                   *)
Loses(i) ==
  /\ wrapper[i].phase = "up" /\ wrapper[i].linked = "no" /\ wrapper[i].held # {}
  /\ wrapper' = [wrapper EXCEPT ![i] = [@ EXCEPT !.out = None, !.held = {},
                                                 !.sealed = TRUE]]
  /\ UNCHANGED <<storage, gate, work, bounds>>

Pong(i) ==
  /\ gate = "open" /\ wrapper[i].phase = "up" /\ wrapper[i].linked = "yes"
  /\ Current(wrapper[i].run) /\ run.live = "pinged"
  /\ run' = Answered
  /\ UNCHANGED <<lease, grace, msgs, served, wrapper, gate, work, bounds>>

(* Output of the wrapper's turns. *)
Output(i) ==
  /\ gate = "open" /\ wrapper[i].phase = "up" /\ wrapper[i].linked = "yes"
  /\ Current(wrapper[i].run) /\ run.live = "off"
  /\ run' = Heard
  /\ UNCHANGED <<lease, grace, msgs, served, wrapper, gate, work, bounds>>

(* The object restarts: its handlers are gone, and so may be its connections *)
(* and what was on its way in them.                                         *)
Crash ==
  /\ crashes < MaxCrashes
  /\ crashes' = crashes + 1
  /\ work' = [w \in Worker |-> IdleWork]
  /\ gate' = "open"
  /\ \/ UNCHANGED wrapper
     \/ wrapper' = [i \in Instance |->
          IF wrapper[i].phase = "gone" THEN NewProcess("gone")
          ELSE [wrapper[i] EXCEPT !.linked = "no",
                 !.out = IF @ = "finalizing" THEN "completed" ELSE @]]
  /\ UNCHANGED <<storage, lastRun, faults>>

Sandbox ==
  \E i \in Instance :
    \/ Started(i) \/ Seal(i) \/ Fails(i) \/ Dies(i) \/ Drops(i)
    \/ Disconnected(i) \/ Reconnect(i)
    \/ Loses(i) \/ Pong(i) \/ Output(i)

-----------------------------------------------------------------------------
(* The specification. *)

Init ==
  /\ lease = EmptyLease(1)
  /\ run = NoRun
  /\ grace = 0
  /\ msgs = [m \in Message |-> [ status |-> None, run |-> 0, observed |-> FALSE ]]
  /\ served = FALSE
  /\ wrapper = [i \in Instance |-> NewProcess(None)]
  /\ gate = "open"
  /\ work = [w \in Worker |-> IdleWork]
  /\ lastRun = 0 /\ faults = 0 /\ crashes = 0

Next ==
  \/ (\E w \in Maintainer : Maintain(w))
  \/ Alarm \/ User \/ Terminal \/ Settling \/ Sandbox \/ Crash

Spec == Init /\ [][Next]_vars

(* What a handler does once it has begun. *)
Step(w) ==
  \/ w \in Maintainer /\ Maintain(w)
  \/ Settle(w) \/ SettleEnds(w) \/ Clear(w)
  \/ w = "alarm" /\ (Deliver \/ AlarmIsSet)
  \/ w = "user" /\ InterruptAccepted
  \/ w = "wrapper" /\ (Repair \/ FailBatch \/ BreakBatch \/ SealBatch
                          \/ StopMissing \/ Retain)

(* No pong and no output can come. *)
TurnsSilent(w) == ~Linked(run.id) /\ TurnsUnhealthy(w)

Reports(i) == ArriveFinalizing(i) \/ ArriveStale(i) \/ ArriveFailed(i) \/ ArriveCompleted(i)

(* What is under way outside the alarm; bounded inputs bound it as well. *)
UnderWay ==
  \/ Step("user") \/ Step("wrapper")
  \/ \E i \in Instance :
       Started(i) \/ Seal(i) \/ Reports(i) \/ Disconnected(i) \/ Reconnect(i) \/ Loses(i)

(* The alarm is always set, and every deadline it checks comes; calls to    *)
(* the sandbox return or time out; a batch goes idle, and what a wrapper    *)
(* sent arrives or is lost.                                                 *)
Fairness ==
  /\ WF_vars(AlarmFires) /\ WF_vars(Step("alarm"))
  /\ SF_vars(UnderWay)
  /\ SF_vars(StopBegins("alarm") \/ StopExpires("alarm"))
  /\ SF_vars(GraceExpires("alarm") \/ TurnsSilent("alarm"))

FairSpec == Spec /\ Fairness

-----------------------------------------------------------------------------
(* Properties. *)

(* The type invariant of the lease, the run, the messages, the wrappers and *)
(* the handlers (session/wrapper-runtime-state.ts).                         *)
TypeOK ==
  /\ lease \in Lease /\ WellFormed(lease)
  /\ run \in Run
  /\ grace \in 0..MaxRuns
  /\ msgs \in [Message -> [ status : { None, "queued", "accepted", "settled" },
                            run : 0..MaxRuns, observed : BOOLEAN ]]
  /\ served \in BOOLEAN
  /\ wrapper \in [Instance -> Process]
  /\ gate \in Worker \cup { "open" }
  /\ lastRun \in 0..MaxRuns
  /\ faults \in 0..MaxFaults /\ crashes \in 0..MaxCrashes
  /\ \A w \in Worker :
       /\ work[w].todo \subseteq Message
       /\ work[w].run \in 0..(MaxRuns + MaxInstances + 1)
       /\ work[w].inst \in 0..MaxInstances

Supervised(m) ==
  \/ Current(msgs[m].run) /\ run.live # "off"
  \/ \E w \in Worker : m \in work[w].todo

WasAccepted(m) == msgs[m].status = "accepted" /\ msgs[m].observed

(* A message whose acceptance was observed is watched until it is settled:  *)
(* its run is current and has deadlines, or a handler is settling it.  The  *)
(* code warns of the opposite as of a watchdog that goes dark on a message  *)
(* it should still supervise (wrapper-supervisor.ts:1114).                  *)
AcceptedIsWatched == \A m \in Message : WasAccepted(m) => Supervised(m)

(* A message that a live wrapper works on is watched: no handler takes the  *)
(* identity from a run whose wrapper is there and has accepted work         *)
(* (wrapper-runtime-state.ts:636, wrapper-supervisor.ts:1114).              *)
HeldIsWatched ==
  \A m \in Message : \A i \in Observed :
    WasAccepted(m) /\ m \in wrapper[i].held /\ wrapper[i].run = msgs[m].run =>
      Supervised(m)

(* The session has one live wrapper, so that a message that is delivered     *)
(* again goes to the wrapper that has it, or to a new one after the old one *)
(* is gone (agent-runtime.ts:173, wrapper-supervisor.ts:1735).              *)
OneLiveWrapper == \A i, j \in Observed : i = j

(* A cleanup ends: the wrapper is observed absent, or the attempts are spent *)
(* and the cleanup is quarantined (wrapper-supervisor.ts:1735).             *)
StopIsSettled == Cleaning(lease) ~> (~Cleaning(lease) \/ lease.exhausted)

(* Unless the object restarts, the hold on deliveries ends, whatever becomes *)
(* of the wrapper that said it finalizes its batch (agent-runtime.ts:337,   *)
(* wrapper-supervisor.ts:837).                                              *)
HoldIsReleased ==
  (run.finalizing /\ crashes = 0) ~> (~run.finalizing \/ crashes # 0)

(* Work that was accepted is settled. *)
AcceptedIsSettled ==
  \A m \in Message : WasAccepted(m) ~> msgs[m].status = "settled"

=============================================================================
