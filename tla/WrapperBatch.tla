------------------------------ MODULE WrapperBatch ------------------------------
(***************************************************************************)
(* The wrapper process inside the sandbox: how it admits the deliveries of *)
(* the session object, when it takes its batch of messages for finished,   *)
(* and how it reports the batch and ends (wrapper/src/state.ts,            *)
(* lifecycle.ts, server.ts, and the callbacks of main.ts).                 *)
(*                                                                         *)
(* The process is one event loop; an action is what one handler, timer or  *)
(* callback does from one await to the next.  The kilo server it drives    *)
(* is an environment that takes prompts, works and becomes idle.           *)
(***************************************************************************)
EXTENDS Integers, FiniteSets

CONSTANTS
  Message,      \* the messages to deliver, one request for each at a time
  Kind,         \* the kinds of delivery: "prompt" and "command"
  MaxRuns,      \* bound: wrapper runs the object allocates
  MaxRequests,  \* bound: deliveries begun
  MaxUpsets     \* bound: aborts, lost connections and refreshed bindings

ASSUME BatchAssumption ==
  /\ IsFiniteSet(Message)
  /\ Kind \subseteq { "prompt", "command" }
  /\ MaxRuns \in Nat \ {0} /\ MaxRequests \in Nat /\ MaxUpsets \in Nat

VARIABLES
  session,    \* the wrapper run of the bound session, 0 for none
  admitted,   \* admittedMessages
  acks,       \* deliveryAcknowledgementsInFlight
  finalizing, \* _isFinalizing
  blocked,    \* _admissionsBlocked and _blockedWrapperRunId
  root,       \* rootIdleCandidatePresent, idleObservedDuringDelivery, stableIdleTimer
  aborted,    \* isAborted
  drain,      \* drainPromise and what drainAndClose has captured
  abort,      \* the run an abort request awaits the end of, 0 for none
  link,       \* the ingest socket: "open", "lost" while it reconnects, or "closed"
  feed,       \* the subscription to the events of kilo: "none", "live", or "attaching"
              \* while its handshake is awaited ("renewing" if it had been live)
  opener,     \* the request that awaits this handshake, or Nobody
  buffered,   \* the `complete` waits for the connection
  req,        \* what each request has reached
  running,    \* the messages the kilo server works on
  unheard,    \* of these, those it took while nobody heard its events
  missed,     \* the last idle of kilo was not heard, or was forgotten
  run,        \* the run the object last bound
  requests,   \* how many requests were begun
  upsets,     \* how many upsets there were
  reports,    \* how many times a run's completion was sent
  acked,      \* the messages whose delivery was answered as sent
  owed,       \* of these, those whose end the object has not learned
  orderly     \* no request was overtaken by an abort, a new run or its own repetition

state == <<session, admitted, acks, finalizing, blocked>>
lifecycle == <<root, aborted, drain, abort>>
connection == <<link, feed, opener, buffered>>
object == <<run, requests, upsets, acked>>
kilo == <<running, unheard, missed>>
vars == <<state, lifecycle, connection, req, kilo, object, reports, owed, orderly>>

Run == 1..MaxRuns

Away == [at |-> "away"]

InFlight == { m \in Message : req[m] # Away }

NoIdle == [candidate |-> FALSE, during |-> FALSE, timer |-> FALSE]

NoDrain == [at |-> "none"]

Open == [is |-> FALSE, run |-> 0]

Nobody == "nobody"

Heard == feed = "live"

(* eventSubscriptionActive: an earlier subscription counts until it is known *)
(* that the new one has failed.                                              *)
Active == feed \in { "live", "renewing" }

(* connectionManager.isConnected; state.isConnected looks at the socket only. *)
Connected == link = "open" /\ Active

-----------------------------------------------------------------------------
(* The idle candidate (lifecycle.ts). *)

(* armStableIdleCandidate, over a batch. *)
Armed(idle, batch) ==
  [idle EXCEPT !.timer = @ \/ (idle.candidate /\ batch # {})]

(* onSessionIdle *)
SessionIdle(idle) ==
  Armed([idle EXCEPT !.candidate = TRUE, !.during = @ \/ acks > 0], admitted)

(* Mutant: a turn that ends before its delivery is answered goes unnoticed. *)
DeliveryAcknowledgedLate(kind, left, batch) ==
  IF kind = "prompt" THEN NoIdle
  ELSE Armed([root EXCEPT !.during = @ /\ left > 0,
                          !.candidate = @ \/ kind = "command"], batch)

(* onDeliveryAcknowledged, with the acknowledgements left in flight: the    *)
(* candidate of an earlier turn is no candidate for this prompt, unless the *)
(* session became idle while the prompt was delivered.                      *)
DeliveryAcknowledged(kind, left, batch) ==
  IF kind = "prompt"
    THEN IF ~root.during THEN NoIdle
         ELSE IF left > 0 THEN root
         ELSE Armed([root EXCEPT !.during = FALSE, !.timer = FALSE], batch)
    ELSE Armed([root EXCEPT !.during = @ /\ left > 0,
                            !.candidate = @ \/ kind = "command"], batch)

-----------------------------------------------------------------------------
(* The drain. *)

(* blockAdmissions *)
BlockAdmissions == blocked' = [is |-> TRUE, run |-> session]

(* drainAndClose: what is sealed and whether it is to be reported is        *)
(* captured now; a drain under way goes on instead.                         *)
DrainAndClose(batch, isAborted) ==
  drain' = IF drain # NoDrain THEN drain
           ELSE [at |-> "tasks", sealed |-> batch, run |-> session,
                 completes |-> session # 0 /\ ~isAborted]

(* close *)
Closes ==
  link' = "closed" /\ feed' = "none" /\ opener' = Nobody /\ buffered' = FALSE

(* The completion reaches the object if there is a connection. *)
Reported(batch) ==
  IF link = "open" THEN owed' = owed \ batch /\ buffered' = buffered
  ELSE owed' = owed /\ buffered' = (link = "lost")

(* Mutant: a batch may be sealed while a delivery is in flight. *)
BatchIsIdleEarly ==
  root.candidate /\ Connected /\ admitted # {} /\ ~finalizing

(* trySealIdleBatch and beginFinalizing *)
BatchIsIdle ==
  root.candidate /\ acks = 0 /\ Connected /\ admitted # {} /\ ~finalizing

(* The timer of the stable idle candidate. *)
IdleIsStable ==
  /\ root.timer
  /\ IF BatchIsIdle
       THEN /\ finalizing' = TRUE
            /\ BlockAdmissions
            /\ DrainAndClose(admitted, aborted)
            /\ root' = NoIdle
       ELSE /\ root' = [root EXCEPT !.timer = @ /\ root.candidate /\ acks = 0
                                                /\ ~Connected /\ admitted # {}]
            /\ UNCHANGED <<finalizing, blocked, drain>>
  /\ UNCHANGED <<session, admitted, acks, aborted, abort, connection, req, kilo,
                 object, reports, owed, orderly>>

(* runPostCompletionTasks and the first half of finalizeDrain: a condense   *)
(* may be heard as one more turn.                                           *)
TasksEnd ==
  /\ drain # NoDrain /\ drain.at = "tasks"
  /\ drain' = [drain EXCEPT !.at = "delay"]
  /\ \/ root' = root
     \/ drain.completes /\ ~aborted /\ Heard /\ root' = SessionIdle(root)
  /\ IF drain.completes /\ session # 0 /\ ~aborted
       THEN /\ reports' = [reports EXCEPT ![session] = @ + 1]
            /\ Reported(drain.sealed)
       ELSE UNCHANGED <<reports, owed, buffered>>
  /\ UNCHANGED <<state, aborted, abort, link, feed, opener, req, kilo, object, orderly>>

(* The second half of finalizeDrain, and clearSession. *)
DrainEnds ==
  /\ drain # NoDrain /\ drain.at = "delay"
  /\ drain' = NoDrain
  /\ Closes
  /\ owed' = IF link = "closed" THEN owed ELSE {}
  /\ session' = 0 /\ admitted' = {} /\ acks' = 0 /\ finalizing' = FALSE
  /\ UNCHANGED <<blocked, root, aborted, abort, req, kilo, object, reports, orderly>>

-----------------------------------------------------------------------------
(* The ends that are not idle. *)

Upset ==
  upsets < MaxUpsets /\ upsets' = upsets + 1 /\ UNCHANGED <<run, requests, acked>>

(* A request that is in flight is not told, and goes on. *)
Overtaken == orderly' = (orderly /\ InFlight = {})

(* setAborted, clearAllMessages and the drain; the object is told first. *)
Aborts ==
  /\ aborted' = TRUE
  /\ BlockAdmissions
  /\ DrainAndClose({}, TRUE)
  /\ root' = NoIdle
  /\ admitted' = {} /\ acks' = 0 /\ finalizing' = FALSE
  /\ owed' = IF link = "open" THEN {} ELSE owed
  /\ UNCHANGED <<session, link, buffered, req, kilo, reports>>

(* The stream is read no further; who awaits its handshake is not told. *)
FeedEnds == feed' = "none" /\ opener' = Nobody

(* onTerminalError, and the command `kill`. *)
FailsOrKilled ==
  /\ session # 0 /\ Upset
  /\ \/ Heard /\ FeedEnds
     \/ link = "open" /\ UNCHANGED <<feed, opener>>
  /\ Aborts
  /\ Overtaken
  /\ UNCHANGED abort

(* The request to abort, up to and after the abort of the kilo session. *)
AbortBegins ==
  /\ session # 0 /\ abort = 0 /\ Upset
  /\ aborted' = TRUE
  /\ BlockAdmissions
  /\ root' = NoIdle
  /\ abort' = session
  /\ Overtaken
  /\ UNCHANGED <<session, admitted, acks, finalizing, drain, connection, req, kilo,
                 reports, owed>>

AbortEnds ==
  /\ abort # 0
  /\ BlockAdmissions
  /\ DrainAndClose({}, aborted)
  /\ root' = IF drain = NoDrain THEN NoIdle ELSE root
  /\ admitted' = {} /\ acks' = 0 /\ finalizing' = FALSE
  /\ owed' = IF link = "open" THEN {} ELSE owed
  /\ abort' = 0
  /\ orderly' = (orderly /\ session = abort /\ InFlight = {})
  /\ UNCHANGED <<session, aborted, connection, req, kilo, object, reports>>

(* onDisconnect: the event stream ended or its handshake failed, or the     *)
(* reconnecting was given up.                                               *)
Disconnected ==
  /\ Upset
  /\ \/ feed # "none" /\ FeedEnds
     \/ link = "lost" /\ UNCHANGED <<feed, opener>>
  /\ aborted' = TRUE
  /\ BlockAdmissions
  /\ DrainAndClose(admitted, TRUE)
  /\ root' = NoIdle
  /\ Overtaken
  /\ UNCHANGED <<session, admitted, acks, finalizing, abort, link, buffered, req, kilo,
                 reports, owed>>

ConnectionLost ==
  /\ link = "open" /\ Upset
  /\ link' = "lost"
  /\ UNCHANGED <<state, lifecycle, feed, opener, buffered, req, kilo, reports, owed,
                 orderly>>

(* openIngestWs: what was buffered is sent. *)
SocketOpens ==
  /\ link' = "open" /\ buffered' = FALSE
  /\ owed' = IF buffered /\ drain # NoDrain THEN owed \ drain.sealed ELSE owed

(* completeReconnect *)
Reconnected ==
  /\ link = "lost"
  /\ SocketOpens
  /\ root' = Armed(root, admitted)
  /\ UNCHANGED <<state, aborted, drain, abort, feed, opener, req, kilo, object, reports,
                 orderly>>

(* reconnectEventSubscription: nothing was heard of kilo for too long.      *)
Resubscribes ==
  /\ Heard /\ session # 0 /\ drain = NoDrain /\ Upset
  /\ feed' = "renewing"
  /\ UNCHANGED <<state, lifecycle, link, opener, buffered, req, kilo, reports, owed,
                 orderly>>

Resubscribed ==
  /\ feed = "renewing" /\ opener = Nobody
  /\ feed' = "live"
  /\ UNCHANGED <<state, lifecycle, link, opener, buffered, req, kilo, object, reports,
                 owed, orderly>>

(* The object waits for a wrapper that has no connection only so long. *)
GraceEnds ==
  /\ link = "closed" /\ owed # {}
  /\ owed' = {}
  /\ UNCHANGED <<state, lifecycle, connection, req, kilo, object, reports, orderly>>

-----------------------------------------------------------------------------
(* A delivery: createPromptHandler and createCommandHandler. *)

(* Mutant: any run that finds no session is fresh. *)
IsFreshRunAnyway(r) == session = 0

(* Mutant: any other run is fresh. *)
IsFreshRunEarly(r) == blocked.run # 0 /\ r # blocked.run

(* isFreshRunAfterFinalization *)
IsFreshRun(r) == session = 0 /\ blocked.run # 0 /\ r # blocked.run

(* The close of a connection that is there, and resetLifecycle. *)
LifecycleResets ==
  /\ aborted' = FALSE /\ root' = NoIdle /\ drain' = NoDrain
  /\ missed' = (missed \/ root.candidate)
  /\ IF link = "open" THEN Closes ELSE UNCHANGED connection

(* bindSessionContext, for session/ready or for a delivery: a new session   *)
(* lifts the block, another binding for the session at hand takes its       *)
(* place.  The binding of the same run is another if it brings another      *)
(* ticket; an object that binds another run has given the messages of the   *)
(* last up.  A binding that is refused changes nothing.                     *)
Bind(r, refreshed) ==
  /\ blocked.is => IsFreshRun(r)
  /\ IF session # r THEN UNCHANGED upsets
     ELSE refreshed /\ upsets < MaxUpsets /\ upsets' = upsets + 1
  /\ session' = r /\ run' = r
  /\ blocked' = IF session = 0 THEN Open ELSE blocked
  /\ LifecycleResets
  /\ owed' = IF r = run THEN owed ELSE {}
  /\ orderly' = (orderly /\ (session # r => InFlight = {}))
  /\ UNCHANGED <<admitted, acks, finalizing, abort, req, running, unheard, requests,
                 acked, reports>>

(* A delivery that has bound its session, and awaited it, is admitted.  One *)
(* that was not answered as sent is made again later; the wrapper refuses   *)
(* it while it finalizes, which changes nothing.                            *)
Request(m, kind) ==
  /\ req[m] = Away /\ m \notin acked /\ requests < MaxRequests
  /\ session # 0 /\ ~blocked.is /\ ~finalizing
  /\ requests' = requests + 1
  /\ acks' = acks + 1
  /\ req' = [req EXCEPT ![m] = [at |-> "preparing", kind |-> kind, added |-> FALSE]]
  /\ orderly' = (orderly /\ \A i \in InFlight :
                               i # m /\ kind = "prompt" /\ req[i].kind = "prompt")
  /\ UNCHANGED <<session, admitted, finalizing, blocked, lifecycle, connection, kilo,
                 run, upsets, acked, reports, owed>>

(* acceptMessage: only the request that added the message removes it. *)
Accepted(m, at) ==
  /\ admitted' = admitted \cup { m }
  /\ req' = [req EXCEPT ![m] = [@ EXCEPT !.at = at, !.added = m \notin admitted]]

(* Attachments and commit attribution are in place; a command is accepted   *)
(* before the connection is opened, a prompt after.  A socket that is open  *)
(* passes for a connection, though its subscription may not be live yet.    *)
Prepared(m) ==
  /\ req[m] # Away /\ req[m].at = "preparing"
  /\ IF link = "open" THEN Accepted(m, "sending")
     ELSE IF req[m].kind = "command" THEN Accepted(m, "opening")
     ELSE req' = [req EXCEPT ![m].at = "opening"] /\ UNCHANGED admitted
  /\ UNCHANGED <<session, acks, finalizing, blocked, lifecycle, connection, kilo, object,
                 reports, owed, orderly>>

(* open, up to the handshake of the subscription, which takes the place of  *)
(* any other.                                                               *)
Attaches(m) ==
  /\ req[m] # Away /\ req[m].at = "opening"
  /\ SocketOpens
  /\ feed' = (IF Active THEN "renewing" ELSE "attaching") /\ opener' = m
  /\ req' = [req EXCEPT ![m].at = "attaching"]
  /\ UNCHANGED <<state, lifecycle, kilo, object, reports, orderly>>

(* The handshake is done, or another has taken its place: who awaited the   *)
(* earlier one goes on as if it had succeeded.                              *)
Opened(m) ==
  /\ req[m] # Away /\ req[m].at = "attaching" /\ feed # "none"
  /\ IF opener = m THEN feed' = "live" /\ opener' = Nobody ELSE UNCHANGED <<feed, opener>>
  /\ IF req[m].kind = "prompt" THEN Accepted(m, "sending")
     ELSE req' = [req EXCEPT ![m].at = "sending"] /\ UNCHANGED admitted
  /\ UNCHANGED <<session, acks, finalizing, blocked, lifecycle, link, buffered, kilo,
                 object, reports, owed, orderly>>

(* Mutant: the count of deliveries in flight has no floor. *)
EndDeliveryAnyway == acks - 1

(* endDeliveryAcknowledgement *)
EndDelivery == IF acks > 0 THEN acks - 1 ELSE 0

Acknowledged(m, kind, batch) ==
  /\ acks' = EndDelivery
  /\ root' = DeliveryAcknowledged(kind, EndDelivery, batch)
  /\ req' = [req EXCEPT ![m] = Away]

(* The preparation, the connection or the send failed. *)
Fails(m) ==
  LET left == IF req[m].added THEN admitted \ { m } ELSE admitted IN
  /\ admitted' = left
  /\ Acknowledged(m, "failed", left)

PrepareFails(m) ==
  /\ req[m] # Away /\ req[m].at = "preparing"
  /\ Fails(m)
  /\ UNCHANGED <<session, finalizing, blocked, aborted, drain, abort, connection, kilo,
                 object, reports, owed, orderly>>

(* Without the socket nothing has changed; if the handshake fails, or was   *)
(* aborted, the connection is rolled back, whoever else uses it.            *)
OpenFails(m) ==
  /\ req[m] # Away
  /\ \/ req[m].at = "opening" /\ UNCHANGED connection
     \/ /\ req[m].at = "attaching" /\ (opener = m \/ feed = "none")
        /\ link' = "closed" /\ feed' = "none" /\ opener' = Nobody
        /\ UNCHANGED buffered
  /\ Fails(m)
  /\ UNCHANGED <<session, finalizing, blocked, aborted, drain, abort, kilo, object, reports,
                 owed, orderly>>

SendFails(m) ==
  /\ req[m] # Away /\ req[m].at \in { "sending", "taken" }
  /\ Fails(m)
  /\ UNCHANGED <<session, finalizing, blocked, aborted, drain, abort, connection, kilo,
                 object, reports, owed, orderly>>

(* The answer of the kilo server; that of a command comes when it is done.  *)
(* What the wrapper answers then may be lost, and the request made again.   *)
Answered(m) ==
  /\ req[m] # Away /\ req[m].at = "taken"
  /\ req[m].kind = "command" => m \notin running
  /\ Acknowledged(m, req[m].kind, admitted)
  /\ \/ UNCHANGED <<acked, owed>>
     \/ /\ acked' = acked \cup { m }
        /\ owed' = owed \cup { m }
  /\ UNCHANGED <<session, admitted, finalizing, blocked, aborted, drain, abort, connection,
                 kilo, run, requests, upsets, reports, orderly>>

-----------------------------------------------------------------------------
(* The kilo server. *)

(* Mutant: the candidate outlives the activity of a new turn. *)
RootActivityIgnored == root

(* onRootSessionActivity *)
RootActivity == IF Heard THEN NoIdle ELSE root

Takes(m) ==
  /\ req[m] # Away /\ req[m].at = "sending"
  /\ running' = running \cup { m }
  /\ unheard' = IF Heard THEN unheard \ { m } ELSE unheard \cup { m }
  /\ req' = [req EXCEPT ![m].at = "taken"]
  /\ root' = RootActivity
  /\ UNCHANGED <<missed, state, aborted, drain, abort, connection, object, reports, owed,
                 orderly>>

(* The session becomes idle when all it has taken is done. *)
TurnEnds ==
  /\ running # {}
  /\ running' = {} /\ unheard' = {} /\ missed' = ~Heard
  /\ root' = IF Heard THEN SessionIdle(root) ELSE root
  /\ UNCHANGED <<state, aborted, drain, abort, connection, req, object, reports, owed,
                 orderly>>

-----------------------------------------------------------------------------
Init ==
  /\ session = 0 /\ admitted = {} /\ acks = 0 /\ finalizing = FALSE /\ blocked = Open
  /\ root = NoIdle /\ aborted = FALSE /\ drain = NoDrain /\ abort = 0
  /\ link = "closed" /\ feed = "none" /\ opener = Nobody /\ buffered = FALSE
  /\ req = [m \in Message |-> Away] /\ running = {} /\ unheard = {} /\ missed = FALSE
  /\ run = 1 /\ requests = 0 /\ upsets = 0 /\ acked = {}
  /\ reports = [r \in Run |-> 0] /\ owed = {} /\ orderly = TRUE

Progress(m) ==
  \/ Prepared(m) \/ PrepareFails(m) \/ Attaches(m) \/ Opened(m) \/ OpenFails(m)
  \/ Takes(m) \/ SendFails(m) \/ Answered(m)

Next ==
  \/ IdleIsStable \/ TasksEnd \/ DrainEnds
  \/ FailsOrKilled \/ AbortBegins \/ AbortEnds \/ Disconnected
  \/ ConnectionLost \/ Reconnected \/ Resubscribes \/ Resubscribed \/ GraceEnds
  \/ \E r \in { run, run + 1 } \cap Run, refreshed \in BOOLEAN : Bind(r, refreshed)
  \/ \E m \in Message :
       \/ \E kind \in Kind : Request(m, kind)
       \/ Progress(m)
  \/ TurnEnds

Spec == Init /\ [][Next]_vars

(* The requests the wrapper has under way, and the turn of the kilo server. *)
UnderWay == TurnEnds \/ AbortEnds \/ \E m \in Message : Progress(m)

(* A connection that keeps coming back is at some time there when the timer *)
(* of the stable candidate runs out.                                        *)
FairSpec ==
  /\ Spec
  /\ WF_vars(UnderWay) /\ WF_vars(TasksEnd \/ DrainEnds)
  /\ WF_vars(Reconnected \/ (link = "lost" /\ Disconnected))
  /\ WF_vars(Resubscribed \/ Disconnected) /\ WF_vars(GraceEnds)
  /\ SF_vars(IdleIsStable)

-----------------------------------------------------------------------------
(* The counters and the captured values of the process keep their types. *)
TypeOK ==
  /\ session \in 0..MaxRuns /\ admitted \subseteq Message
  /\ acks \in 0..Cardinality(Message) /\ finalizing \in BOOLEAN
  /\ blocked \in [is : BOOLEAN, run : 0..MaxRuns]
  /\ root \in [candidate : BOOLEAN, during : BOOLEAN, timer : BOOLEAN]
  /\ aborted \in BOOLEAN /\ abort \in 0..MaxRuns
  /\ drain \in {NoDrain} \cup [at : {"tasks", "delay"}, sealed : SUBSET Message,
                               run : 0..MaxRuns, completes : BOOLEAN]
  /\ link \in {"open", "lost", "closed"} /\ feed \in {"none", "attaching", "renewing", "live"}
  /\ opener \in Message \cup {Nobody} /\ buffered \in BOOLEAN
  /\ req \in [Message -> {Away} \cup
               [at : {"preparing", "opening", "attaching", "sending", "taken"},
                kind : Kind, added : BOOLEAN]]
  /\ running \subseteq Message /\ unheard \subseteq running /\ missed \in BOOLEAN
  /\ acked \subseteq Message /\ owed \subseteq acked /\ orderly \in BOOLEAN
  /\ run \in Run /\ requests \in 0..MaxRequests /\ upsets \in 0..MaxUpsets
  /\ reports \in [Run -> Nat]

(* A wrapper run is completed at most once: whatever aborts, repeats and    *)
(* late idle events come together, no second completion is sent for a run   *)
(* the object has closed (isFreshRunAfterFinalization, drainPromise).       *)
OneCompletePerRun == \A r \in Run : reports[r] <= 1

(* Nothing the object was told is sent falls out of the batch: as long as   *)
(* it waits for a message's end, the batch still holds the message, and     *)
(* when the batch is sealed the completion will name it (trySealIdleBatch   *)
(* against the awaits of createPromptHandler and createCommandHandler).     *)
(* An abort ends the connection and with it the wait.                       *)
OwedIsAdmitted ==
  orderly /\ ~aborted => owed \subseteq (IF drain = NoDrain THEN admitted ELSE drain.sealed)

(* A batch that is to be completed is done: kilo works on none of its       *)
(* messages when it is sealed, though an idle candidate may stem from a     *)
(* turn before the last delivery (onDeliveryAcknowledged).  The exception   *)
(* is a message that kilo took while no subscription was live, since        *)
(* another delivery still awaited the handshake or had just rolled the      *)
(* connection back: the candidate survives what nobody hears.               *)
WorkIsDone ==
  orderly /\ drain # NoDrain /\ drain.at = "tasks" /\ drain.completes /\ ~aborted
    => drain.sealed \cap running \subseteq unheard

(* A drain runs to its end with the session it began with: no binding and   *)
(* no second drain takes its place or changes what it sealed (drainAndClose, *)
(* bindSessionContext).                                                     *)
SealedBatchStays ==
  [][drain # NoDrain =>
       /\ session' \in { 0, session }
       /\ drain' \in { NoDrain, drain, [drain EXCEPT !.at = "delay"] }]_vars

(* The object learns the end of every message it was told is sent: from a   *)
(* completion, an error, or the end of the connection (the stable idle      *)
(* candidate, whatever events and answers cross), unless the last idle of   *)
(* kilo was lost.  It is when the turn ended while no subscription was      *)
(* live, or a refreshed binding reset the candidate; then the batch waits   *)
(* for another turn, or for the object's own watch.                         *)
OwedIsEnded ==
  owed # {} /\ orderly /\ ~missed ~> owed = {} \/ ~orderly \/ missed

(* Not kept.  "a sealed idle batch must still complete" (lifecycle.ts:203), *)
(* although the session aborts while the post-completion tasks run:         *)
(* finalizeDrain looks at isAborted again.                                  *)
SealedIsCompleted ==
  drain # NoDrain /\ drain.at = "delay" /\ drain.completes => reports[drain.run] = 1
================================================================================
