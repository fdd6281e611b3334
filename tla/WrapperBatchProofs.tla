--------------------------- MODULE WrapperBatchProofs ---------------------------
(***************************************************************************)
(* The batch of the wrapper process, for every number of messages, runs    *)
(* and requests: its counters keep their types, no binding overtakes a     *)
(* drain, no run is completed twice, nothing falls out of a batch and no   *)
(* batch is sealed before its work is done.                                *)
(***************************************************************************)
EXTENDS WrapperBatch, FiniteSetTheorems, TLAPS

(* Every acknowledgement that is awaited has its request; an abort may have *)
(* dropped the acknowledgement of a request that goes on.                   *)
AcksHaveRequests == acks <= Cardinality(InFlight)

(* The run of the session is the one last bound, and a wrapper that blocks  *)
(* admissions knows it: what is fresh to it was never completed.            *)
BlockedKnowsItsRun ==
  /\ session \in { 0, run }
  /\ session # 0 /\ blocked.is => blocked.run = session
  /\ session = 0 /\ blocked.is => blocked.run \in { 0, run }
  /\ session = 0 /\ ~blocked.is => reports[run] = 0
  /\ \A r \in Run : r > run => reports[r] = 0

(* A drain blocks admissions from beginning to end, and a session that has  *)
(* not passed its tasks is not completed.                                   *)
DrainBlocks ==
  /\ drain # NoDrain => blocked.is /\ (session = 0 => blocked.run = 0)
  /\ session # 0 /\ (drain # NoDrain => drain.at = "tasks") => reports[session] = 0

BatchInv ==
  TypeOK /\ AcksHaveRequests /\ BlockedKnowsItsRun /\ DrainBlocks /\ OneCompletePerRun

-----------------------------------------------------------------------------
(* Types. *)

LEMMA ArmedType ==
  ASSUME NEW idle \in [candidate : BOOLEAN, during : BOOLEAN, timer : BOOLEAN], NEW batch
  PROVE  Armed(idle, batch) \in [candidate : BOOLEAN, during : BOOLEAN, timer : BOOLEAN]
  BY DEF Armed

LEMMA SessionIdleType ==
  ASSUME NEW idle \in [candidate : BOOLEAN, during : BOOLEAN, timer : BOOLEAN], acks \in Nat
  PROVE  SessionIdle(idle) \in [candidate : BOOLEAN, during : BOOLEAN, timer : BOOLEAN]
<1>1. [idle EXCEPT !.candidate = TRUE, !.during = @ \/ acks > 0]
        \in [candidate : BOOLEAN, during : BOOLEAN, timer : BOOLEAN]
  OBVIOUS
<1> QED
  BY <1>1, ArmedType DEF SessionIdle

LEMMA AcknowledgedType ==
  ASSUME TypeOK, NEW kind, NEW left \in Nat, NEW batch
  PROVE  DeliveryAcknowledged(kind, left, batch)
           \in [candidate : BOOLEAN, during : BOOLEAN, timer : BOOLEAN]
<1>1. root \in [candidate : BOOLEAN, during : BOOLEAN, timer : BOOLEAN]
  BY DEF TypeOK
<1>2. NoIdle \in [candidate : BOOLEAN, during : BOOLEAN, timer : BOOLEAN]
  BY DEF NoIdle
<1>3. [root EXCEPT !.during = FALSE, !.timer = FALSE]
        \in [candidate : BOOLEAN, during : BOOLEAN, timer : BOOLEAN]
  BY <1>1
<1>4. [root EXCEPT !.during = @ /\ left > 0, !.candidate = @ \/ kind = "command"]
        \in [candidate : BOOLEAN, during : BOOLEAN, timer : BOOLEAN]
  BY <1>1
<1> QED
  BY <1>1, <1>2, <1>3, <1>4, ArmedType DEF DeliveryAcknowledged

(* A drain captures what the batch holds. *)
LEMMA DrainType ==
  ASSUME TypeOK, NEW batch \in SUBSET Message, NEW b \in BOOLEAN, DrainAndClose(batch, b)
  PROVE  drain' \in {NoDrain} \cup [at : {"tasks", "delay"}, sealed : SUBSET Message,
                                    run : 0..MaxRuns, completes : BOOLEAN]
  BY DEF TypeOK, DrainAndClose

LEMMA InFlightFinite ==
  ASSUME BatchAssumption
  PROVE  /\ IsFiniteSet(InFlight)
         /\ Cardinality(InFlight) \in Nat /\ Cardinality(Message) \in Nat
         /\ Cardinality(InFlight) <= Cardinality(Message)
  BY BatchAssumption, FS_Subset, FS_CardinalityType DEF InFlight

-----------------------------------------------------------------------------
(* The count of acknowledgements. *)

(* A request adds itself to the requests in flight. *)
LEMMA RequestIsCounted ==
  ASSUME BatchAssumption, TypeOK, AcksHaveRequests, NEW m \in Message, req[m] = Away,
         NEW record, record # Away,
         req' = [req EXCEPT ![m] = record]
  PROVE  acks + 1 <= Cardinality(InFlight')
<1>1. InFlight' = InFlight \cup { m } /\ m \notin InFlight
  BY DEF InFlight, TypeOK
<1>2. Cardinality(InFlight \cup { m }) = Cardinality(InFlight) + 1
  BY <1>1, InFlightFinite, FS_AddElement
<1> QED
  BY <1>1, <1>2, InFlightFinite DEF AcksHaveRequests, TypeOK

(* A request that is over takes one acknowledgement with it, if one is left. *)
LEMMA EndIsCounted ==
  ASSUME BatchAssumption, TypeOK, AcksHaveRequests, NEW m \in Message, req[m] # Away,
         req' = [req EXCEPT ![m] = Away]
  PROVE  /\ EndDelivery \in 0..Cardinality(Message)
         /\ EndDelivery <= Cardinality(InFlight')
<1>1. InFlight' = InFlight \ { m } /\ m \in InFlight
  BY DEF InFlight, TypeOK
<1>2. Cardinality(InFlight \ { m }) = Cardinality(InFlight) - 1
  BY <1>1, InFlightFinite, FS_RemoveElement
<1>3. acks \in Nat /\ acks <= Cardinality(InFlight)
  BY InFlightFinite DEF AcksHaveRequests, TypeOK
<1>4. /\ Cardinality(InFlight) \in Nat /\ Cardinality(Message) \in Nat
      /\ Cardinality(InFlight) <= Cardinality(Message)
  BY InFlightFinite
<1>5. Cardinality(InFlight) >= 1
  BY <1>1, <1>4, InFlightFinite, FS_EmptySet
<1>6. Cardinality(InFlight') = Cardinality(InFlight) - 1
  BY <1>1, <1>2
<1> QED
  BY <1>3, <1>4, <1>5, <1>6 DEF EndDelivery

(* A request that goes on stays in flight. *)
LEMMA ProgressIsCounted ==
  ASSUME TypeOK, NEW m \in Message, req[m] # Away, NEW record, record # Away,
         req' = [req EXCEPT ![m] = record]
  PROVE  InFlight' = InFlight
  BY DEF InFlight, TypeOK

-----------------------------------------------------------------------------
(* The requests. *)

LEMMA RequestType ==
  ASSUME BatchAssumption, TypeOK, AcksHaveRequests,
         NEW m \in Message, NEW kind \in Kind, Request(m, kind)
  PROVE  TypeOK' /\ AcksHaveRequests'
<1> DEFINE new == [at |-> "preparing", kind |-> kind, added |-> FALSE]
<1>1. new # Away /\ req[m] = Away /\ req' = [req EXCEPT ![m] = new] /\ acks' = acks + 1
  BY DEF Request, Away
<1>2. acks' <= Cardinality(InFlight')
  BY <1>1, RequestIsCounted
<1>3. InFlight' \subseteq Message
  BY DEF InFlight
<1>4. Cardinality(InFlight') <= Cardinality(Message) /\ Cardinality(InFlight') \in Nat
      /\ Cardinality(Message) \in Nat
  BY <1>3, BatchAssumption, FS_Subset, FS_CardinalityType
<1>5. acks' \in 0..Cardinality(Message)
  BY <1>1, <1>2, <1>4 DEF TypeOK
<1>6. req' \in [Message -> {Away} \cup
                  [at : {"preparing", "opening", "attaching", "sending", "taken"},
                   kind : Kind, added : BOOLEAN]]
  BY <1>1 DEF TypeOK
<1>7. /\ UNCHANGED <<session, admitted, finalizing, blocked, root, aborted, drain, abort,
                     link, feed, opener, buffered, running, unheard, missed, run, upsets,
                     acked, reports, owed>>
      /\ requests' \in 0..MaxRequests /\ orderly' \in BOOLEAN
  BY BatchAssumption DEF Request, TypeOK, kilo, lifecycle, connection
<1> QED
  BY <1>2, <1>5, <1>6, <1>7 DEF TypeOK, AcksHaveRequests

(* A binding resets the lifecycle and leaves the requests alone. *)
LEMMA BindType ==
  ASSUME BatchAssumption, TypeOK, AcksHaveRequests,
         NEW r \in { run, run + 1 } \cap Run, NEW refreshed \in BOOLEAN, Bind(r, refreshed)
  PROVE  TypeOK' /\ AcksHaveRequests'
<1>1. /\ UNCHANGED <<admitted, acks, finalizing, abort, req, running, unheard, requests, acked,
                     reports>>
      /\ session' = r /\ run' = r /\ aborted' = FALSE /\ root' = NoIdle /\ drain' = NoDrain
      /\ missed' \in BOOLEAN /\ orderly' \in BOOLEAN /\ owed' \subseteq owed
  BY DEF Bind, LifecycleResets, TypeOK
<1>2. AcksHaveRequests'
  BY <1>1 DEF AcksHaveRequests, InFlight
<1>3. r \in 0..MaxRuns
  BY BatchAssumption DEF Run
<1>4. blocked' \in [is : BOOLEAN, run : 0..MaxRuns]
  <2>1. Open \in [is : BOOLEAN, run : 0..MaxRuns]
    BY BatchAssumption DEF Open
  <2>2. blocked' \in { Open, blocked }
    BY DEF Bind
  <2> QED
    BY <2>1, <2>2 DEF TypeOK
<1>5. /\ link' \in {"open", "lost", "closed"} /\ buffered' \in BOOLEAN
      /\ feed' \in {"none", "attaching", "renewing", "live"} /\ opener' \in Message \cup {Nobody}
  BY DEF Bind, LifecycleResets, Closes, connection, TypeOK
<1>6. upsets' \in 0..MaxUpsets
  BY BatchAssumption DEF Bind, TypeOK
<1>7. NoIdle \in [candidate : BOOLEAN, during : BOOLEAN, timer : BOOLEAN]
  BY DEF NoIdle
<1> QED
  BY <1>1, <1>2, <1>3, <1>4, <1>5, <1>6, <1>7 DEF TypeOK

(* The preparation, the send and the kilo server's taking of a prompt. *)
LEMMA AdvanceType ==
  ASSUME BatchAssumption, TypeOK, AcksHaveRequests, NEW m \in Message,
         Prepared(m) \/ Attaches(m) \/ Opened(m) \/ Takes(m)
  PROVE  TypeOK' /\ AcksHaveRequests'
<1>1. /\ req[m] # Away
      /\ req[m] \in [at : {"preparing", "opening", "attaching", "sending", "taken"},
                     kind : Kind, added : BOOLEAN]
  BY DEF TypeOK, Prepared, Attaches, Opened, Takes
<1>2. PICK new \in [at : {"opening", "attaching", "sending", "taken"}, kind : Kind, added : BOOLEAN] :
        req' = [req EXCEPT ![m] = new]
  <2>1. CASE \E at \in {"opening", "sending"} : Accepted(m, at)
    <3>1. PICK at \in {"opening", "sending"} : Accepted(m, at)
      BY <2>1
    <3>2. [req[m] EXCEPT !.at = at, !.added = m \notin admitted]
            \in [at : {"opening", "attaching", "sending", "taken"}, kind : Kind, added : BOOLEAN]
      BY <1>1
    <3> QED
      BY <3>1, <3>2 DEF Accepted
  <2>2. CASE \E at \in {"opening", "attaching", "sending", "taken"} : req' = [req EXCEPT ![m].at = at]
    <3>1. PICK at \in {"opening", "attaching", "sending", "taken"} : req' = [req EXCEPT ![m].at = at]
      BY <2>2
    <3>2. [req[m] EXCEPT !.at = at]
            \in [at : {"opening", "attaching", "sending", "taken"}, kind : Kind, added : BOOLEAN]
      BY <1>1
    <3> QED
      BY <3>1, <3>2
  <2> QED
    BY <2>1, <2>2 DEF Prepared, Attaches, Opened, Takes
<1>4. new # Away
  BY DEF Away
<1>5. InFlight' = InFlight
  BY <1>1, <1>2, <1>4, ProgressIsCounted
<1>6. req' \in [Message -> {Away} \cup [at : {"preparing", "opening", "attaching", "sending", "taken"},
                                        kind : Kind, added : BOOLEAN]]
  BY <1>1, <1>2 DEF TypeOK
<1>7. admitted' \subseteq Message /\ running' \subseteq Message /\ unheard' \subseteq running'
  BY DEF TypeOK, Prepared, Attaches, Opened, Takes, Accepted, state, object, kilo
<1>8. /\ link' \in {"open", "lost", "closed"} /\ buffered' \in BOOLEAN
      /\ feed' \in {"none", "attaching", "renewing", "live"} /\ opener' \in Message \cup {Nobody}
      /\ owed' \subseteq owed
  BY DEF TypeOK, Prepared, Attaches, Opened, Takes, SocketOpens, connection
<1>9. root' \in [candidate : BOOLEAN, during : BOOLEAN, timer : BOOLEAN]
  <2>1. root' \in { root, NoIdle }
    <3>1. CASE Prepared(m) \/ Attaches(m) \/ Opened(m)
      BY <3>1 DEF Prepared, Attaches, Opened, lifecycle
    <3>2. CASE Takes(m)
      BY <3>2 DEF Takes, RootActivity
    <3> QED
      BY <3>1, <3>2
  <2>2. NoIdle \in [candidate : BOOLEAN, during : BOOLEAN, timer : BOOLEAN]
    BY DEF NoIdle
  <2>3. root \in [candidate : BOOLEAN, during : BOOLEAN, timer : BOOLEAN]
    BY DEF TypeOK
  <2> QED
    BY <2>1, <2>2, <2>3
<1>10. /\ session' = session /\ acks' = acks /\ finalizing' = finalizing /\ blocked' = blocked
       /\ aborted' = aborted /\ drain' = drain /\ abort' = abort /\ run' = run
       /\ requests' = requests /\ upsets' = upsets /\ acked' = acked /\ reports' = reports
       /\ missed' = missed /\ orderly' = orderly
  BY DEF Prepared, Attaches, Opened, Takes, lifecycle, state, object, kilo
<1> QED
  BY <1>5, <1>6, <1>7, <1>8, <1>9, <1>10 DEF TypeOK, AcksHaveRequests

(* The ends of a request. *)
LEMMA EndType ==
  ASSUME BatchAssumption, TypeOK, AcksHaveRequests, NEW m \in Message,
         PrepareFails(m) \/ OpenFails(m) \/ SendFails(m) \/ Answered(m)
  PROVE  TypeOK' /\ AcksHaveRequests'
<1>1. /\ req[m] # Away /\ req' = [req EXCEPT ![m] = Away] /\ acks' = EndDelivery
  BY DEF PrepareFails, OpenFails, SendFails, Answered, Fails, Acknowledged
<1>2. acks' \in 0..Cardinality(Message) /\ acks' <= Cardinality(InFlight')
  BY <1>1, EndIsCounted
<1>3. EndDelivery \in Nat
  BY <1>1, <1>2, InFlightFinite
<1>4. root' \in [candidate : BOOLEAN, during : BOOLEAN, timer : BOOLEAN]
  <2>1. PICK kind, batch : root' = DeliveryAcknowledged(kind, EndDelivery, batch)
    BY DEF PrepareFails, OpenFails, SendFails, Answered, Fails, Acknowledged
  <2> QED
    BY <2>1, <1>3, AcknowledgedType
<1>5. req' \in [Message -> {Away} \cup [at : {"preparing", "opening", "attaching", "sending", "taken"},
                                        kind : Kind, added : BOOLEAN]]
  BY <1>1 DEF TypeOK
<1>6. admitted' \subseteq Message
  BY DEF TypeOK, PrepareFails, OpenFails, SendFails, Answered, Fails
<1>7. /\ link' \in {"open", "lost", "closed"} /\ buffered' \in BOOLEAN
      /\ feed' \in {"none", "attaching", "renewing", "live"} /\ opener' \in Message \cup {Nobody}
  BY DEF TypeOK, PrepareFails, OpenFails, SendFails, Answered, connection
<1>8. acked' \subseteq Message /\ owed' \subseteq acked'
  BY DEF TypeOK, PrepareFails, OpenFails, SendFails, Answered, object
<1>9. /\ session' = session /\ finalizing' = finalizing /\ blocked' = blocked
      /\ aborted' = aborted /\ drain' = drain /\ abort' = abort /\ run' = run
      /\ requests' = requests /\ upsets' = upsets /\ reports' = reports
      /\ running' = running /\ unheard' = unheard /\ missed' = missed /\ orderly' = orderly
  BY DEF PrepareFails, OpenFails, SendFails, Answered, object, kilo
<1> QED
  BY <1>2, <1>4, <1>5, <1>6, <1>7, <1>8, <1>9 DEF TypeOK, AcksHaveRequests

(* The timers, callbacks and aborts leave the requests alone. *)
LEMMA CallbackType ==
  ASSUME BatchAssumption, TypeOK, AcksHaveRequests,
         \/ IdleIsStable \/ TasksEnd \/ DrainEnds \/ FailsOrKilled \/ AbortBegins \/ AbortEnds
         \/ Disconnected \/ ConnectionLost \/ Reconnected \/ Resubscribes \/ Resubscribed
         \/ GraceEnds \/ TurnEnds
  PROVE  TypeOK' /\ AcksHaveRequests'
<1> USE DEF IdleIsStable, TasksEnd, DrainEnds, FailsOrKilled, AbortBegins, AbortEnds,
            Disconnected, ConnectionLost, Reconnected, Resubscribes, Resubscribed, GraceEnds,
            TurnEnds, Aborts
<1>1. req' = req /\ acks' \in { acks, 0 }
  BY DEF state
<1>2. acks' \in 0..Cardinality(Message) /\ acks' <= Cardinality(InFlight')
  BY <1>1, InFlightFinite DEF TypeOK, AcksHaveRequests, InFlight
<1>3. /\ admitted' \in { admitted, {} } /\ acked' = acked /\ missed' \in { missed, ~Heard }
      /\ <<running', unheard'>> \in { <<running, unheard>>, <<{}, {}>> }
  BY DEF state, object, kilo, Upset
<1>4. session' \in { session, 0 } /\ run' = run /\ requests' = requests
  BY DEF state, object, Upset
<1>14. upsets' \in 0..MaxUpsets /\ missed' \in BOOLEAN
  <2>1. upsets' = upsets \/ Upset
    BY DEF object
  <2>2. upsets \in 0..MaxUpsets /\ missed \in BOOLEAN /\ (~Heard) \in BOOLEAN
    BY DEF TypeOK, Heard
  <2> HIDE DEF IdleIsStable, TasksEnd, DrainEnds, FailsOrKilled, AbortBegins, AbortEnds,
               Disconnected, ConnectionLost, Reconnected, Resubscribes, Resubscribed,
               GraceEnds, TurnEnds, Aborts
  <2>3. upsets' \in 0..MaxUpsets
    BY <2>1, <2>2, BatchAssumption DEF Upset
  <2>4. missed' \in BOOLEAN
    BY <1>3, <2>2
  <2> QED
    BY <2>3, <2>4
<1>5. finalizing' \in BOOLEAN
  BY DEF TypeOK, state
<1>6. aborted' \in BOOLEAN /\ abort' \in { abort, session, 0 }
  BY DEF TypeOK, lifecycle
<1>7. blocked' \in [is : BOOLEAN, run : 0..MaxRuns]
  <2>1. blocked' = blocked \/ BlockAdmissions
    BY DEF state
  <2>2. [is |-> TRUE, run |-> session] \in [is : BOOLEAN, run : 0..MaxRuns]
    BY DEF TypeOK
  <2> QED
    BY <2>1, <2>2 DEF TypeOK, BlockAdmissions
<1>8. orderly' \in BOOLEAN
  <2>1. \/ orderly' = orderly
        \/ orderly' = (orderly /\ InFlight = {})
        \/ orderly' = (orderly /\ session = abort /\ InFlight = {})
    BY DEF Overtaken
  <2> QED
    BY <2>1 DEF TypeOK
<1>9. /\ link' \in {"open", "lost", "closed"} /\ buffered' \in BOOLEAN
      /\ feed' \in {"none", "attaching", "renewing", "live"} /\ opener' \in Message \cup {Nobody}
  BY DEF TypeOK, connection, Closes, Reported, SocketOpens, FeedEnds
<1>10. owed' \subseteq owed
  BY DEF Reported, SocketOpens
<1>11. reports' \in [Run -> Nat]
  <2>1. reports' = reports \/ reports' = [reports EXCEPT ![session] = @ + 1]
    OBVIOUS
  <2> QED
    BY <2>1 DEF TypeOK
<1>12. root' \in [candidate : BOOLEAN, during : BOOLEAN, timer : BOOLEAN]
  <2>1. \/ root' \in { root, NoIdle } \/ root' = SessionIdle(root) \/ root' = Armed(root, admitted)
        \/ \E x \in BOOLEAN : root' = [root EXCEPT !.timer = x]
    <3>1. CASE IdleIsStable
      <4>1. root.timer \in BOOLEAN
        BY DEF TypeOK
      <4>2. (root.timer /\ root.candidate /\ acks = 0 /\ ~Connected /\ admitted # {}) \in BOOLEAN
        OBVIOUS
      <4> QED
        BY <3>1, <4>1, <4>2
    <3>2. CASE \/ TasksEnd \/ DrainEnds \/ FailsOrKilled \/ AbortBegins \/ AbortEnds
               \/ Disconnected \/ ConnectionLost \/ Reconnected \/ Resubscribes
               \/ Resubscribed \/ GraceEnds \/ TurnEnds
      BY <3>2 DEF lifecycle
    <3> QED
      BY <3>1, <3>2
  <2>2. root \in [candidate : BOOLEAN, during : BOOLEAN, timer : BOOLEAN]
        /\ NoIdle \in [candidate : BOOLEAN, during : BOOLEAN, timer : BOOLEAN]
    BY DEF TypeOK, NoIdle
  <2>3. acks \in Nat
    BY InFlightFinite DEF TypeOK
  <2> QED
    BY <2>1, <2>2, <2>3, SessionIdleType, ArmedType
<1>13. drain' \in {NoDrain} \cup [at : {"tasks", "delay"}, sealed : SUBSET Message,
                                  run : 0..MaxRuns, completes : BOOLEAN]
  <2>1. CASE \E batch \in SUBSET Message, b \in BOOLEAN : DrainAndClose(batch, b)
    BY <2>1, DrainType
  <2>2. CASE drain' \in { NoDrain, drain }
    BY <2>2 DEF TypeOK
  <2>3. CASE drain # NoDrain /\ drain' = [drain EXCEPT !.at = "delay"]
    BY <2>3 DEF TypeOK
  <2> QED
    <3>1. {} \in SUBSET Message /\ admitted \in SUBSET Message
          /\ TRUE \in BOOLEAN /\ aborted \in BOOLEAN
      BY DEF TypeOK
    <3>2. CASE IdleIsStable
      BY <3>1, <3>2, <2>1, <2>2
    <3>3. CASE FailsOrKilled \/ AbortEnds \/ Disconnected
      BY <3>1, <3>3, <2>1
    <3>4. CASE TasksEnd
      BY <3>4, <2>3
    <3>5. CASE \/ DrainEnds \/ AbortBegins \/ ConnectionLost \/ Reconnected \/ Resubscribes
               \/ Resubscribed \/ GraceEnds \/ TurnEnds
      BY <3>5, <2>2 DEF lifecycle
    <3> QED
      BY <3>2, <3>3, <3>4, <3>5
<1> QED
  BY <1>1, <1>2, <1>3, <1>4, <1>5, <1>6, <1>7, <1>8, <1>9, <1>10, <1>11, <1>12, <1>13,
     <1>14, BatchAssumption
  DEF TypeOK, AcksHaveRequests

-----------------------------------------------------------------------------
(* The runs. *)

RunInv == BlockedKnowsItsRun /\ DrainBlocks /\ OneCompletePerRun

(* What blocks admissions, or begins a drain, or does neither, completes    *)
(* nothing; a drain that begins has its tasks before it.                    *)
LEMMA BlockingStep ==
  ASSUME TypeOK, RunInv,
         session' = session, run' = run, reports' = reports,
         blocked' = blocked \/ BlockAdmissions,
         \/ drain' = drain
         \/ /\ BlockAdmissions
            /\ \E batch, b : DrainAndClose(batch, b)
  PROVE  RunInv'
<1>1. blocked' # blocked => blocked'.is /\ blocked'.run = session
  BY DEF BlockAdmissions
<1>2. \/ drain' = drain
      \/ blocked'.is /\ blocked'.run = session /\ drain = NoDrain /\ drain'.at = "tasks"
  BY DEF BlockAdmissions, DrainAndClose
<1>3. BlockedKnowsItsRun'
  BY <1>1 DEF RunInv, BlockedKnowsItsRun
<1>4. DrainBlocks'
  BY <1>1, <1>2 DEF RunInv, DrainBlocks
<1> QED
  BY <1>3, <1>4 DEF RunInv, OneCompletePerRun

(* A session is bound when its run was never completed. *)
LEMMA BindingStep ==
  ASSUME BatchAssumption, TypeOK, RunInv, NEW r \in { run, run + 1 } \cap Run,
         NEW refreshed \in BOOLEAN, Bind(r, refreshed)
  PROVE  RunInv'
<1>1. /\ session' = r /\ run' = r /\ reports' = reports /\ drain' = NoDrain
      /\ blocked' = IF session = 0 THEN Open ELSE blocked
      /\ blocked.is => session = 0 /\ blocked.run # 0 /\ r # blocked.run
  BY DEF Bind, LifecycleResets, IsFreshRun
<1>2. run \in Nat \ {0} /\ r \in Run /\ (r = run \/ r = run + 1)
  BY BatchAssumption DEF TypeOK, Run
<1>3. reports[r] = 0
  <2>1. CASE r = run + 1
    BY <1>2, <2>1 DEF RunInv, BlockedKnowsItsRun
  <2>2. CASE r = run /\ session = 0
    BY <1>1, <2>2 DEF RunInv, BlockedKnowsItsRun
  <2>3. CASE r = run /\ session # 0
    BY <1>1, <2>3 DEF RunInv, BlockedKnowsItsRun, DrainBlocks
  <2> QED
    BY <1>2, <2>1, <2>2, <2>3
<1>4. ~blocked'.is
  BY <1>1 DEF Open
<1>5. \A s \in Run : s > r => reports[s] = 0
  BY <1>2 DEF RunInv, BlockedKnowsItsRun, Run
<1> QED
  BY <1>1, <1>2, <1>3, <1>4, <1>5
  DEF RunInv, BlockedKnowsItsRun, DrainBlocks, OneCompletePerRun

(* The completion is the first of its run, and no binding finds the run      *)
(* again.                                                                    *)
LEMMA DrainStep ==
  ASSUME BatchAssumption, TypeOK, RunInv, TasksEnd \/ DrainEnds
  PROVE  RunInv'
<1>1. run \in Run /\ run \in Nat \ {0} /\ session \in { 0, run }
  BY BatchAssumption DEF TypeOK, Run, RunInv, BlockedKnowsItsRun
<1>2. blocked' = blocked /\ run' = run
  BY DEF TasksEnd, DrainEnds, state, object
<1>3. drain # NoDrain /\ blocked.is
  BY DEF TasksEnd, DrainEnds, RunInv, DrainBlocks
<1>4. CASE TasksEnd
  <2>1. drain'.at = "delay" /\ drain' # NoDrain /\ session' = session
    BY <1>4 DEF TasksEnd, TypeOK, NoDrain, state
  <2>2. \/ reports' = reports
        \/ session # 0 /\ reports' = [reports EXCEPT ![session] = @ + 1]
    BY <1>4 DEF TasksEnd
  <2>3. session # 0 => reports[session] = 0
    BY <1>4 DEF TasksEnd, RunInv, DrainBlocks
  <2>4. \A s \in Run : reports'[s] = reports[s] \/ (s = session /\ reports[s] = 0 /\ reports'[s] = 1)
    BY <2>2, <2>3 DEF TypeOK
  <2>5. BlockedKnowsItsRun'
    BY <1>1, <1>2, <1>3, <2>1, <2>4 DEF RunInv, BlockedKnowsItsRun
  <2>6. DrainBlocks'
    BY <1>2, <1>3, <2>1 DEF RunInv, DrainBlocks
  <2> QED
    BY <2>4, <2>5, <2>6 DEF RunInv, OneCompletePerRun
<1>5. CASE DrainEnds
  <2>1. session' = 0 /\ drain' = NoDrain /\ reports' = reports
    BY <1>5 DEF DrainEnds
  <2>2. blocked.run \in { 0, run }
    BY <1>1, <1>3 DEF RunInv, BlockedKnowsItsRun
  <2> QED
    BY <1>2, <1>3, <2>1, <2>2 DEF RunInv, BlockedKnowsItsRun, DrainBlocks, OneCompletePerRun
<1> QED
  BY <1>4, <1>5

-----------------------------------------------------------------------------
LEMMA InitHolds == Init => BatchInv
<1> SUFFICES ASSUME Init PROVE BatchInv
  OBVIOUS
<1>1. InFlight = {}
  BY DEF Init, InFlight
<1>2. Cardinality(Message) \in Nat /\ Cardinality(InFlight) = 0
  BY <1>1, BatchAssumption, FS_CardinalityType, FS_EmptySet
<1>3. TypeOK
  <2>1. /\ 0 \in 0..MaxRuns /\ 1 \in Run /\ 0 \in 0..MaxRequests /\ 0 \in 0..MaxUpsets
        /\ 0 \in 0..Cardinality(Message)
    BY <1>2, BatchAssumption DEF Run
  <2>2. /\ Open \in [is : BOOLEAN, run : 0..MaxRuns]
        /\ NoIdle \in [candidate : BOOLEAN, during : BOOLEAN, timer : BOOLEAN]
    BY <2>1 DEF Open, NoIdle
  <2> QED
    BY <2>1, <2>2 DEF Init, TypeOK
<1>4. AcksHaveRequests
  BY <1>2 DEF Init, AcksHaveRequests
<1>5. BlockedKnowsItsRun /\ DrainBlocks /\ OneCompletePerRun
  BY BatchAssumption DEF Init, BlockedKnowsItsRun, DrainBlocks, OneCompletePerRun, Open, Run
<1> QED
  BY <1>3, <1>4, <1>5 DEF BatchInv

LEMMA StepHolds == BatchInv /\ [Next]_vars => BatchInv'
<1> SUFFICES ASSUME BatchInv, [Next]_vars PROVE TypeOK' /\ AcksHaveRequests' /\ RunInv'
  BY DEF BatchInv, RunInv
<1>0. BatchAssumption /\ TypeOK /\ AcksHaveRequests /\ RunInv
  BY BatchAssumption DEF BatchInv, RunInv
<1>1. CASE TasksEnd \/ DrainEnds
  BY <1>0, <1>1, CallbackType, DrainStep
<1>2. CASE IdleIsStable \/ FailsOrKilled \/ AbortEnds \/ Disconnected
  <2>1. TypeOK' /\ AcksHaveRequests'
    BY <1>0, <1>2, CallbackType
  <2>2. /\ session' = session /\ run' = run /\ reports' = reports
        /\ blocked' = blocked \/ BlockAdmissions
        /\ \/ drain' = drain
           \/ BlockAdmissions /\ \E batch, b : DrainAndClose(batch, b)
    BY <1>2 DEF IdleIsStable, FailsOrKilled, AbortEnds, Disconnected, Aborts, Upset, object
  <2> QED
    BY <1>0, <2>1, <2>2, BlockingStep
<1>3. CASE \/ AbortBegins \/ ConnectionLost \/ Reconnected \/ Resubscribes \/ Resubscribed
           \/ GraceEnds \/ TurnEnds
  <2>1. TypeOK' /\ AcksHaveRequests'
    BY <1>0, <1>3, CallbackType
  <2>2. /\ session' = session /\ run' = run /\ reports' = reports /\ drain' = drain
        /\ blocked' = blocked \/ BlockAdmissions
    BY <1>3
    DEF AbortBegins, ConnectionLost, Reconnected, Resubscribes, Resubscribed, GraceEnds,
        TurnEnds, Upset, state, lifecycle, object
  <2> QED
    BY <1>0, <2>1, <2>2, BlockingStep
<1>4. ASSUME NEW m \in Message, NEW kind \in Kind, Request(m, kind)
      PROVE  TypeOK' /\ AcksHaveRequests' /\ RunInv'
  <2>1. TypeOK' /\ AcksHaveRequests'
    BY <1>0, <1>4, RequestType
  <2>2. /\ session' = session /\ run' = run /\ reports' = reports /\ drain' = drain
        /\ blocked' = blocked
    BY <1>4 DEF Request, lifecycle
  <2> QED
    BY <1>0, <2>1, <2>2, BlockingStep
<1>7. ASSUME NEW r \in { run, run + 1 } \cap Run, NEW refreshed \in BOOLEAN, Bind(r, refreshed)
      PROVE  TypeOK' /\ AcksHaveRequests' /\ RunInv'
  BY <1>0, <1>7, BindType, BindingStep
<1>5. ASSUME NEW m \in Message, Progress(m)
      PROVE  TypeOK' /\ AcksHaveRequests' /\ RunInv'
  <2>1. TypeOK' /\ AcksHaveRequests'
    BY <1>0, <1>5, AdvanceType, EndType DEF Progress
  <2>2. /\ session' = session /\ run' = run /\ reports' = reports /\ drain' = drain
        /\ blocked' = blocked
    BY <1>5
    DEF Progress, Prepared, Attaches, Opened, Takes, PrepareFails, OpenFails, SendFails,
        Answered, state, lifecycle, object
  <2> QED
    BY <1>0, <2>1, <2>2, BlockingStep
<1>6. CASE UNCHANGED vars
  <2>1. TypeOK' /\ AcksHaveRequests'
    BY <1>0, <1>6
    DEF vars, state, lifecycle, connection, object, kilo, TypeOK, AcksHaveRequests, InFlight
  <2>2. /\ session' = session /\ run' = run /\ reports' = reports /\ drain' = drain
        /\ blocked' = blocked
    BY <1>6 DEF vars, state, lifecycle, object
  <2> QED
    BY <1>0, <2>1, <2>2, BlockingStep
<1> QED
  BY <1>1, <1>2, <1>3, <1>4, <1>5, <1>6, <1>7 DEF Next

LEMMA BatchInvHolds == Spec => []BatchInv
  BY InitHolds, StepHolds, PTL DEF Spec

(* The process keeps its types, and has never more acknowledgements to wait  *)
(* for than requests in flight.                                              *)
THEOREM TypeCorrect == Spec => []TypeOK
<1>1. BatchInv => TypeOK
  BY DEF BatchInv
<1> QED
  BY <1>1, BatchInvHolds, PTL

(* No wrapper run is completed twice (isFreshRunAfterFinalization). *)
THEOREM RunsCompleteOnce == Spec => []OneCompletePerRun
<1>1. BatchInv => OneCompletePerRun
  BY DEF BatchInv
<1> QED
  BY <1>1, BatchInvHolds, PTL

(* No binding and no second drain overtakes a drain: while it runs,          *)
(* admissions are blocked and the session is that of the drain.              *)
THEOREM SealedBatchesStay == Spec => SealedBatchStays
<1> DEFINE Stays == drain # NoDrain =>
                      /\ session' \in { 0, session }
                      /\ drain' \in { NoDrain, drain, [drain EXCEPT !.at = "delay"] }
<1>1. BatchInv /\ [Next]_vars => Stays
  <2> SUFFICES ASSUME BatchInv, [Next]_vars, drain # NoDrain
               PROVE  /\ session' \in { 0, session }
                      /\ drain' \in { NoDrain, drain, [drain EXCEPT !.at = "delay"] }
    OBVIOUS
  <2>1. blocked.is /\ (session = 0 => blocked.run = 0)
    BY DEF BatchInv, DrainBlocks
  <2>2. ASSUME NEW batch, NEW b, DrainAndClose(batch, b) PROVE drain' = drain
    BY <2>2 DEF DrainAndClose
  <2>3. CASE TasksEnd \/ DrainEnds
    BY <2>3 DEF TasksEnd, DrainEnds, state
  <2>4. CASE IdleIsStable \/ FailsOrKilled \/ AbortEnds \/ Disconnected
    BY <2>2, <2>4 DEF IdleIsStable, FailsOrKilled, AbortEnds, Disconnected, Aborts
  <2>5. CASE \/ AbortBegins \/ ConnectionLost \/ Reconnected \/ Resubscribes \/ Resubscribed
             \/ GraceEnds \/ TurnEnds
    BY <2>5
    DEF AbortBegins, ConnectionLost, Reconnected, Resubscribes, Resubscribed, GraceEnds,
        TurnEnds, state, lifecycle
  <2>6. ASSUME NEW m \in Message, NEW kind, Request(m, kind) PROVE FALSE
    BY <2>1, <2>6 DEF Request
  <2>9. ASSUME NEW r, NEW refreshed, Bind(r, refreshed) PROVE FALSE
    BY <2>1, <2>9 DEF Bind, IsFreshRun
  <2>7. ASSUME NEW m \in Message, Progress(m) PROVE session' = session /\ drain' = drain
    BY <2>7
    DEF Progress, Prepared, Attaches, Opened, Takes, PrepareFails, OpenFails, SendFails,
        Answered, state, lifecycle
  <2>8. CASE UNCHANGED vars
    BY <2>8 DEF vars, state, lifecycle
  <2> QED
    BY <2>3, <2>4, <2>5, <2>6, <2>7, <2>8, <2>9 DEF Next
<1>2. BatchInv /\ [Next]_vars => [Stays]_vars
  BY <1>1
<1> QED
  BY <1>2, BatchInvHolds, PTL DEF Spec, SealedBatchStays

-----------------------------------------------------------------------------
(* What the object was told.  "orderly" excludes the requests that an abort, *)
(* a new run or their own repetition overtook.                              *)

DeliveredAreDone == InFlight \cap acked = {}

(* An abort request that is still awaited has blocked the session it found. *)
AbortsBlock ==
  /\ aborted => blocked.is
  /\ abort # 0 =>
       /\ abort <= run
       /\ session = abort => aborted
       /\ session = 0 /\ abort = run => blocked.is

(* Nothing is in flight while the batch is sealed or aborted. *)
RequestsAreAwaited ==
  /\ acks = Cardinality(InFlight)
  /\ drain # NoDrain \/ aborted \/ session = 0 => InFlight = {}
  /\ \A m \in InFlight : req[m].kind = "command" => InFlight = { m }

SentIsAdmitted ==
  \A m \in InFlight :
    \/ req[m].at \in { "sending", "taken" }
    \/ req[m].at \in { "opening", "attaching" } /\ req[m].kind = "command"
    => m \in admitted

(* A session that ended without an abort has told the ends of its messages. *)
EndsAreTold ==
  /\ session = 0 /\ ~aborted => owed = {}
  /\ drain # NoDrain /\ ~aborted => link # "closed"

(* An idle candidate stems from a turn that is over. *)
CandidateIsIdle ==
  /\ drain = NoDrain /\ session # 0 /\ root.candidate => running \subseteq unheard
  /\ \A m \in InFlight :
       req[m].kind = "command" /\ req[m].at = "taken" => m \in running \/ running = {}

InOrder == RequestsAreAwaited /\ SentIsAdmitted /\ EndsAreTold /\ CandidateIsIdle

OrderInv ==
  DeliveredAreDone /\ AbortsBlock /\ (orderly => InOrder) /\ OwedIsAdmitted /\ WorkIsDone

(* Requests and acknowledgements that stay, and those that an abort clears. *)
LEMMA RequestsStay ==
  ASSUME UNCHANGED req
  PROVE  InFlight' = InFlight
  BY DEF InFlight

LEMMA NoneIsCounted == Cardinality({}) = 0
  BY FS_EmptySet

(* The idle candidate of a batch outlives its timer, its connection and the *)
(* answers, but is made only by an idle session and by a command.           *)
LEMMA CandidateOrigin ==
  ASSUME NEW idle \in [candidate : BOOLEAN, during : BOOLEAN, timer : BOOLEAN], NEW batch
  PROVE  Armed(idle, batch).candidate = idle.candidate
  BY DEF Armed

LEMMA AcknowledgedCandidate ==
  ASSUME TypeOK, NEW kind, kind # "command", NEW left \in Nat, NEW batch,
         DeliveryAcknowledged(kind, left, batch).candidate
  PROVE  root.candidate
<1>1. root \in [candidate : BOOLEAN, during : BOOLEAN, timer : BOOLEAN]
  BY DEF TypeOK
<1>2. ~NoIdle.candidate
  BY DEF NoIdle
<1>3. /\ [root EXCEPT !.during = FALSE, !.timer = FALSE]
           \in [candidate : BOOLEAN, during : BOOLEAN, timer : BOOLEAN]
      /\ [root EXCEPT !.during = FALSE, !.timer = FALSE].candidate = root.candidate
  BY <1>1
<1>4. /\ [root EXCEPT !.during = @ /\ left > 0, !.candidate = @ \/ kind = "command"]
           \in [candidate : BOOLEAN, during : BOOLEAN, timer : BOOLEAN]
      /\ [root EXCEPT !.during = @ /\ left > 0, !.candidate = @ \/ kind = "command"].candidate
           = root.candidate
  BY <1>1
<1> QED
  BY <1>1, <1>2, <1>3, <1>4, CandidateOrigin DEF DeliveryAcknowledged

LEMMA IdleIsStableOrder ==
  ASSUME BatchInv, OrderInv, IdleIsStable
  PROVE  OrderInv'
<1>1. /\ UNCHANGED <<session, admitted, acks, aborted, abort, connection, req, kilo,
                     object, reports, owed, orderly>>
      /\ blocked' = blocked \/ BlockAdmissions
      /\ root'.candidate => root.candidate
  <2>1. root \in [candidate : BOOLEAN, during : BOOLEAN, timer : BOOLEAN]
    BY DEF BatchInv, TypeOK
  <2> QED
    BY <2>1 DEF IdleIsStable, NoIdle
<1>2. InFlight' = InFlight
  BY <1>1, RequestsStay
<1>3. DeliveredAreDone' /\ AbortsBlock'
  BY <1>1, <1>2 DEF OrderInv, DeliveredAreDone, AbortsBlock, BlockAdmissions, object
<1>4. \/ drain' = drain
      \/ /\ drain = NoDrain /\ acks = 0 /\ root.candidate
         /\ drain' = [at |-> "tasks", sealed |-> admitted, run |-> session,
                      completes |-> session # 0 /\ ~aborted]
  BY DEF IdleIsStable, DrainAndClose, BatchIsIdle
<1>5. ASSUME orderly, drain' # drain PROVE InFlight = {}
  <2>1. Cardinality(InFlight) = 0
    BY <1>4, <1>5 DEF OrderInv, InOrder, RequestsAreAwaited
  <2> QED
    BY <2>1, InFlightFinite, BatchAssumption, FS_EmptySet
<1>6. orderly /\ drain' # drain /\ session # 0 => running \subseteq unheard
  BY <1>4 DEF OrderInv, InOrder, CandidateIsIdle
<1>10. drain' # drain => link = "open"
  BY DEF IdleIsStable, BatchIsIdle, Connected
<1>7. (orderly => InOrder)'
  BY <1>1, <1>2, <1>4, <1>5, <1>10
  DEF OrderInv, InOrder, RequestsAreAwaited, SentIsAdmitted, EndsAreTold, CandidateIsIdle,
      connection, kilo, object
<1>8. OwedIsAdmitted'
  BY <1>1, <1>4 DEF OrderInv, OwedIsAdmitted, NoDrain
<1>9. WorkIsDone'
  <2>1. CASE drain' = drain
    BY <1>1, <2>1 DEF OrderInv, WorkIsDone, kilo
  <2>2. CASE drain' # drain
    <3>1. drain'.sealed = admitted /\ drain'.completes = (session # 0 /\ ~aborted)
      BY <1>4, <2>2
    <3>2. orderly /\ session # 0 => running \subseteq unheard
      BY <1>6, <2>2
    <3> QED
      BY <1>1, <3>1, <3>2 DEF WorkIsDone, kilo
  <2> QED
    BY <2>1, <2>2
<1> QED
  BY <1>3, <1>7, <1>8, <1>9 DEF OrderInv

(* The tasks of a sealed batch are over, and then the drain. *)
LEMMA TasksEndOrder ==
  ASSUME BatchInv, OrderInv, TasksEnd
  PROVE  OrderInv'
<1>1. /\ UNCHANGED <<session, admitted, acks, blocked, aborted, abort, link, req, running,
                     unheard, run, acked, orderly>>
      /\ owed' \subseteq owed
  BY DEF TasksEnd, Reported, state, kilo, object
<1>2. /\ drain # NoDrain /\ drain' # NoDrain
      /\ drain'.sealed = drain.sealed /\ drain'.at = "delay"
  BY DEF TasksEnd, BatchInv, TypeOK, NoDrain
<1>3. InFlight' = InFlight
  BY <1>1, RequestsStay
<1>4. DeliveredAreDone' /\ AbortsBlock'
  BY <1>1, <1>3 DEF OrderInv, DeliveredAreDone, AbortsBlock
<1>5. (orderly => InOrder)'
  BY <1>1, <1>2, <1>3
  DEF OrderInv, InOrder, RequestsAreAwaited, SentIsAdmitted, EndsAreTold, CandidateIsIdle
<1>6. OwedIsAdmitted' /\ WorkIsDone'
  BY <1>1, <1>2 DEF OrderInv, OwedIsAdmitted, WorkIsDone
<1> QED
  BY <1>4, <1>5, <1>6 DEF OrderInv

LEMMA DrainEndsOrder ==
  ASSUME BatchInv, OrderInv, DrainEnds
  PROVE  OrderInv'
<1>1. /\ session' = 0 /\ admitted' = {} /\ acks' = 0 /\ drain' = NoDrain
      /\ UNCHANGED <<blocked, aborted, abort, req, running, unheard, run, acked, orderly>>
      /\ owed' = IF link = "closed" THEN owed ELSE {}
  BY DEF DrainEnds, kilo, object
<1>2. InFlight' = InFlight
  BY <1>1, RequestsStay
<1>3. blocked.is
  BY DEF DrainEnds, BatchInv, DrainBlocks
<1>4. DeliveredAreDone' /\ AbortsBlock'
  BY <1>1, <1>2, <1>3 DEF OrderInv, DeliveredAreDone, AbortsBlock
<1>5. orderly => InFlight = {} /\ (~aborted => owed' = {})
  BY <1>1 DEF OrderInv, InOrder, RequestsAreAwaited, EndsAreTold, DrainEnds
<1>6. (orderly => InOrder)'
  BY <1>1, <1>2, <1>5, NoneIsCounted
  DEF InOrder, RequestsAreAwaited, SentIsAdmitted, EndsAreTold, CandidateIsIdle
<1>7. OwedIsAdmitted' /\ WorkIsDone'
  BY <1>1, <1>5 DEF OwedIsAdmitted, WorkIsDone
<1> QED
  BY <1>4, <1>6, <1>7 DEF OrderInv

(* An abort leaves no request in flight, or those it overtook. *)
LEMMA AbortOrder ==
  ASSUME BatchInv, OrderInv, UNCHANGED <<session, req, kilo, run, acked>>,
         aborted', BlockAdmissions, owed' \subseteq owed,
         orderly' => orderly /\ InFlight = {}, acks' \in { acks, 0 },
         root' = NoIdle \/ drain' # NoDrain,
         abort' \in { abort, 0 } \/ (session # 0 /\ abort' = session)
  PROVE  OrderInv'
<1>1. InFlight' = InFlight
  BY RequestsStay
<1>2. blocked'.is
  BY DEF BlockAdmissions
<1>3. session \in { 0, run } /\ run \in Nat
  BY BatchAssumption DEF BatchInv, BlockedKnowsItsRun, TypeOK, Run
<1>4. DeliveredAreDone' /\ AbortsBlock'
  BY <1>1, <1>2, <1>3 DEF OrderInv, DeliveredAreDone, AbortsBlock
<1>5. orderly' => acks' = Cardinality(InFlight)
  BY NoneIsCounted DEF OrderInv, InOrder, RequestsAreAwaited
<1>6. (orderly => InOrder)'
  BY <1>1, <1>5
  DEF OrderInv, InOrder, RequestsAreAwaited, SentIsAdmitted, EndsAreTold, CandidateIsIdle, NoIdle,
      kilo
<1> QED
  BY <1>4, <1>6 DEF OrderInv, OwedIsAdmitted, WorkIsDone

LEMMA DrainBegins ==
  ASSUME NEW batch, NEW b, DrainAndClose(batch, b)
  PROVE  drain' # NoDrain
  BY DEF DrainAndClose, NoDrain

LEMMA AbortsOrder ==
  ASSUME BatchInv, OrderInv, FailsOrKilled \/ AbortBegins \/ Disconnected
  PROVE  OrderInv'
<1>1. CASE FailsOrKilled
  BY <1>1, AbortOrder DEF FailsOrKilled, Aborts, Overtaken, Upset
<1>2. CASE AbortBegins
  BY <1>2, AbortOrder DEF AbortBegins, Overtaken, Upset
<1>3. CASE Disconnected
  BY <1>3, AbortOrder DEF Disconnected, Overtaken, Upset
<1> QED
  BY <1>1, <1>2, <1>3

(* The end of an abort request: it is in order only in the session it found. *)
LEMMA AbortEndsOrder ==
  ASSUME BatchInv, OrderInv, AbortEnds
  PROVE  OrderInv'
<1>1. CASE aborted
  <2>1. drain' # NoDrain
    BY DrainBegins DEF AbortEnds
  <2> QED
    BY <1>1, <2>1, AbortOrder DEF AbortEnds, object
<1>2. CASE ~aborted
  <2>1. ~orderly'
    BY <1>2 DEF AbortEnds, OrderInv, AbortsBlock
  <2>2. DeliveredAreDone' /\ AbortsBlock'
    <3>1. InFlight' = InFlight
      BY RequestsStay DEF AbortEnds
    <3> QED
      BY <1>2, <3>1 DEF AbortEnds, OrderInv, DeliveredAreDone, AbortsBlock, object
  <2> QED
    BY <2>1, <2>2 DEF OrderInv, OwedIsAdmitted, WorkIsDone
<1> QED
  BY <1>1, <1>2

LEMMA ConnectionOrder ==
  ASSUME BatchInv, OrderInv,
         ConnectionLost \/ Reconnected \/ Resubscribes \/ Resubscribed \/ GraceEnds
  PROVE  OrderInv'
<1>1. /\ UNCHANGED <<session, admitted, acks, blocked, aborted, drain, abort, req, running,
                     unheard, run, acked, orderly>>
      /\ owed' \subseteq owed /\ (link' = "closed" => link = "closed")
      /\ root'.candidate = root.candidate
  <2>1. root \in [candidate : BOOLEAN, during : BOOLEAN, timer : BOOLEAN]
    BY DEF BatchInv, TypeOK
  <2> QED
    BY <2>1, CandidateOrigin
    DEF ConnectionLost, Reconnected, Resubscribes, Resubscribed, GraceEnds, SocketOpens, Upset,
        state, lifecycle, connection, kilo, object
<1>2. InFlight' = InFlight
  BY <1>1, RequestsStay
<1>3. DeliveredAreDone' /\ AbortsBlock'
  BY <1>1, <1>2 DEF OrderInv, DeliveredAreDone, AbortsBlock
<1>4. (orderly => InOrder)'
  BY <1>1, <1>2
  DEF OrderInv, InOrder, RequestsAreAwaited, SentIsAdmitted, EndsAreTold, CandidateIsIdle
<1>5. OwedIsAdmitted' /\ WorkIsDone'
  BY <1>1 DEF OrderInv, OwedIsAdmitted, WorkIsDone
<1> QED
  BY <1>3, <1>4, <1>5 DEF OrderInv

LEMMA TurnEndsOrder ==
  ASSUME BatchInv, OrderInv, TurnEnds
  PROVE  OrderInv'
<1>1. /\ UNCHANGED <<session, admitted, acks, blocked, aborted, drain, abort, link, req,
                     run, acked, owed, orderly>>
      /\ running' = {}
  BY DEF TurnEnds, state, connection, object
<1>2. InFlight' = InFlight
  BY <1>1, RequestsStay
<1>3. DeliveredAreDone' /\ AbortsBlock'
  BY <1>1, <1>2 DEF OrderInv, DeliveredAreDone, AbortsBlock
<1>4. (orderly => InOrder)'
  BY <1>1, <1>2
  DEF OrderInv, InOrder, RequestsAreAwaited, SentIsAdmitted, EndsAreTold, CandidateIsIdle
<1>5. OwedIsAdmitted' /\ WorkIsDone'
  BY <1>1 DEF OrderInv, OwedIsAdmitted, WorkIsDone
<1> QED
  BY <1>3, <1>4, <1>5 DEF OrderInv

(* A request is in order when nothing it could overtake is in flight. *)
LEMMA RequestOrder ==
  ASSUME BatchInv, OrderInv, NEW m \in Message, NEW kind \in Kind, Request(m, kind)
  PROVE  OrderInv'
<1> DEFINE new == [at |-> "preparing", kind |-> kind, added |-> FALSE]
<1>1. /\ req[m] = Away /\ m \notin acked /\ new # Away
      /\ req' = [req EXCEPT ![m] = new] /\ acks' = acks + 1
      /\ UNCHANGED <<session, admitted, blocked, root, aborted, drain, abort, link, running,
                     unheard, run, acked, owed>>
      /\ session # 0 /\ ~blocked.is
  BY DEF Request, Away, kilo, lifecycle, connection
<1>2. InFlight' = InFlight \cup { m } /\ m \notin InFlight
  BY <1>1 DEF InFlight, BatchInv, TypeOK
<1>3. \A i \in InFlight : req'[i] = req[i]
  BY <1>1, <1>2 DEF BatchInv, TypeOK
<1>4. req'[m] = new
  BY <1>1 DEF BatchInv, TypeOK
<1>5. orderly' => orderly /\ \A i \in InFlight : kind = "prompt" /\ req[i].kind = "prompt"
  BY <1>2 DEF Request
<1>6. Cardinality(InFlight') = Cardinality(InFlight) + 1
  BY <1>2, InFlightFinite, BatchAssumption, FS_AddElement
<1>7. ~aborted /\ drain = NoDrain
  BY <1>1 DEF OrderInv, AbortsBlock, BatchInv, DrainBlocks
<1>8. DeliveredAreDone' /\ AbortsBlock'
  BY <1>1, <1>2 DEF OrderInv, DeliveredAreDone, AbortsBlock
<1>9. orderly' => RequestsAreAwaited'
  BY <1>1, <1>2, <1>3, <1>4, <1>5, <1>6, <1>7 DEF OrderInv, InOrder, RequestsAreAwaited
<1>10. orderly' => SentIsAdmitted' /\ EndsAreTold' /\ CandidateIsIdle'
  BY <1>1, <1>2, <1>3, <1>4, <1>5, <1>7
  DEF OrderInv, InOrder, SentIsAdmitted, EndsAreTold, CandidateIsIdle
<1>11. OwedIsAdmitted' /\ WorkIsDone'
  BY <1>1, <1>5, <1>7 DEF OrderInv, OwedIsAdmitted, WorkIsDone
<1> QED
  BY <1>8, <1>9, <1>10, <1>11 DEF OrderInv, InOrder

(* A binding finds a session that is neither sealed nor aborted, or one that *)
(* ended and told its ends, or gives the messages of the last run up.        *)
LEMMA BindOrder ==
  ASSUME BatchInv, OrderInv, NEW r \in { run, run + 1 } \cap Run,
         NEW refreshed \in BOOLEAN, Bind(r, refreshed)
  PROVE  OrderInv'
<1>1. /\ UNCHANGED <<admitted, acks, abort, req, running, unheard, acked>>
      /\ session' = r /\ run' = r
      /\ aborted' = FALSE /\ root' = NoIdle /\ drain' = NoDrain
      /\ owed' = (IF r = run THEN owed ELSE {})
      /\ blocked.is => session = 0 /\ r # blocked.run /\ blocked.run # 0
  BY DEF Bind, LifecycleResets, IsFreshRun
<1>2. InFlight' = InFlight
  BY <1>1, RequestsStay
<1>3. run \in Nat \ {0} /\ r \in Nat \ {0} /\ run <= r /\ session \in { 0, run }
      /\ (r = run \/ r = run + 1)
  BY BatchAssumption DEF BatchInv, BlockedKnowsItsRun, TypeOK, Run
<1>4. orderly' => orderly /\ (session # r => InFlight = {})
  BY DEF Bind
<1>5. blocked.is => r = run + 1
  BY <1>1, <1>3 DEF BatchInv, BlockedKnowsItsRun
<1>6. r = run => ~blocked.is /\ ~aborted
  BY <1>3, <1>5 DEF OrderInv, AbortsBlock
<1>7. abort # 0 => abort < r
  <2>1. CASE r = run + 1
    BY <1>3, <2>1 DEF OrderInv, AbortsBlock, BatchInv, TypeOK
  <2>2. CASE r = run
    BY <1>3, <1>6, <2>2 DEF OrderInv, AbortsBlock, BatchInv, TypeOK
  <2> QED
    BY <1>3, <2>1, <2>2
<1>8. DeliveredAreDone' /\ AbortsBlock'
  BY <1>1, <1>2, <1>3, <1>7 DEF OrderInv, DeliveredAreDone, AbortsBlock, BatchInv, TypeOK
<1>9. orderly' => RequestsAreAwaited'
  BY <1>1, <1>2, <1>3, <1>4 DEF OrderInv, InOrder, RequestsAreAwaited
<1>10. orderly' => SentIsAdmitted' /\ EndsAreTold' /\ CandidateIsIdle'
  BY <1>1, <1>2, <1>3, <1>4
  DEF OrderInv, InOrder, SentIsAdmitted, EndsAreTold, CandidateIsIdle, NoIdle
<1>11. orderly' /\ r = run => owed \subseteq admitted
  <2>1. CASE session = 0
    BY <1>4, <1>6, <2>1 DEF OrderInv, InOrder, EndsAreTold
  <2>2. CASE session # 0
    BY <1>4, <1>6, <2>2 DEF OrderInv, OwedIsAdmitted, BatchInv, DrainBlocks
  <2> QED
    BY <2>1, <2>2
<1>12. OwedIsAdmitted' /\ WorkIsDone'
  BY <1>1, <1>11 DEF OwedIsAdmitted, WorkIsDone
<1> QED
  BY <1>8, <1>9, <1>10, <1>12 DEF OrderInv, InOrder

(* A request goes on while the batch is neither sealed nor aborted. *)
LEMMA AdvanceOrder ==
  ASSUME BatchInv, OrderInv, NEW m \in Message, NEW new, new # Away, req[m] # Away,
         req' = [req EXCEPT ![m] = new], new.kind = req[m].kind,
         UNCHANGED <<session, acks, blocked, aborted, drain, abort, run, acked, orderly>>,
         owed' \subseteq owed,
         admitted \subseteq admitted', link' = "closed" => link = "closed",
         \/ new.at \in { "sending", "taken" }
         \/ new.at \in { "opening", "attaching" } /\ new.kind = "command"
         => m \in admitted',
         \/ UNCHANGED <<running, unheard, root>> /\ new.at # "taken"
         \/ /\ running' = running \cup { m }
            /\ root' = NoIdle \/ (root' = root /\ unheard' = unheard \cup { m })
  PROVE  OrderInv'
<1>1. InFlight' = InFlight /\ m \in InFlight
  BY ProgressIsCounted DEF BatchInv, InFlight
<1>2. req'[m] = new /\ \A i \in Message : i # m => req'[i] = req[i]
  BY DEF BatchInv, TypeOK
<1>3. InFlight \subseteq Message
  BY DEF InFlight
<1>4. DeliveredAreDone' /\ AbortsBlock'
  BY <1>1 DEF OrderInv, DeliveredAreDone, AbortsBlock
<1>5. orderly => drain = NoDrain /\ ~aborted /\ session # 0
  BY <1>1 DEF OrderInv, InOrder, RequestsAreAwaited
<1>6. orderly => RequestsAreAwaited'
  BY <1>1, <1>2, <1>3 DEF OrderInv, InOrder, RequestsAreAwaited
<1>7. orderly => SentIsAdmitted' /\ EndsAreTold'
  BY <1>1, <1>2, <1>3 DEF OrderInv, InOrder, SentIsAdmitted, EndsAreTold
<1>8. orderly => CandidateIsIdle'
  <2> SUFFICES ASSUME orderly PROVE CandidateIsIdle'
    OBVIOUS
  <2>1. root'.candidate => running' \subseteq unheard'
    BY <1>5 DEF OrderInv, InOrder, CandidateIsIdle, NoIdle
  <2>2. ASSUME NEW i \in InFlight, req'[i].kind = "command", req'[i].at = "taken"
        PROVE  i \in running' \/ running' = {}
    <3>1. i = m
      BY <1>1, <1>2, <1>3, <2>2 DEF OrderInv, InOrder, RequestsAreAwaited
    <3> QED
      BY <1>2, <2>2, <3>1
  <2> QED
    BY <1>1, <2>1, <2>2 DEF CandidateIsIdle
<1>9. OwedIsAdmitted' /\ WorkIsDone'
  BY <1>5 DEF OrderInv, OwedIsAdmitted, WorkIsDone
<1> QED
  BY <1>4, <1>6, <1>7, <1>8, <1>9 DEF OrderInv, InOrder

AddedAt(request, at, added) == [request EXCEPT !.at = at, !.added = added]

LEMMA RequestRecord ==
  ASSUME BatchInv, NEW m \in Message, req[m] # Away, NEW at \in { "opening", "attaching", "sending", "taken" },
         NEW added \in BOOLEAN
  PROVE  /\ \E new : /\ new = [req[m] EXCEPT !.at = at]
                     /\ new # Away /\ new.kind = req[m].kind /\ new.at = at
         /\ \E new : /\ new = AddedAt(req[m], at, added)
                     /\ new # Away /\ new.kind = req[m].kind /\ new.at = at
<1>1. req[m] \in [at : {"preparing", "opening", "attaching", "sending", "taken"}, kind : Kind, added : BOOLEAN]
  BY DEF BatchInv, TypeOK
<1>2. [req[m] EXCEPT !.at = at] \in [at : {"opening", "attaching", "sending", "taken"}, kind : Kind, added : BOOLEAN]
  BY <1>1
<1>3. [req[m] EXCEPT !.at = at, !.added = added]
        \in [at : {"opening", "attaching", "sending", "taken"}, kind : Kind, added : BOOLEAN]
  BY <1>1
<1>4. Away \notin [at : {"opening", "attaching", "sending", "taken"}, kind : Kind, added : BOOLEAN]
  BY DEF Away
<1>5. [req[m] EXCEPT !.at = at].kind = req[m].kind /\ [req[m] EXCEPT !.at = at].at = at
  BY <1>1
<1>6. /\ [req[m] EXCEPT !.at = at, !.added = added].kind = req[m].kind
      /\ [req[m] EXCEPT !.at = at, !.added = added].at = at
  BY <1>1
<1> QED
  BY <1>2, <1>3, <1>4, <1>5, <1>6 DEF AddedAt

LEMMA AcceptedOrder ==
  ASSUME BatchInv, OrderInv, NEW m \in Message, req[m] # Away,
         NEW at \in { "opening", "sending" }, Accepted(m, at),
         UNCHANGED <<session, acks, blocked, aborted, drain, abort, run, acked, owed, orderly,
                     running, unheard, root>>,
         link' = "closed" => link = "closed"
  PROVE  OrderInv'
<1>1. PICK added \in BOOLEAN : added = (m \notin admitted)
  OBVIOUS
<1>2. PICK new : /\ new = AddedAt(req[m], at, added)
                 /\ new # Away /\ new.kind = req[m].kind /\ new.at = at
  BY RequestRecord
<1>3. admitted' = admitted \cup { m } /\ req' = [req EXCEPT ![m] = new]
  BY <1>1, <1>2 DEF Accepted, AddedAt
<1> QED
  BY <1>2, <1>3, AdvanceOrder

LEMMA PreparedOrder ==
  ASSUME BatchInv, OrderInv, NEW m \in Message, Prepared(m)
  PROVE  OrderInv'
<1>1. /\ UNCHANGED <<session, acks, blocked, aborted, drain, abort, run, acked, owed, orderly,
                     running, unheard, root, link>>
      /\ req[m] # Away
  BY DEF Prepared, lifecycle, connection, kilo, object
<1>2. CASE Accepted(m, "sending") \/ Accepted(m, "opening")
  BY <1>1, <1>2, AcceptedOrder
<1>3. CASE /\ req[m].kind # "command" /\ req' = [req EXCEPT ![m].at = "opening"]
           /\ UNCHANGED admitted
  <2>1. PICK new : /\ new = [req[m] EXCEPT !.at = "opening"]
                   /\ new # Away /\ new.kind = req[m].kind /\ new.at = "opening"
    BY <1>1, RequestRecord
  <2>2. req' = [req EXCEPT ![m] = new]
    BY <1>3, <2>1
  <2> QED
    BY <1>1, <1>3, <2>1, <2>2, AdvanceOrder
<1> QED
  BY <1>2, <1>3 DEF Prepared

(* The steps of a request whose message is admitted by then. *)
LEMMA SentOrder ==
  ASSUME BatchInv, OrderInv, NEW m \in Message, req[m] # Away,
         NEW at \in { "attaching", "sending" }, req' = [req EXCEPT ![m].at = at],
         \/ at = "attaching" /\ req[m].at = "opening"
         \/ at = "sending" /\ req[m].at = "attaching" /\ req[m].kind = "command",
         UNCHANGED <<session, admitted, acks, blocked, aborted, drain, abort, run, acked, orderly,
                     running, unheard, root>>,
         owed' \subseteq owed, link' = "closed" => link = "closed"
  PROVE  OrderInv'
<1>5. at \in { "opening", "attaching", "sending", "taken" } /\ FALSE \in BOOLEAN
  OBVIOUS
<1>1. PICK new : /\ new = [req[m] EXCEPT !.at = at]
                 /\ new # Away /\ new.kind = req[m].kind /\ new.at = at
  BY <1>5, RequestRecord
<1>2. req' = [req EXCEPT ![m] = new]
  BY <1>1
<1>3. CASE orderly
  <2>1. req[m].kind = "command" => m \in admitted
    BY <1>3 DEF OrderInv, InOrder, SentIsAdmitted, InFlight
  <2>2. \/ new.at \in { "sending", "taken" }
        \/ new.at \in { "opening", "attaching" } /\ new.kind = "command"
        => m \in admitted
    BY <1>1, <2>1
  <2> QED
    BY <1>1, <1>2, <2>2, AdvanceOrder
<1>4. CASE ~orderly
  <2>1. InFlight' = InFlight
    BY <1>1, <1>2, ProgressIsCounted DEF BatchInv
  <2> QED
    BY <1>4, <2>1 DEF OrderInv, DeliveredAreDone, AbortsBlock, OwedIsAdmitted, WorkIsDone
<1> QED
  BY <1>3, <1>4

LEMMA AttachesOrder ==
  ASSUME BatchInv, OrderInv, NEW m \in Message, Attaches(m)
  PROVE  OrderInv'
<1>1. /\ UNCHANGED <<session, admitted, acks, blocked, aborted, drain, abort, run, acked, orderly,
                     running, unheard, root>>
      /\ req[m] # Away /\ req[m].at = "opening" /\ req' = [req EXCEPT ![m].at = "attaching"]
      /\ owed' \subseteq owed /\ link' = "open"
  BY DEF Attaches, SocketOpens, state, lifecycle, kilo, object
<1> QED
  BY <1>1, SentOrder

LEMMA OpenedOrder ==
  ASSUME BatchInv, OrderInv, NEW m \in Message, Opened(m)
  PROVE  OrderInv'
<1>1. /\ UNCHANGED <<session, acks, blocked, aborted, drain, abort, run, acked, owed, orderly,
                     running, unheard, root, link>>
      /\ req[m] # Away /\ req[m].at = "attaching"
  BY DEF Opened, lifecycle, kilo, object
<1>2. CASE Accepted(m, "sending")
  BY <1>1, <1>2, AcceptedOrder
<1>3. CASE /\ req[m].kind # "prompt" /\ req' = [req EXCEPT ![m].at = "sending"]
           /\ UNCHANGED admitted
  <2>1. req[m].kind = "command"
    BY <1>1, <1>3, BatchAssumption DEF BatchInv, TypeOK
  <2> QED
    BY <1>1, <1>3, <2>1, SentOrder
<1> QED
  BY <1>2, <1>3 DEF Opened

LEMMA TakesOrder ==
  ASSUME BatchInv, OrderInv, NEW m \in Message, Takes(m)
  PROVE  OrderInv'
<1>1. /\ UNCHANGED <<session, admitted, acks, blocked, aborted, drain, abort, link, run, acked,
                     owed, orderly>>
      /\ req[m] # Away /\ req[m].at = "sending" /\ running' = running \cup { m }
      /\ root' = NoIdle \/ (root' = root /\ unheard' = unheard \cup { m })
  BY DEF Takes, RootActivity, state, connection, object
<1>2. PICK new : /\ new = [req[m] EXCEPT !.at = "taken"]
                 /\ new # Away /\ new.kind = req[m].kind /\ new.at = "taken"
  BY <1>1, RequestRecord
<1>3. req' = [req EXCEPT ![m] = new]
  BY <1>2 DEF Takes
<1>4. CASE orderly
  <2>1. m \in admitted
    BY <1>1, <1>4 DEF OrderInv, InOrder, SentIsAdmitted, InFlight
  <2> QED
    BY <1>1, <1>2, <1>3, <2>1, AdvanceOrder
<1>5. CASE ~orderly
  <2>1. InFlight' = InFlight
    BY <1>1, <1>2, <1>3, ProgressIsCounted DEF BatchInv
  <2> QED
    BY <1>1, <1>5, <2>1 DEF OrderInv, DeliveredAreDone, AbortsBlock, OwedIsAdmitted, WorkIsDone
<1> QED
  BY <1>4, <1>5

(* A request is over, with or without an answer. *)
LEMMA EndOrder ==
  ASSUME BatchInv, OrderInv, NEW m \in Message,
         PrepareFails(m) \/ OpenFails(m) \/ SendFails(m) \/ Answered(m)
  PROVE  OrderInv'
<1>1. /\ UNCHANGED <<session, blocked, aborted, drain, abort, running, unheard, run, orderly>>
      /\ req[m] # Away /\ req' = [req EXCEPT ![m] = Away] /\ acks' = EndDelivery
  BY DEF PrepareFails, OpenFails, SendFails, Answered, Fails, Acknowledged, kilo, object
<1>2. InFlight' = InFlight \ { m } /\ m \in InFlight /\ m \notin acked
  BY <1>1 DEF InFlight, BatchInv, TypeOK, OrderInv, DeliveredAreDone
<1>3. \A i \in InFlight' : req'[i] = req[i] /\ i \in InFlight
  BY <1>1, <1>2 DEF BatchInv, TypeOK, InFlight
<1>4. Cardinality(InFlight') = Cardinality(InFlight) - 1 /\ Cardinality(InFlight) \in Nat
  BY <1>2, InFlightFinite, BatchAssumption, FS_RemoveElement
<1>5. /\ admitted \ { m } \subseteq admitted'
      /\ \/ UNCHANGED acked /\ owed' \subseteq owed
         \/ /\ Answered(m) /\ UNCHANGED admitted
            /\ acked' = acked \cup { m } /\ owed' \subseteq owed \cup { m }
  BY DEF PrepareFails, OpenFails, SendFails, Answered, Fails, object
<1>6. DeliveredAreDone' /\ AbortsBlock'
  BY <1>1, <1>2, <1>5 DEF OrderInv, DeliveredAreDone, AbortsBlock
<1>7. orderly => drain = NoDrain /\ ~aborted /\ session # 0
  BY <1>2 DEF OrderInv, InOrder, RequestsAreAwaited
<1>8. orderly => RequestsAreAwaited'
  <2>1. Cardinality(InFlight') \in Nat
    BY <1>2, InFlightFinite, BatchAssumption, FS_Subset, FS_CardinalityType
  <2>2. orderly => acks = Cardinality(InFlight)
    BY DEF OrderInv, InOrder, RequestsAreAwaited
  <2>3. orderly => acks' = Cardinality(InFlight')
    BY <1>1, <1>4, <2>1, <2>2 DEF EndDelivery
  <2> QED
    BY <1>1, <1>2, <1>3, <1>7, <2>3 DEF OrderInv, InOrder, RequestsAreAwaited
<1>9. orderly => SentIsAdmitted' /\ EndsAreTold'
  BY <1>1, <1>2, <1>3, <1>5, <1>7 DEF OrderInv, InOrder, SentIsAdmitted, EndsAreTold
<1>10. orderly => CandidateIsIdle'
  <2> SUFFICES ASSUME orderly PROVE CandidateIsIdle'
    OBVIOUS
  <2>1. EndDelivery \in Nat /\ TypeOK
    BY InFlightFinite, BatchAssumption DEF EndDelivery, BatchInv, TypeOK
  <2>2. PICK kind, batch : /\ root' = DeliveryAcknowledged(kind, EndDelivery, batch)
                           /\ kind = "command" => Answered(m) /\ req[m].kind = "command"
    <3>1. CASE PrepareFails(m) \/ OpenFails(m) \/ SendFails(m)
      <4>1. root' = DeliveryAcknowledged("failed", EndDelivery, admitted')
        BY <3>1 DEF PrepareFails, OpenFails, SendFails, Fails, Acknowledged
      <4> QED
        BY <4>1
    <3>2. CASE Answered(m)
      <4>1. root' = DeliveryAcknowledged(req[m].kind, EndDelivery, admitted)
        BY <3>2 DEF Answered, Acknowledged
      <4> QED
        BY <3>2, <4>1
    <3> QED
      BY <3>1, <3>2
  <2>3. kind # "command" /\ root'.candidate => root.candidate
    BY <2>1, <2>2, AcknowledgedCandidate
  <2>4. kind = "command" => running = {}
    BY <1>2, <2>2 DEF Answered, OrderInv, InOrder, CandidateIsIdle
  <2>5. root'.candidate => running \subseteq unheard
    BY <1>7, <2>3, <2>4 DEF OrderInv, InOrder, CandidateIsIdle
  <2> QED
    BY <1>1, <1>3, <2>5 DEF OrderInv, InOrder, CandidateIsIdle
<1>11. OwedIsAdmitted'
  <2> SUFFICES ASSUME orderly PROVE owed' \subseteq admitted'
    BY <1>1, <1>7 DEF OwedIsAdmitted
  <2>1. owed \subseteq admitted /\ m \notin owed
    BY <1>2, <1>7 DEF OrderInv, OwedIsAdmitted, BatchInv, TypeOK
  <2>2. Answered(m) => m \in admitted
    BY <1>2 DEF Answered, OrderInv, InOrder, SentIsAdmitted
  <2> QED
    BY <1>5, <2>1, <2>2
<1>12. WorkIsDone'
  BY <1>1, <1>7 DEF WorkIsDone
<1> QED
  BY <1>1, <1>6, <1>8, <1>9, <1>10, <1>11, <1>12 DEF OrderInv, InOrder

LEMMA OrderHolds == Spec => [](BatchInv /\ OrderInv)
<1>1. Init => OrderInv
  <2> SUFFICES ASSUME Init PROVE OrderInv
    OBVIOUS
  <2>1. InFlight = {}
    BY DEF Init, InFlight
  <2>2. DeliveredAreDone /\ AbortsBlock /\ InOrder
    BY <2>1, NoneIsCounted
    DEF Init, DeliveredAreDone, AbortsBlock, InOrder, RequestsAreAwaited, SentIsAdmitted,
        EndsAreTold, CandidateIsIdle
  <2> QED
    BY <2>2 DEF Init, OrderInv, OwedIsAdmitted, WorkIsDone
<1>2. BatchInv /\ OrderInv /\ [Next]_vars => OrderInv'
  <2> SUFFICES ASSUME BatchInv, OrderInv, [Next]_vars PROVE OrderInv'
    OBVIOUS
  <2>1. CASE IdleIsStable \/ TasksEnd \/ DrainEnds
    BY <2>1, IdleIsStableOrder, TasksEndOrder, DrainEndsOrder
  <2>2. CASE FailsOrKilled \/ AbortBegins \/ AbortEnds \/ Disconnected
    BY <2>2, AbortsOrder, AbortEndsOrder
  <2>3. CASE \/ ConnectionLost \/ Reconnected \/ Resubscribes \/ Resubscribed \/ GraceEnds
             \/ TurnEnds
    BY <2>3, ConnectionOrder, TurnEndsOrder
  <2>4. ASSUME NEW m \in Message, NEW kind \in Kind, Request(m, kind)
        PROVE  OrderInv'
    BY <2>4, RequestOrder
  <2>7. ASSUME NEW r \in { run, run + 1 } \cap Run, NEW refreshed \in BOOLEAN,
               Bind(r, refreshed)
        PROVE  OrderInv'
    BY <2>7, BindOrder
  <2>5. ASSUME NEW m \in Message, Progress(m) PROVE OrderInv'
    BY <2>5, PreparedOrder, AttachesOrder, OpenedOrder, TakesOrder, EndOrder DEF Progress
  <2>6. CASE UNCHANGED vars
    <3>1. InFlight' = InFlight
      BY <2>6, RequestsStay DEF vars
    <3> QED
      BY <2>6, <3>1
      DEF vars, state, lifecycle, connection, kilo, object, OrderInv, DeliveredAreDone,
          AbortsBlock, InOrder, RequestsAreAwaited, SentIsAdmitted, EndsAreTold,
          CandidateIsIdle, OwedIsAdmitted, WorkIsDone
  <2> QED
    BY <2>1, <2>2, <2>3, <2>4, <2>5, <2>6, <2>7 DEF Next
<1> QED
  BY <1>1, <1>2, InitHolds, StepHolds, PTL DEF Spec

(* As long as the object waits for the end of a message it was told is sent, *)
(* the batch, or what was sealed of it, holds the message.                   *)
THEOREM OwedStaysAdmitted == Spec => []OwedIsAdmitted
<1>1. OrderInv => OwedIsAdmitted
  BY DEF OrderInv
<1> QED
  BY <1>1, OrderHolds, PTL

(* A batch is only sealed for completion when kilo is done with it, but for  *)
(* what it took while nobody heard.                                          *)
THEOREM SealedWorkIsDone == Spec => []WorkIsDone
<1>1. OrderInv => WorkIsDone
  BY DEF OrderInv
<1> QED
  BY <1>1, OrderHolds, PTL
=============================================================================
