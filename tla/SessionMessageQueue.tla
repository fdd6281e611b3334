-------------------------- MODULE SessionMessageQueue --------------------------
(***************************************************************************)
(* The message queue of one CloudAgentSession Durable Object: admission,   *)
(* the alarm's drain, interruption and cancellation of pending messages,   *)
(* and the wrapper's terminal events, all over the same storage            *)
(* (session/session-message-queue.ts, session/pending-messages.ts,         *)
(* session/session-message-state.ts, persistence/CloudAgentSession.ts).    *)
(*                                                                         *)
(* A Durable Object delivers no other event to a handler that waits only   *)
(* for storage (the input gate), so a handler runs alone from one external *)
(* await to the next; "gate" holds the handler that is between two durable *)
(* writes of such a segment.  At an external await the gate opens and the  *)
(* other handlers run.  A crash may fall anywhere, also between two writes *)
(* of one segment: it keeps the storage and drops every handler.           *)
(*                                                                         *)
(* A message stands for a message id with the intent it was submitted      *)
(* with; a replay with another intent is refused and changes nothing.      *)
(***************************************************************************)
EXTENDS PendingFlushPolicy, FiniteSets

CONSTANTS
  Message,         \* the messages clients submit
  Caller,          \* concurrent admission calls
  Limit,           \* PENDING_SESSION_MESSAGE_LIMIT
  BillingChecked,  \* container billing is enabled: admission awaits its answer
  CloneReporting,  \* a cloned session reports: admission is one transaction
  Failures,        \* what a failed delivery may report: code and retryable flag
  MaxRows,         \* bound: pending rows ever written by admissions
  MaxInterrupts,   \* bound: interrupt calls
  MaxCrashes       \* bound: crashes of the object

ASSUME QueueAssumption ==
  /\ Caller \cap { "open", "alarm", "interrupt", "cancel", "ingest" } = {}
  /\ Limit \in Nat \ {0}
  /\ BillingChecked \in BOOLEAN /\ CloneReporting \in BOOLEAN
  /\ Failures \subseteq FailureCode \X Overrides
  /\ MaxRows \in Nat /\ MaxInterrupts \in Nat /\ MaxCrashes \in Nat

VARIABLES
  (* storage *)
  rows,            \* pending_message:<at>:<msg> rows
  state,           \* session_message:<msg> states
  marker,          \* session_message_interrupt_pending_batch, or NoMarker
  events,          \* the idempotent queued, sent and canceled events
  finalizing,      \* the wrapper run refuses new prompts while it finalizes
  (* the wrapper *)
  wrapper,         \* messages the current wrapper run was given, not reported
  (* handlers in progress *)
  gate,            \* the handler inside a storage segment, or "open"
  adm,             \* admission calls
  drain,           \* the alarm handler and the row it flushes
  settle,          \* interruption of pending messages, by an RPC or by the alarm
  cancel,          \* the cancelQueuedMessage call
  ingest,          \* the wrapper terminal event being applied
  (* history and bounds *)
  acked, clock, interrupts, crashes

storage == <<rows, state, marker, events, finalizing>>
handlers == <<adm, drain, settle, cancel, ingest>>
bounds == <<clock, interrupts, crashes>>
vars == <<storage, wrapper, gate, handlers, acked, bounds>>

Terminal == { "completed", "failed", "interrupted" }

Source == { None, "canceled", "interrupt", "delivery_failure", "run" }

MessageState == [ status : {"none", "queued", "accepted"} \cup Terminal,
                  source : Source ]

Row == [ at : Nat, msg : Message, delivery : Delivery ]

NoMarker == [ set |-> FALSE, msgs |-> {} ]

NoRow == [ at |-> 0, msg |-> None, delivery |-> NewDelivery ]

Settler == { "interrupt", "alarm" }

IdleCall == [ pc |-> "idle", msg |-> None ]

IdleDrain == [ pc |-> "idle", row |-> NoRow ]

IdleSettle == [ pc |-> "idle", todo |-> {}, live |-> {}, captured |-> {} ]

-----------------------------------------------------------------------------
(* Storage helpers. *)

Messages(rs) == { r.msg : r \in rs }

(* Mutant: the list is in the opposite order. *)
Newest(rs) == { r \in rs : \A q \in rs : q.at <= r.at }

(* listPendingSessionMessages is in key order, the order of admission. *)
Oldest(rs) == { r \in rs : \A q \in rs : r.at <= q.at }

(* Mutant: a row that was written back after a failure is not found. *)
WithoutNewMessage(rs, m) == { r \in rs : r.msg # m \/ r.delivery.attempts > 0 }

(* deletePendingSessionMessageByMessageId: every row of the message. *)
WithoutMessage(rs, m) == { r \in rs : r.msg # m }

(* Mutant: the old row is deleted and the new one never written. *)
ReplaceRowByNothing(rs, previous, delivery) == WithoutMessage(rs, previous.msg)

(* Mutant: the new row gets a key of its own and the old one stays. *)
ReplaceRowBesides(rs, previous, delivery) ==
  rs \cup { [ at |-> previous.at + 1, msg |-> previous.msg, delivery |-> delivery ] }

(* replaceStoredPendingSessionMessage: under the key of the row it updates,  *)
(* else under that of another row of the message, else under its old key    *)
(* again, whether or not that row still exists.                             *)
ReplaceRow(rs, previous, delivery) ==
  LET mine == { r \in rs : r.msg = previous.msg }
      at == IF previous.at \in { r.at : r \in mine } \/ mine = {}
              THEN previous.at ELSE CHOOSE at \in { r.at : r \in mine } : TRUE
  IN WithoutMessage(rs, previous.msg)
       \cup { [ at |-> at, msg |-> previous.msg, delivery |-> delivery ] }

Put(m, status, source) ==
  state' = [state EXCEPT ![m] = [status |-> status, source |-> source]]

(* createQueuedSessionMessageState: written whatever was there before. *)
PutQueued(m) == Put(m, "queued", None)

(* Mutant: the last outcome wins. *)
TerminalizeAgain(m, status, source) == Put(m, status, source)

(* Mutant: only a queued message is settled. *)
TerminalizeQueued(m, status, source) ==
  IF state[m].status = "queued" THEN Put(m, status, source) ELSE UNCHANGED state

(* terminalizeMessageOnce and markMessageInterrupted: a terminal message     *)
(* stays as it is, a missing one stays missing.                             *)
TerminalizeOnce(m, status, source) ==
  IF state[m].status \in {"queued", "accepted"}
    THEN Put(m, status, source)
    ELSE UNCHANGED state

(* Mutant: no event is repaired. *)
NoSentEvent(m) == events

(* ensureAcceptedMessageEffects for a message found accepted. *)
SentEvent(m) ==
  IF state[m].status = "accepted" THEN events \cup { <<"sent", m>> } ELSE events

Accepted == { m \in Message : state[m].status = "accepted" }

(* A handler takes a step when no other handler is inside a segment. *)
CanRun(h) == gate \in {"open", h}

-----------------------------------------------------------------------------
Init ==
  /\ rows = {}
  /\ state = [m \in Message |-> [status |-> "none", source |-> None]]
  /\ marker = NoMarker
  /\ events = {}
  /\ finalizing = FALSE
  /\ wrapper = {}
  /\ gate = "open"
  /\ adm = [c \in Caller |-> IdleCall]
  /\ drain = IdleDrain
  /\ settle = [s \in Settler |-> IdleSettle]
  /\ cancel = IdleCall
  /\ ingest = IdleCall
  /\ acked = {}
  /\ clock = 0
  /\ interrupts = 0
  /\ crashes = 0

-----------------------------------------------------------------------------
(* Admission: admitSubmittedMessage.  A terminal or accepted message, or a   *)
(* full queue, is answered without a write.                                 *)

AdmissionGoesTo(c, pc, m) == adm' = [adm EXCEPT ![c] = [pc |-> pc, msg |-> m]]

(* A replay of a queued message repairs its queued event and drain. *)
AdmitReplay(c, m) ==
  /\ gate = "open" /\ adm[c].pc = "idle"
  /\ state[m].status = "queued"
  /\ AdmissionGoesTo(c, "effects", m)
  /\ gate' = c
  /\ UNCHANGED <<storage, wrapper, drain, settle, cancel, ingest, acked, bounds>>

(* A pending row without a state: an earlier call crashed in between. *)
AdmitRepair(c, m) ==
  /\ gate = "open" /\ adm[c].pc = "idle"
  /\ state[m].status = "none" /\ m \in Messages(rows)
  /\ PutQueued(m)
  /\ AdmissionGoesTo(c, "effects", m)
  /\ gate' = c
  /\ UNCHANGED <<rows, marker, events, finalizing, wrapper,
                 drain, settle, cancel, ingest, acked, bounds>>

(* Mutant: a full queue takes one message more. *)
HasCapacityOffByOne == Cardinality(rows) <= Limit

HasCapacity == Cardinality(rows) < Limit

RowsReserved == Cardinality({ c \in Caller : adm[c].pc \in {"billing", "row"} })

(* A new message: the capacity check, then the billing check if enabled. *)
AdmitCheck(c, m) ==
  /\ gate = "open" /\ adm[c].pc = "idle"
  /\ state[m].status = "none" /\ m \notin Messages(rows)
  /\ HasCapacity
  /\ clock + RowsReserved < MaxRows
  /\ AdmissionGoesTo(c, IF BillingChecked THEN "billing" ELSE "row", m)
  /\ gate' = IF BillingChecked THEN "open" ELSE c
  /\ UNCHANGED <<storage, wrapper, drain, settle, cancel, ingest, acked, bounds>>

BillingDenies(c) ==
  /\ gate = "open" /\ adm[c].pc = "billing"
  /\ adm' = [adm EXCEPT ![c] = IdleCall]
  /\ UNCHANGED <<storage, wrapper, gate, drain, settle, cancel, ingest, acked, bounds>>

AdmitPutRow(c) ==
  /\ ~ CloneReporting
  /\ CanRun(c) /\ adm[c].pc \in {"billing", "row"}
  /\ clock' = clock + 1
  /\ rows' = rows \cup
       { [ at |-> clock + 1, msg |-> adm[c].msg, delivery |-> NewDelivery ] }
  /\ AdmissionGoesTo(c, "state", adm[c].msg)
  /\ gate' = c
  /\ UNCHANGED <<state, marker, events, finalizing, wrapper, drain, settle,
                 cancel, ingest, acked, interrupts, crashes>>

AdmitPutState(c) ==
  /\ gate = c /\ adm[c].pc = "state"
  /\ PutQueued(adm[c].msg)
  /\ AdmissionGoesTo(c, "effects", adm[c].msg)
  /\ UNCHANGED <<rows, marker, events, finalizing, wrapper, gate, drain, settle,
                 cancel, ingest, acked, bounds>>

(* persistCloneQueuedMessage: the row and the state in one transaction. *)
AdmitClone(c) ==
  /\ CloneReporting
  /\ CanRun(c) /\ adm[c].pc \in {"billing", "row"}
  /\ clock' = clock + 1
  /\ rows' = rows \cup
       { [ at |-> clock + 1, msg |-> adm[c].msg, delivery |-> NewDelivery ] }
  /\ PutQueued(adm[c].msg)
  /\ AdmissionGoesTo(c, "effects", adm[c].msg)
  /\ gate' = c
  /\ UNCHANGED <<marker, events, finalizing, wrapper, drain, settle, cancel,
                 ingest, acked, interrupts, crashes>>

(* completeQueuedAdmissionEffects, then the acknowledgement. *)
AdmitEffects(c) ==
  /\ gate = c /\ adm[c].pc = "effects"
  /\ events' = events \cup { <<"queued", adm[c].msg>> }
  /\ acked' = acked \cup { adm[c].msg }
  /\ adm' = [adm EXCEPT ![c] = IdleCall]
  /\ gate' = "open"
  /\ UNCHANGED <<rows, state, marker, finalizing, wrapper, drain, settle,
                 cancel, ingest, bounds>>

-----------------------------------------------------------------------------
(* The alarm: recoverPendingInterruption, then one flush of the oldest row.  *)
(* An alarm is always set: the constructor and the end of every run set it. *)

DrainGoesTo(pc, row) == drain' = [pc |-> pc, row |-> row]

(* Wrapper maintenance and the repair of terminal effects come first. *)
AlarmFires ==
  /\ gate = "open" /\ drain.pc = "idle"
  /\ DrainGoesTo("maintain", NoRow)
  /\ UNCHANGED <<storage, wrapper, gate, adm, settle, cancel, ingest, acked, bounds>>

NothingToRecover ==
  /\ gate = "open" /\ drain.pc = "maintain"
  /\ ~ marker.set
  /\ DrainGoesTo("flush", NoRow)
  /\ UNCHANGED <<storage, wrapper, gate, adm, settle, cancel, ingest, acked, bounds>>

(* Only the messages of the marker that are still pending are captured. *)
RecoverInterruption ==
  /\ gate = "open" /\ drain.pc = "maintain"
  /\ marker.set
  /\ LET captured == { r \in rows : r.msg \in marker.msgs }
     IN settle' = [settle EXCEPT !["alarm"] =
                     [ pc |-> "pending", todo |-> captured,
                       live |-> {}, captured |-> captured ]]
  /\ DrainGoesTo("recover", NoRow)
  /\ gate' = "alarm"
  /\ UNCHANGED <<storage, wrapper, adm, cancel, ingest, acked, bounds>>

(* The row a flush looks at; isDeliveryHeld comes first. *)
Head(r) == drain.pc = "flush" /\ ~ finalizing /\ r \in Oldest(rows)

(* No row, a held delivery, or an oldest row still in its backoff. *)
FlushYields ==
  /\ gate = "open" /\ drain.pc = "flush"
  /\ \/ rows = {}
     \/ finalizing
     \/ \E r \in rows : /\ Head(r)
                       /\ state[r.msg].status \in {"none", "queued"}
                       /\ r.delivery.waiting
  /\ drain' = IdleDrain
  /\ UNCHANGED <<storage, wrapper, gate, adm, settle, cancel, ingest, acked, bounds>>

(* The oldest row was left behind by an accepted or terminal message: only   *)
(* the sent event of an accepted one is repaired, and the row removed.      *)
FlushResidue ==
  /\ gate = "open"
  /\ \E r \in rows :
       /\ Head(r) /\ state[r.msg].status \in {"accepted"} \cup Terminal
       /\ rows' = WithoutMessage(rows, r.msg)
       /\ events' = SentEvent(r.msg)
  /\ drain' = IdleDrain
  /\ UNCHANGED <<state, marker, finalizing, wrapper, gate, adm, settle, cancel,
                 ingest, acked, bounds>>

FlushableRow(r) ==
  /\ Head(r)
  /\ state[r.msg].status \in {"none", "queued"}
  /\ ~ r.delivery.waiting

(* A row whose retries were used up before a crash. *)
FlushExhausted ==
  /\ gate = "open"
  /\ \E r \in rows :
       /\ FlushableRow(r) /\ r.delivery.disposition # None
       /\ DrainGoesTo("terminalize", r)
  /\ gate' = "alarm"
  /\ UNCHANGED <<storage, wrapper, adm, settle, cancel, ingest, acked, bounds>>

(* Repair the queued state and event, then await the delivery. *)
FlushDelivers ==
  /\ gate = "open"
  /\ \E r \in rows :
       /\ FlushableRow(r) /\ r.delivery.disposition = None
       /\ IF state[r.msg].status = "none" THEN PutQueued(r.msg) ELSE UNCHANGED state
       /\ events' = events \cup { <<"queued", r.msg>> }
       /\ DrainGoesTo("deliver", r)
  /\ UNCHANGED <<rows, marker, finalizing, wrapper, gate, adm, settle, cancel,
                 ingest, acked, bounds>>

(* The wrapper takes the prompt; its answer is still on the way. *)
WrapperTakes ==
  /\ gate = "open" /\ drain.pc = "deliver"
  /\ wrapper' = wrapper \cup { drain.row.msg }
  /\ DrainGoesTo("posted", drain.row)
  /\ UNCHANGED <<storage, gate, adm, settle, cancel, ingest, acked, bounds>>

(* The answer arrives: recordRuntimeAcceptedMessage, whose sent event does   *)
(* not depend on the state.                                                 *)
DeliveryAccepted ==
  /\ gate = "open" /\ drain.pc = "posted"
  /\ LET m == drain.row.msg
     IN IF state[m].status \in {"none", "queued"}
          THEN Put(m, "accepted", None) ELSE UNCHANGED state
  /\ DrainGoesTo("accepted", drain.row)
  /\ gate' = "alarm"
  /\ UNCHANGED <<rows, marker, events, finalizing, wrapper, adm, settle, cancel,
                 ingest, acked, bounds>>

AcceptedEffects ==
  /\ gate = "alarm" /\ drain.pc = "accepted"
  /\ events' = events \cup { <<"sent", drain.row.msg>> }
  /\ DrainGoesTo("remove", drain.row)
  /\ UNCHANGED <<rows, state, marker, finalizing, wrapper, gate, adm, settle,
                 cancel, ingest, acked, bounds>>

(* The row goes once its message is accepted, or its failure persisted. *)
DrainRemovesRow ==
  /\ gate = "alarm" /\ drain.pc = "remove"
  /\ rows' = WithoutMessage(rows, drain.row.msg)
  /\ drain' = IdleDrain
  /\ gate' = "open"
  /\ UNCHANGED <<state, marker, events, finalizing, wrapper, adm, settle, cancel,
                 ingest, acked, bounds>>

(* The attempt fails before or after the wrapper took the prompt: the row    *)
(* is written back from the copy read before the await.                     *)
DeliveryFails(code, override) ==
  /\ gate = "open" /\ drain.pc \in {"deliver", "posted"}
  /\ LET delivery == RecordFlushFailure(drain.row.delivery, code, override)
         exhausted == delivery.disposition # None
     IN /\ rows' = ReplaceRow(rows, drain.row, delivery)
        /\ drain' = IF exhausted
                      THEN [ pc |-> "terminalize",
                             row |-> [drain.row EXCEPT !.delivery = delivery] ]
                      ELSE IdleDrain
        /\ gate' = IF exhausted THEN "alarm" ELSE "open"
  /\ UNCHANGED <<state, marker, events, finalizing, wrapper, adm, settle, cancel,
                 ingest, acked, bounds>>

(* WRAPPER_FINALIZING: the attempt is not counted. *)
DeliveryHeld ==
  /\ gate = "open" /\ drain.pc = "deliver"
  /\ finalizing' = TRUE
  /\ drain' = IdleDrain
  /\ UNCHANGED <<rows, state, marker, events, wrapper, gate, adm, settle, cancel,
                 ingest, acked, bounds>>

(* A retryable wrapper cleanup blocks the delivery: the attempt is skipped. *)
DeliverySkipped ==
  /\ gate = "open" /\ drain.pc = "deliver"
  /\ drain' = IdleDrain
  /\ UNCHANGED <<storage, wrapper, gate, adm, settle, cancel, ingest, acked, bounds>>

(* drainNextPendingMessage with an exhausted failure. *)
DeliveryGivenUp ==
  /\ gate = "alarm" /\ drain.pc = "terminalize"
  /\ TerminalizeOnce(drain.row.msg, "failed", "delivery_failure")
  /\ DrainGoesTo("remove", drain.row)
  /\ UNCHANGED <<rows, marker, events, finalizing, wrapper, gate, adm, settle,
                 cancel, ingest, acked, bounds>>

-----------------------------------------------------------------------------
(* Interruption: interruptPendingQueuedMessages, or its recovery by the      *)
(* alarm.  Every captured message is interrupted, then the accepted ones,   *)
(* then the captured rows are deleted, then the marker.  The effects of     *)
(* each transition are awaited, so the gate opens after each.               *)

InterruptStarts ==
  /\ gate = "open" /\ settle["interrupt"].pc = "idle"
  /\ interrupts < MaxInterrupts
  /\ interrupts' = interrupts + 1
  /\ marker' = IF marker.set THEN marker
                               ELSE [ set |-> TRUE, msgs |-> Messages(rows) ]
  /\ settle' = [settle EXCEPT !["interrupt"] =
                  [ pc |-> "pending", todo |-> rows, live |-> {}, captured |-> rows ]]
  /\ gate' = "interrupt"
  /\ UNCHANGED <<rows, state, events, finalizing, wrapper, adm, drain, cancel,
                 ingest, acked, clock, crashes>>

(* "Failed to persist interrupted transition": the call or the alarm fails, *)
(* the marker stays for the next alarm.                                     *)
SettleThrows(s, m) ==
  /\ state[m].status \in Terminal \ {"interrupted"}
  /\ settle' = [settle EXCEPT ![s] = IdleSettle]
  /\ drain' = IF s = "alarm" THEN IdleDrain ELSE drain
  /\ UNCHANGED state

(* Mutant: a message that a wrapper accepted meanwhile is skipped. *)
InterruptsQueued(m) ==
  /\ state[m].status \in {"queued", "accepted", "interrupted"}
  /\ TerminalizeQueued(m, "interrupted", "interrupt")
  /\ UNCHANGED drain

Interrupts(m) ==
  /\ state[m].status \in {"queued", "accepted", "interrupted"}
  /\ TerminalizeOnce(m, "interrupted", "interrupt")
  /\ UNCHANGED drain

NextCaptured(s, r) == settle[s].pc = "pending" /\ r \in Oldest(settle[s].todo)

(* A missing state is repaired from the row first. *)
RepairCaptured(s) ==
  /\ CanRun(s)
  /\ \E r \in settle[s].todo :
       /\ NextCaptured(s, r) /\ state[r.msg].status = "none"
       /\ PutQueued(r.msg)
  /\ gate' = s
  /\ UNCHANGED <<rows, marker, events, finalizing, wrapper, handlers, acked, bounds>>

InterruptPending(s) ==
  /\ CanRun(s)
  /\ \E r \in settle[s].todo :
       /\ NextCaptured(s, r)
       /\ \/ SettleThrows(s, r.msg)
          \/ /\ Interrupts(r.msg)
             /\ settle' = [settle EXCEPT ![s].todo = @ \ {r}]
  /\ gate' = "open"
  /\ UNCHANGED <<rows, marker, events, finalizing, wrapper, adm, cancel, ingest,
                 acked, bounds>>

(* interruptAcceptedWrapperMessages lists the accepted messages once: those  *)
(* of the current run or, when the session has no run, all.  A run without  *)
(* messages and no run look the same here.                                  *)
CaptureAccepted(s) ==
  /\ CanRun(s) /\ settle[s].pc = "pending" /\ settle[s].todo = {}
  /\ \E live \in { Accepted \cap wrapper, Accepted } :
       /\ wrapper # {} => live \subseteq wrapper
       /\ settle' = [settle EXCEPT ![s].pc = "accepted", ![s].live = live]
  /\ gate' = s
  /\ UNCHANGED <<storage, wrapper, adm, drain, cancel, ingest, acked, bounds>>

InterruptAccepted(s) ==
  /\ CanRun(s) /\ settle[s].pc = "accepted"
  /\ \E m \in settle[s].live :
       \/ SettleThrows(s, m)
       \/ /\ Interrupts(m)
          /\ settle' = [settle EXCEPT ![s].live = @ \ {m}]
  /\ gate' = "open"
  /\ UNCHANGED <<rows, marker, events, finalizing, wrapper, adm, cancel, ingest,
                 acked, bounds>>

(* The wrapper is told to stop and its identity cleared: what it still       *)
(* reports is fenced off.                                                   *)
StopWrapper(s) ==
  /\ CanRun(s) /\ settle[s].pc = "accepted" /\ settle[s].live = {}
  /\ settle' = [settle EXCEPT ![s].pc = "delete"]
  /\ wrapper' = {}
  /\ finalizing' = FALSE
  /\ gate' = "open"
  /\ UNCHANGED <<rows, state, marker, events, adm, drain, cancel, ingest, acked, bounds>>

DeleteCaptured(s) ==
  /\ CanRun(s) /\ settle[s].pc = "delete"
  /\ \E r \in Oldest(settle[s].captured) :
       /\ rows' = WithoutMessage(rows, r.msg)
       /\ settle' = [settle EXCEPT ![s].captured = @ \ {r}]
  /\ gate' = s
  /\ UNCHANGED <<state, marker, events, finalizing, wrapper, adm, drain, cancel,
                 ingest, acked, bounds>>

ClearMarker(s) ==
  /\ CanRun(s) /\ settle[s].pc = "delete" /\ settle[s].captured = {}
  /\ marker' = NoMarker
  /\ settle' = [settle EXCEPT ![s] = IdleSettle]
  /\ drain' = IF s = "alarm" THEN [ pc |-> "flush", row |-> NoRow ] ELSE drain
  /\ gate' = "open"
  /\ UNCHANGED <<rows, state, events, finalizing, wrapper, adm, cancel, ingest,
                 acked, bounds>>

-----------------------------------------------------------------------------
(* Cancellation of one queued message: cancelQueuedMessage. *)

(* A missing state is repaired from the row first. *)
CancelRepairs(m) ==
  /\ gate = "open" /\ cancel.pc = "idle"
  /\ m \in Messages(rows) /\ state[m].status = "none"
  /\ PutQueued(m)
  /\ cancel' = [pc |-> "mark", msg |-> m]
  /\ gate' = "cancel"
  /\ UNCHANGED <<rows, marker, events, finalizing, wrapper, adm, drain, settle,
                 ingest, acked, bounds>>

CancelMarks(m) ==
  /\ \/ gate = "open" /\ cancel.pc = "idle"
     \/ gate = "cancel" /\ cancel = [pc |-> "mark", msg |-> m]
  /\ m \in Messages(rows)
  /\ state[m].status = "queued"
  /\ TerminalizeOnce(m, "interrupted", "canceled")
  /\ cancel' = [pc |-> "remove", msg |-> m]
  /\ gate' = "cancel"
  /\ UNCHANGED <<rows, marker, events, finalizing, wrapper, adm, drain, settle,
                 ingest, acked, bounds>>

CancelRemovesRow ==
  /\ gate = "cancel" /\ cancel.pc = "remove"
  /\ rows' = WithoutMessage(rows, cancel.msg)
  /\ cancel' = [cancel EXCEPT !.pc = "event"]
  /\ UNCHANGED <<state, marker, events, finalizing, wrapper, gate, adm, drain,
                 settle, ingest, acked, bounds>>

CancelReports ==
  /\ gate = "cancel" /\ cancel.pc = "event"
  /\ events' = events \cup { <<"canceled", cancel.msg>> }
  /\ cancel' = IdleCall
  /\ gate' = "open"
  /\ UNCHANGED <<rows, state, marker, finalizing, wrapper, adm, drain, settle,
                 ingest, acked, bounds>>

(* A retry of a cancel whose row is gone repairs the canceled event. *)
CancelAgain(m) ==
  /\ gate = "open" /\ cancel.pc = "idle"
  /\ m \notin Messages(rows)
  /\ state[m] = [status |-> "interrupted", source |-> "canceled"]
  /\ events' = events \cup { <<"canceled", m>> }
  /\ UNCHANGED <<rows, state, marker, finalizing, wrapper, gate, handlers, acked, bounds>>

-----------------------------------------------------------------------------
(* The wrapper: terminal events over the fence of the current run, the end   *)
(* of the run, and the supervisor that fails what a lost run leaves.        *)

(* ensureAcceptedMessageBeforeTerminal: the terminal event proves the        *)
(* acceptance that the delivery has not recorded yet.                       *)
TerminalEventInfersAccepted(m) ==
  /\ gate = "open" /\ m \in wrapper
  /\ state[m].status \in {"none", "queued"}
  /\ state[m].status = "none" => m \in Messages(rows)
  /\ Put(m, "accepted", None)
  /\ ingest' = [pc |-> "settle", msg |-> m]
  /\ gate' = "ingest"
  /\ UNCHANGED <<rows, marker, events, finalizing, wrapper, adm, drain, settle,
                 cancel, acked, bounds>>

(* The sent event of an accepted message is ensured, then it is settled. *)
TerminalEvent(m, outcome) ==
  /\ \/ gate = "open"
     \/ gate = "ingest" /\ ingest.msg = m
  /\ m \in wrapper
  /\ state[m].status \notin {"none", "queued"}
  /\ events' = SentEvent(m)
  /\ TerminalizeOnce(m, outcome, "run")
  /\ wrapper' = wrapper \ {m}
  /\ ingest' = IdleCall
  /\ gate' = "open"
  /\ UNCHANGED <<rows, marker, finalizing, adm, drain, settle, cancel,
                 acked, bounds>>

(* The run completes, or is given up: what it has accepted is settled first, *)
(* then the session forgets its identity.                                   *)
RunEnds ==
  /\ gate = "open"
  /\ wrapper # {} \/ finalizing
  /\ Accepted \cap wrapper = {}
  /\ wrapper' = {}
  /\ finalizing' = FALSE
  /\ UNCHANGED <<rows, state, marker, events, gate, handlers, acked, bounds>>

(* A delivery that finds no wrapper allocates a run: what the one before has *)
(* accepted is of no current run any more.                                  *)
RunReplaced ==
  /\ gate = "open" /\ drain.pc = "deliver"
  /\ wrapper # {}
  /\ wrapper' = {}
  /\ finalizing' = FALSE
  /\ UNCHANGED <<rows, state, marker, events, gate, handlers, acked, bounds>>

(* terminalizeAcceptedMessagesForDeadWrapper, for the current run: the       *)
(* outcome comes from stored assistant events, or is a failure.             *)
SettleLost(m, outcome) ==
  /\ gate = "open"
  /\ m \in Accepted \cap wrapper
  /\ TerminalizeOnce(m, outcome, "run")
  /\ UNCHANGED <<rows, marker, events, finalizing, wrapper, gate, handlers, acked, bounds>>

-----------------------------------------------------------------------------
(* nextFlushAttemptAt of a row passes. *)
BackoffElapses ==
  /\ gate = "open"
  /\ \E r \in rows :
       /\ r.delivery.waiting
       /\ rows' = (rows \ {r}) \cup { [r EXCEPT !.delivery.waiting = FALSE] }
  /\ UNCHANGED <<state, marker, events, finalizing, wrapper, gate, handlers, acked, bounds>>

(* The object is evicted or fails: the wrapper and the storage live on. *)
Crash ==
  /\ crashes < MaxCrashes
  /\ crashes' = crashes + 1
  /\ gate' = "open"
  /\ adm' = [c \in Caller |-> IdleCall]
  /\ drain' = IdleDrain
  /\ settle' = [s \in Settler |-> IdleSettle]
  /\ cancel' = IdleCall
  /\ ingest' = IdleCall
  /\ UNCHANGED <<storage, wrapper, acked, clock, interrupts>>

-----------------------------------------------------------------------------
Admission(c) ==
  \/ \E m \in Message : AdmitReplay(c, m) \/ AdmitRepair(c, m) \/ AdmitCheck(c, m)
  \/ BillingDenies(c) \/ AdmitPutRow(c) \/ AdmitPutState(c)
  \/ AdmitClone(c) \/ AdmitEffects(c)

Deliver ==
  \/ WrapperTakes \/ DeliveryAccepted \/ AcceptedEffects
  \/ DeliveryHeld \/ DeliverySkipped
  \/ \E f \in Failures : DeliveryFails(f[1], f[2])

Alarm ==
  \/ AlarmFires \/ NothingToRecover \/ RecoverInterruption
  \/ FlushYields \/ FlushResidue \/ FlushExhausted \/ FlushDelivers
  \/ Deliver \/ DeliveryGivenUp \/ DrainRemovesRow

Settlement(s) ==
  \/ RepairCaptured(s) \/ InterruptPending(s)
  \/ CaptureAccepted(s) \/ InterruptAccepted(s)
  \/ StopWrapper(s) \/ DeleteCaptured(s) \/ ClearMarker(s)

Cancellation ==
  \/ \E m \in Message : CancelRepairs(m) \/ CancelMarks(m) \/ CancelAgain(m)
  \/ CancelRemovesRow \/ CancelReports

Wrapper ==
  \/ \E m \in Message :
       \/ TerminalEventInfersAccepted(m)
       \/ \E outcome \in Terminal : TerminalEvent(m, outcome) \/ SettleLost(m, outcome)
  \/ RunEnds \/ RunReplaced

Next ==
  \/ \E c \in Caller : Admission(c)
  \/ Alarm
  \/ InterruptStarts
  \/ \E s \in Settler : Settlement(s)
  \/ Cancellation
  \/ Wrapper
  \/ BackoffElapses
  \/ Crash

Spec == Init /\ [][Next]_vars

(* The runtime delivers events in order, so a handler that may run again and *)
(* again does run; time passes; what the current run has accepted is watched *)
(* and settled in the end (WrapperRuntime!AcceptedIsSettled), which is no    *)
(* promise for a run that was replaced; and a delivery is not blocked for    *)
(* ever by a cleanup (WrapperRuntime!StopIsSettled: an exhausted one is a    *)
(* failure).  Clients owe nothing, and nothing says that a hold ends.        *)
DeliveryResolves ==
  DeliveryAccepted \/ \E f \in Failures : DeliveryFails(f[1], f[2])

AlarmContinues ==
  \/ AlarmFires \/ NothingToRecover \/ RecoverInterruption \/ Settlement("alarm")
  \/ FlushYields \/ FlushResidue \/ FlushExhausted \/ FlushDelivers
  \/ AcceptedEffects \/ DeliveryGivenUp \/ DrainRemovesRow

CallContinues ==
  \/ \E c \in Caller : adm[c].pc # "idle" /\ Admission(c)
  \/ cancel.pc # "idle" /\ Cancellation
  \/ \E m \in Message, outcome \in Terminal : ingest.msg = m /\ TerminalEvent(m, outcome)

Fairness ==
  /\ SF_vars(AlarmContinues)
  /\ SF_vars(DeliveryResolves)
  /\ WF_vars(CallContinues)
  /\ SF_vars(Settlement("interrupt"))
  /\ SF_vars(\E m \in Message, outcome \in Terminal : SettleLost(m, outcome))
  /\ SF_vars(BackoffElapses)

FairSpec == Spec /\ Fairness

-----------------------------------------------------------------------------
StorageType ==
  /\ rows \subseteq Row
  /\ state \in [Message -> MessageState]
  /\ marker \in {NoMarker} \cup [ set : {TRUE}, msgs : SUBSET Message ]
  /\ events \subseteq {"queued", "sent", "canceled"} \X Message
  /\ finalizing \in BOOLEAN

(* A call that is not idle holds its message. *)
CallType(pcs) == {IdleCall} \cup [ pc : pcs, msg : Message ]

DrainType ==
  [ pc : {"idle", "maintain", "recover", "flush"}, row : {NoRow} ]
    \cup [ pc : {"deliver", "posted", "accepted", "remove", "terminalize"}, row : Row ]

SettleType ==
  [ pc : {"idle", "pending", "accepted", "delete"},
    todo : SUBSET Row, live : SUBSET Message, captured : SUBSET Row ]

HandlerType ==
  /\ gate \in {"open", "alarm", "cancel", "ingest", "interrupt"} \cup Caller
  /\ adm \in [Caller -> CallType({"billing", "row", "state", "effects"})]
  /\ drain \in DrainType
  /\ settle \in [Settler -> SettleType]
  /\ cancel \in CallType({"mark", "remove", "event"})
  /\ ingest \in CallType({"settle"})

HistoryType ==
  /\ wrapper \subseteq Message
  /\ acked \subseteq Message
  /\ clock \in Nat
  /\ interrupts \in 0 .. MaxInterrupts
  /\ crashes \in 0 .. MaxCrashes

(* The storage, the wrapper and the handlers keep their types: a handler that *)
(* resumes after an await finds the message or the row it works on.           *)
TypeOK == StorageType /\ HandlerType /\ HistoryType

(* "queued acknowledgement is durable admission" (docs/diagrams.md): what a  *)
(* client was told is queued has a state, and a queued state has its pending *)
(* row, so no crash, cancellation, interruption or failed write-back loses   *)
(* the work while the session still shows it as queued.                      *)
AdmissionIsDurable ==
  /\ \A m \in acked : state[m].status # "none"
  /\ \A m \in Message : state[m].status = "queued" => m \in Messages(rows)

(* A message has at most one pending row, although its key holds the time of *)
(* its admission: the row written back after a failed delivery replaces.     *)
OneRowPerMessage == \A r, q \in rows : r.msg = q.msg => r = q

(* PENDING_SESSION_MESSAGE_LIMIT bounds the rows whose message is not        *)
(* settled, and all rows but the one a delivery may write back after its     *)
(* message was cancelled or interrupted meanwhile.                           *)
QueueBounded ==
  /\ Cardinality({ r \in rows : state[r.msg].status \notin Terminal }) <= Limit
  /\ Cardinality(rows) <= Limit + 1

(* The pending row is what repairs the sent event of an accepted message: it *)
(* is gone only once the event is persisted, crash or not.                   *)
SentBeforeRowRemoved ==
  \A m \in Message :
    state[m].status = "accepted" /\ m \notin Messages(rows) => <<"sent", m>> \in events

(* First in, first out: a message leaves the queue by acceptance or by a     *)
(* failed delivery only when no queued message was admitted before it.       *)
FirstInFirstOut ==
  [][\A r, q \in rows :
       /\ state[r.msg].status = "queued" /\ state[q.msg].status = "queued"
       /\ q.at < r.at
       => state'[r.msg].status \notin {"accepted", "failed"}]_vars

(* The durable marker of an interruption is cleared only when every message  *)
(* it names is settled: a crash in between leaves it to the next alarm.      *)
MarkerCoversBatch ==
  [][marker.set /\ ~ marker'.set =>
       \A m \in marker.msgs : state'[m].status \in Terminal]_vars

(* Whatever the interleaving, the object is a MessageLifecycle: "settle      *)
(* once", and accepted work never returns to the queue.                      *)
Lifecycle == INSTANCE MessageLifecycle WITH life <- [m \in Message |-> state[m].status]

ImplementsLifecycle == Lifecycle!Spec

(* No run finalizes for ever, as WrapperRuntime!HoldIsReleased shows of an  *)
(* object that does not restart.                                            *)
HoldsEnd == []<>~finalizing

(* Accepted by a run that is not the current one any more: nothing settles   *)
(* it but an interruption that finds no run.                                *)
Orphaned(m) == state[m].status = "accepted" /\ m \notin wrapper

(* If holds end, every acknowledged message is settled in the end, unless    *)
(* the run that accepted it is replaced: no crash between two writes, failed *)
(* attempt, cancellation or stale copy of its row leaves it in the queue.   *)
AckedIsSettled ==
  HoldsEnd =>
    \A m \in Message : m \in acked ~> state[m].status \in Terminal \/ Orphaned(m)

(* "remove pending residue" (docs/diagrams.md), "later drain will quarantine *)
(* it" (drainNextPendingMessage): if holds end, the row of a settled message *)
(* is removed.                                                              *)
ResidueIsRemoved ==
  HoldsEnd =>
    \A m \in Message :
      m \in Messages(rows) /\ state[m].status \in Terminal ~> m \notin Messages(rows)

(* "A turn that fails, or is interrupted, MUST leave the chat usable; a       *)
(* subsequent message MUST continue in the same chat"                        *)
(* (.specs/cloud-agent-session.md): if holds end, a queued message leaves    *)
(* the queue, whatever happened to the messages before it.                  *)
ChatStaysUsable ==
  HoldsEnd =>
    \A m \in Message : state[m].status = "queued" ~> state[m].status # "queued"

(* "keeps the dropped id out of the reconnect catch-up snapshot"             *)
(* (cancelQueuedMessage): once its cancellation is reported, a message is in *)
(* no snapshot, whose first part is the pending rows.                        *)
CanceledStaysDropped ==
  \A m \in Message : <<"canceled", m>> \in events => m \notin Messages(rows)

(* "settle once" (docs/diagrams.md): a settled message keeps its outcome.    *)
SettledOnce ==
  [][\A m \in Message : state[m].status \in Terminal => state'[m] = state[m]]_vars
=============================================================================
