------------------------ MODULE SessionMessageQueueProofs ------------------------
(***************************************************************************)
(* Proofs about the message queue of a session, for every number of        *)
(* messages, concurrent calls, rows, interruptions and crashes.            *)
(***************************************************************************)
EXTENDS SessionMessageQueue, PendingFlushPolicyProofs

LEMMA NewDeliveryType == NewDelivery \in Delivery
  BY DEF NewDelivery, Delivery, None

(* recordPendingFlushFailure, then replaceStoredPendingSessionMessage, keep *)
(* the rows well formed.                                                   *)
LEMMA ReplaceRowType ==
  ASSUME NEW rs \in SUBSET Row, NEW r \in Row, NEW d \in Delivery
  PROVE  ReplaceRow(rs, r, d) \in SUBSET Row
  BY DEF ReplaceRow, WithoutMessage, Row

LEMMA PutType ==
  ASSUME state \in [Message -> MessageState], NEW m \in Message,
         NEW status \in {"queued", "accepted"} \cup Terminal, NEW source \in Source,
         Put(m, status, source)
  PROVE  state' \in [Message -> MessageState]
  BY DEF Put, MessageState

LEMMA TerminalizeOnceType ==
  ASSUME state \in [Message -> MessageState], NEW m \in Message,
         NEW status \in Terminal, NEW source \in Source,
         TerminalizeOnce(m, status, source)
  PROVE  state' \in [Message -> MessageState]
  BY PutType DEF TerminalizeOnce

(* A call that is not idle holds its message. *)
LEMMA CallHoldsMessage ==
  ASSUME NEW pcs, NEW call \in CallType(pcs), call.pc # "idle"
  PROVE  call.pc \in pcs /\ call.msg \in Message
  BY DEF CallType, IdleCall

(* A drain past its preparations holds the row it delivers. *)
LEMMA DrainHoldsRow ==
  ASSUME drain \in DrainType,
         drain.pc \in {"deliver", "posted", "accepted", "remove", "terminalize"}
  PROVE  drain.row \in Row /\ drain.row.msg \in Message /\ drain.row.delivery \in Delivery
  BY DEF DrainType, Row

LEMMA EventType ==
  ASSUME NEW es \in SUBSET ({"queued", "sent", "canceled"} \X Message), NEW m \in Message,
         NEW kind \in {"queued", "sent", "canceled"}
  PROVE  es \cup { <<kind, m>> } \in SUBSET ({"queued", "sent", "canceled"} \X Message)
  OBVIOUS

LEMMA InitType == Init => TypeOK
<1> SUFFICES ASSUME Init PROVE TypeOK
  OBVIOUS
<1>1. StorageType
  BY DEF Init, StorageType, MessageState, Source
<1>2. HandlerType
  <2>1. IdleSettle \in SettleType
    BY DEF IdleSettle, SettleType
  <2>2. adm \in [Caller -> CallType({"billing", "row", "state", "effects"})]
    BY DEF Init, CallType
  <2> QED
    BY <2>1, <2>2 DEF Init, HandlerType, CallType, DrainType, IdleDrain
<1>3. HistoryType
  BY QueueAssumption DEF Init, HistoryType
<1> QED
  BY <1>1, <1>2, <1>3 DEF TypeOK

LEMMA AdmissionType ==
  ASSUME TypeOK, NEW c \in Caller, Admission(c)
  PROVE  TypeOK'
<1> USE DEF TypeOK, StorageType, HandlerType, HistoryType, CallType, IdleCall
<1>1. ASSUME NEW m \in Message, AdmitReplay(c, m) PROVE TypeOK'
  BY <1>1 DEF AdmitReplay, AdmissionGoesTo, storage, bounds
<1>2. ASSUME NEW m \in Message, AdmitRepair(c, m) PROVE TypeOK'
  BY <1>2, PutType DEF AdmitRepair, AdmissionGoesTo, PutQueued, bounds, Source
<1>3. ASSUME NEW m \in Message, AdmitCheck(c, m) PROVE TypeOK'
  BY <1>3 DEF AdmitCheck, AdmissionGoesTo, storage, bounds
<1>4. CASE BillingDenies(c)
  BY <1>4 DEF BillingDenies, storage, bounds
<1>5. CASE AdmitPutRow(c)
  <2>1. adm[c].msg \in Message
    BY <1>5, CallHoldsMessage DEF AdmitPutRow
  <2>2. rows' \subseteq Row /\ clock' \in Nat
    BY <1>5, <2>1, NewDeliveryType DEF AdmitPutRow, Row
  <2> QED
    BY <1>5, <2>1, <2>2 DEF AdmitPutRow, AdmissionGoesTo
<1>6. CASE AdmitPutState(c)
  <2>1. adm[c].msg \in Message
    BY <1>6, CallHoldsMessage DEF AdmitPutState
  <2>2. state' \in [Message -> MessageState]
    BY <1>6, <2>1, PutType DEF AdmitPutState, PutQueued, Source
  <2> QED
    BY <1>6, <2>1, <2>2 DEF AdmitPutState, AdmissionGoesTo, bounds
<1>7. CASE AdmitClone(c)
  <2>1. adm[c].msg \in Message
    BY <1>7, CallHoldsMessage DEF AdmitClone
  <2>2. rows' \subseteq Row /\ clock' \in Nat
    BY <1>7, <2>1, NewDeliveryType DEF AdmitClone, Row
  <2>3. state' \in [Message -> MessageState]
    BY <1>7, <2>1, PutType DEF AdmitClone, PutQueued, Source
  <2> QED
    BY <1>7, <2>1, <2>2, <2>3 DEF AdmitClone, AdmissionGoesTo
<1>8. CASE AdmitEffects(c)
  <2>1. adm[c].msg \in Message
    BY <1>8, CallHoldsMessage DEF AdmitEffects
  <2>2. events' \subseteq {"queued", "sent", "canceled"} \X Message
    BY <1>8, <2>1, EventType DEF AdmitEffects
  <2> QED
    BY <1>8, <2>1, <2>2 DEF AdmitEffects, bounds
<1> QED
  BY <1>1, <1>2, <1>3, <1>4, <1>5, <1>6, <1>7, <1>8 DEF Admission

LEMMA AlarmType ==
  ASSUME TypeOK, Alarm
  PROVE  TypeOK'
<1> USE DEF TypeOK, StorageType, HandlerType, HistoryType
<1>1. CASE AlarmFires
  BY <1>1 DEF AlarmFires, DrainGoesTo, DrainType, storage, bounds
<1>2. CASE NothingToRecover
  BY <1>2 DEF NothingToRecover, DrainGoesTo, DrainType, storage, bounds
<1>3. CASE RecoverInterruption
  <2>1. settle' \in [Settler -> SettleType]
    BY <1>3 DEF RecoverInterruption, Settler, SettleType
  <2> QED
    BY <1>3, <2>1 DEF RecoverInterruption, DrainGoesTo, DrainType, storage, bounds
<1>4. CASE FlushYields
  BY <1>4 DEF FlushYields, IdleDrain, DrainType, storage, bounds
<1>5. CASE FlushResidue
  <2>1. PICK r \in rows : rows' = WithoutMessage(rows, r.msg) /\ events' = SentEvent(r.msg)
    BY <1>5 DEF FlushResidue
  <2>2. rows' \subseteq Row /\ events' \subseteq {"queued", "sent", "canceled"} \X Message
    BY <2>1 DEF WithoutMessage, SentEvent, Row
  <2> QED
    BY <1>5, <2>2 DEF FlushResidue, IdleDrain, DrainType, bounds
<1>6. CASE FlushExhausted
  <2>1. PICK r \in rows : DrainGoesTo("terminalize", r)
    BY <1>6 DEF FlushExhausted
  <2>2. drain' \in DrainType
    BY <2>1 DEF DrainGoesTo, DrainType
  <2> QED
    BY <1>6, <2>2 DEF FlushExhausted, storage, bounds
<1>7. CASE FlushDelivers
  <2>1. PICK r \in rows :
          /\ IF state[r.msg].status = "none" THEN PutQueued(r.msg) ELSE UNCHANGED state
          /\ events' = events \cup { <<"queued", r.msg>> }
          /\ DrainGoesTo("deliver", r)
    BY <1>7 DEF FlushDelivers
  <2>2. r \in Row /\ r.msg \in Message
    BY DEF Row
  <2>3. state' \in [Message -> MessageState]
    BY <2>1, <2>2, PutType DEF PutQueued, Source
  <2>4. events' \subseteq {"queued", "sent", "canceled"} \X Message
    BY <2>1, <2>2, EventType
  <2>5. drain' \in DrainType
    BY <2>1, <2>2 DEF DrainGoesTo, DrainType
  <2> QED
    BY <1>7, <2>3, <2>4, <2>5 DEF FlushDelivers, bounds
<1>8. CASE WrapperTakes
  <2>1. drain.row \in Row /\ drain.row.msg \in Message
    BY <1>8, DrainHoldsRow DEF WrapperTakes
  <2> QED
    BY <1>8, <2>1 DEF WrapperTakes, DrainGoesTo, DrainType, storage, bounds
<1>9. CASE DeliveryAccepted
  <2>1. drain.row \in Row /\ drain.row.msg \in Message
    BY <1>9, DrainHoldsRow DEF DeliveryAccepted
  <2>2. state' \in [Message -> MessageState]
    BY <1>9, <2>1, PutType DEF DeliveryAccepted, Source
  <2> QED
    BY <1>9, <2>1, <2>2 DEF DeliveryAccepted, DrainGoesTo, DrainType, bounds
<1>10. CASE AcceptedEffects
  <2>1. drain.row \in Row /\ drain.row.msg \in Message
    BY <1>10, DrainHoldsRow DEF AcceptedEffects
  <2>2. events' \subseteq {"queued", "sent", "canceled"} \X Message
    BY <1>10, <2>1, EventType DEF AcceptedEffects
  <2> QED
    BY <1>10, <2>1, <2>2 DEF AcceptedEffects, DrainGoesTo, DrainType, bounds
<1>11. CASE DrainRemovesRow
  BY <1>11 DEF DrainRemovesRow, WithoutMessage, IdleDrain, DrainType, bounds
<1>12. ASSUME NEW f \in Failures, DeliveryFails(f[1], f[2]) PROVE TypeOK'
  <2> DEFINE delivery == RecordFlushFailure(drain.row.delivery, f[1], f[2])
             exhausted == delivery.disposition # None
  <2>1. drain.row \in Row /\ drain.row.msg \in Message /\ drain.row.delivery \in Delivery
    BY <1>12, DrainHoldsRow DEF DeliveryFails
  <2>2. f[1] \in FailureCode /\ f[2] \in Overrides
    BY QueueAssumption
  <2>3. delivery \in Delivery
    BY <2>1, <2>2, RecordFlushFailureType
  <2>4. /\ rows' = ReplaceRow(rows, drain.row, delivery)
        /\ drain' = IF exhausted
                      THEN [ pc |-> "terminalize",
                             row |-> [drain.row EXCEPT !.delivery = delivery] ]
                      ELSE IdleDrain
        /\ gate' = IF exhausted THEN "alarm" ELSE "open"
        /\ UNCHANGED <<state, marker, events, finalizing, wrapper, adm, settle, cancel,
                       ingest, acked, bounds>>
    BY <1>12 DEF DeliveryFails
  <2> HIDE DEF delivery
  <2>5. rows' \subseteq Row
    BY <2>1, <2>3, <2>4, ReplaceRowType
  <2>6. [drain.row EXCEPT !.delivery = delivery] \in Row
    BY <2>1, <2>3 DEF Row
  <2>7. drain' \in DrainType
    BY <2>4, <2>6 DEF IdleDrain, DrainType
  <2> QED
    BY <2>4, <2>5, <2>7 DEF bounds
<1>13. CASE DeliveryHeld
  BY <1>13 DEF DeliveryHeld, IdleDrain, DrainType, bounds
<1>14. CASE DeliverySkipped
  BY <1>14 DEF DeliverySkipped, IdleDrain, DrainType, storage, bounds
<1>15. CASE DeliveryGivenUp
  <2>1. drain.row \in Row /\ drain.row.msg \in Message
    BY <1>15, DrainHoldsRow DEF DeliveryGivenUp
  <2>2. state' \in [Message -> MessageState]
    BY <1>15, <2>1, TerminalizeOnceType DEF DeliveryGivenUp, Source, Terminal
  <2> QED
    BY <1>15, <2>1, <2>2 DEF DeliveryGivenUp, DrainGoesTo, DrainType, bounds
<1> QED
  BY <1>1, <1>2, <1>3, <1>4, <1>5, <1>6, <1>7, <1>8, <1>9, <1>10, <1>11, <1>12, <1>13,
     <1>14, <1>15 DEF Alarm, Deliver

LEMMA InterruptStartsType ==
  ASSUME TypeOK, InterruptStarts
  PROVE  TypeOK'
<1> USE DEF TypeOK, StorageType, HandlerType, HistoryType
<1>1. settle' \in [Settler -> SettleType]
  BY DEF InterruptStarts, Settler, SettleType
<1>2. marker' \in {NoMarker} \cup [ set : {TRUE}, msgs : SUBSET Message ]
  <2>1. Messages(rows) \in SUBSET Message
    BY DEF Messages, Row
  <2> QED
    BY <2>1 DEF InterruptStarts
<1>3. interrupts' \in 0 .. MaxInterrupts
  BY QueueAssumption DEF InterruptStarts
<1> QED
  BY <1>1, <1>2, <1>3 DEF InterruptStarts

(* A transition of the settlement keeps the state and the drain well formed. *)
LEMMA SettleTransitionType ==
  ASSUME TypeOK, NEW s \in Settler, NEW m \in Message,
         \/ SettleThrows(s, m)
         \/ Interrupts(m)
  PROVE  state' \in [Message -> MessageState] /\ drain' \in DrainType
<1> USE DEF TypeOK, StorageType, HandlerType
<1>1. CASE SettleThrows(s, m)
  BY <1>1 DEF SettleThrows, IdleDrain, DrainType
<1>2. CASE Interrupts(m)
  BY <1>2, TerminalizeOnceType DEF Interrupts, Terminal, Source
<1> QED
  BY <1>1, <1>2

LEMMA SettlementType ==
  ASSUME TypeOK, NEW s \in Settler, Settlement(s)
  PROVE  TypeOK'
<1> USE DEF TypeOK, StorageType, HandlerType, HistoryType
<1>0. settle[s] \in SettleType /\ IdleSettle \in SettleType /\ s \in {"interrupt", "alarm"}
  BY DEF Settler, IdleSettle, SettleType
<1>1. CASE RepairCaptured(s)
  <2>1. PICK r \in settle[s].todo : PutQueued(r.msg)
    BY <1>1 DEF RepairCaptured
  <2>2. r.msg \in Message
    BY <1>0 DEF SettleType, Row
  <2>3. state' \in [Message -> MessageState]
    BY <2>1, <2>2, PutType DEF PutQueued, Source
  <2> QED
    BY <1>0, <1>1, <2>3 DEF RepairCaptured, handlers, bounds
<1>2. CASE InterruptPending(s)
  <2>1. PICK r \in settle[s].todo :
          \/ SettleThrows(s, r.msg)
          \/ /\ Interrupts(r.msg)
             /\ settle' = [settle EXCEPT ![s].todo = @ \ {r}]
    BY <1>2 DEF InterruptPending
  <2>2. r.msg \in Message
    BY <1>0 DEF SettleType, Row
  <2>3. state' \in [Message -> MessageState] /\ drain' \in DrainType
    BY <2>1, <2>2, SettleTransitionType
  <2>4. settle' \in [Settler -> SettleType]
    BY <1>0, <2>1 DEF SettleThrows, SettleType
  <2> QED
    BY <1>2, <2>3, <2>4 DEF InterruptPending, bounds
<1>3. CASE CaptureAccepted(s)
  <2>1. PICK live \in { Accepted \cap wrapper, Accepted } :
          settle' = [settle EXCEPT ![s].pc = "accepted", ![s].live = live]
    BY <1>3 DEF CaptureAccepted
  <2>2. live \subseteq Message
    BY <2>1 DEF Accepted
  <2>3. settle' \in [Settler -> SettleType]
    BY <1>0, <2>1, <2>2 DEF SettleType
  <2> QED
    BY <1>0, <1>3, <2>3 DEF CaptureAccepted, storage, bounds
<1>4. CASE InterruptAccepted(s)
  <2>1. PICK m \in settle[s].live :
          \/ SettleThrows(s, m)
          \/ /\ Interrupts(m)
             /\ settle' = [settle EXCEPT ![s].live = @ \ {m}]
    BY <1>4 DEF InterruptAccepted
  <2>2. m \in Message
    BY <1>0 DEF SettleType
  <2>3. state' \in [Message -> MessageState] /\ drain' \in DrainType
    BY <2>1, <2>2, SettleTransitionType
  <2>4. settle' \in [Settler -> SettleType]
    BY <1>0, <2>1 DEF SettleThrows, SettleType
  <2> QED
    BY <1>4, <2>3, <2>4 DEF InterruptAccepted, bounds
<1>5. CASE StopWrapper(s)
  <2>1. settle' \in [Settler -> SettleType]
    BY <1>0, <1>5 DEF StopWrapper, SettleType
  <2> QED
    BY <1>5, <2>1 DEF StopWrapper, bounds
<1>6. CASE DeleteCaptured(s)
  <2>1. PICK r \in Oldest(settle[s].captured) :
          /\ rows' = WithoutMessage(rows, r.msg)
          /\ settle' = [settle EXCEPT ![s].captured = @ \ {r}]
    BY <1>6 DEF DeleteCaptured
  <2>2. rows' \subseteq Row
    BY <2>1 DEF WithoutMessage
  <2>3. settle' \in [Settler -> SettleType]
    BY <1>0, <2>1 DEF SettleType
  <2> QED
    BY <1>0, <1>6, <2>2, <2>3 DEF DeleteCaptured, bounds
<1>7. CASE ClearMarker(s)
  <2>1. settle' \in [Settler -> SettleType] /\ drain' \in DrainType
    BY <1>0, <1>7 DEF ClearMarker, DrainType
  <2> QED
    BY <1>7, <2>1 DEF ClearMarker, bounds
<1> QED
  BY <1>1, <1>2, <1>3, <1>4, <1>5, <1>6, <1>7 DEF Settlement

LEMMA CancellationType ==
  ASSUME TypeOK, Cancellation
  PROVE  TypeOK'
<1> USE DEF TypeOK, StorageType, HandlerType, HistoryType
<1>1. ASSUME NEW m \in Message, CancelRepairs(m) PROVE TypeOK'
  <2>1. state' \in [Message -> MessageState]
    BY <1>1, PutType DEF CancelRepairs, PutQueued, Source
  <2> QED
    BY <1>1, <2>1 DEF CancelRepairs, CallType, bounds
<1>2. ASSUME NEW m \in Message, CancelMarks(m) PROVE TypeOK'
  <2>1. state' \in [Message -> MessageState]
    BY <1>2, TerminalizeOnceType DEF CancelMarks, Source, Terminal
  <2> QED
    BY <1>2, <2>1 DEF CancelMarks, CallType, bounds
<1>3. ASSUME NEW m \in Message, CancelAgain(m) PROVE TypeOK'
  <2>1. events' \subseteq {"queued", "sent", "canceled"} \X Message
    BY <1>3, EventType DEF CancelAgain
  <2> QED
    BY <1>3, <2>1 DEF CancelAgain, handlers, bounds
<1>4. CASE CancelRemovesRow
  <2>1. cancel.msg \in Message
    BY <1>4, CallHoldsMessage DEF CancelRemovesRow
  <2>2. rows' \subseteq Row
    BY <1>4 DEF CancelRemovesRow, WithoutMessage
  <2>3. cancel' = [pc |-> "event", msg |-> cancel.msg]
    BY <1>4 DEF CancelRemovesRow, CallType, IdleCall
  <2> QED
    BY <1>4, <2>1, <2>2, <2>3 DEF CancelRemovesRow, CallType, bounds
<1>5. CASE CancelReports
  <2>1. cancel.msg \in Message
    BY <1>5, CallHoldsMessage DEF CancelReports
  <2>2. events' \subseteq {"queued", "sent", "canceled"} \X Message
    BY <1>5, <2>1, EventType DEF CancelReports
  <2> QED
    BY <1>5, <2>1, <2>2 DEF CancelReports, CallType, bounds
<1> QED
  BY <1>1, <1>2, <1>3, <1>4, <1>5 DEF Cancellation

LEMMA WrapperType ==
  ASSUME TypeOK, Wrapper
  PROVE  TypeOK'
<1> USE DEF TypeOK, StorageType, HandlerType, HistoryType
<1>1. ASSUME NEW m \in Message, TerminalEventInfersAccepted(m) PROVE TypeOK'
  <2>1. state' \in [Message -> MessageState]
    BY <1>1, PutType DEF TerminalEventInfersAccepted, Source
  <2> QED
    BY <1>1, <2>1 DEF TerminalEventInfersAccepted, CallType, bounds
<1>2. ASSUME NEW m \in Message, NEW outcome \in Terminal, TerminalEvent(m, outcome)
      PROVE  TypeOK'
  <2>1. state' \in [Message -> MessageState]
    BY <1>2, TerminalizeOnceType DEF TerminalEvent, Source
  <2>2. events' \subseteq {"queued", "sent", "canceled"} \X Message
    BY <1>2 DEF TerminalEvent, SentEvent
  <2> QED
    BY <1>2, <2>1, <2>2 DEF TerminalEvent, CallType, bounds
<1>3. ASSUME NEW m \in Message, NEW outcome \in Terminal, SettleLost(m, outcome)
      PROVE  TypeOK'
  <2>1. state' \in [Message -> MessageState]
    BY <1>3, TerminalizeOnceType DEF SettleLost, Source
  <2> QED
    BY <1>3, <2>1 DEF SettleLost, handlers, bounds
<1>4. CASE RunEnds \/ RunReplaced
  BY <1>4 DEF RunEnds, RunReplaced, handlers, bounds
<1> QED
  BY <1>1, <1>2, <1>3, <1>4 DEF Wrapper

LEMMA BackoffElapsesType ==
  ASSUME TypeOK, BackoffElapses
  PROVE  TypeOK'
<1> USE DEF TypeOK, StorageType, HandlerType, HistoryType
<1>1. PICK r \in rows :
        rows' = (rows \ {r}) \cup { [r EXCEPT !.delivery.waiting = FALSE] }
  BY DEF BackoffElapses
<1>2. [r EXCEPT !.delivery.waiting = FALSE] \in Row
  BY DEF Row, Delivery
<1> QED
  BY <1>1, <1>2 DEF BackoffElapses, handlers, bounds

LEMMA CrashType ==
  ASSUME TypeOK, Crash
  PROVE  TypeOK'
<1> USE DEF TypeOK, StorageType, HandlerType, HistoryType
<1>1. crashes' \in 0 .. MaxCrashes
  BY QueueAssumption DEF Crash
<1>2. /\ adm' \in [Caller -> CallType({"billing", "row", "state", "effects"})]
      /\ drain' \in DrainType /\ settle' \in [Settler -> SettleType]
      /\ cancel' = IdleCall /\ ingest' = IdleCall
  BY DEF Crash, CallType, IdleDrain, DrainType, IdleSettle, SettleType
<1> QED
  BY <1>1, <1>2 DEF Crash, storage, CallType

LEMMA TypeStep ==
  ASSUME TypeOK, [Next]_vars
  PROVE  TypeOK'
<1>1. CASE UNCHANGED vars
  BY <1>1 DEF vars, storage, handlers, bounds, TypeOK, StorageType, HandlerType, HistoryType
<1>2. CASE Next
  BY <1>2, AdmissionType, AlarmType, InterruptStartsType, SettlementType, CancellationType,
     WrapperType, BackoffElapsesType, CrashType DEF Next
<1> QED
  BY <1>1, <1>2

(* Storage, handlers and history keep their types (TypeOK), whatever the   *)
(* handlers interleave and wherever the object crashes.                    *)
THEOREM TypeCorrect == Spec => []TypeOK
<1>1. TypeOK /\ [Next]_vars => TypeOK'
  BY TypeStep
<1> QED
  BY <1>1, InitType, PTL DEF Spec
================================================================================
