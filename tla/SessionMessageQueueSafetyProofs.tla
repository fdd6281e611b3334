-------------------- MODULE SessionMessageQueueSafetyProofs --------------------
(***************************************************************************)
(* Proofs that the message queue loses no admitted work, settles every     *)
(* message once, keeps the order of admission and stays within its limit,  *)
(* for every number of messages, rows, interruptions and crashes, as long  *)
(* as no two admissions await the billing answer at the same time          *)
(* (OneAdmission; without it the promises fail), and that a single         *)
(* interruption does not forget what it has captured.                      *)
(***************************************************************************)
EXTENDS SessionMessageQueueProofs, FiniteSetTheorems

OneAdmission == BillingChecked => \A c, d \in Caller : c = d

Status(m) == state[m].status

Exists(m) == Status(m) # "none"

Settled(m) == Status(m) \in Terminal

LeftQueue(m) == Status(m) \in {"accepted"} \cup Terminal

-----------------------------------------------------------------------------
(* The inductive invariant: what a handler checked before a step it still    *)
(* relies on after it.                                                      *)

(* The message an admission found new stays new until its row is written,   *)
(* and exists once the admission reports it.                                *)
AdmissionHolds ==
  \A c \in Caller :
    /\ adm[c].pc = "billing" => BillingChecked
    /\ adm[c].pc \in {"row", "state", "effects"} => gate = c
    /\ adm[c].pc \in {"billing", "row"} =>
         ~ Exists(adm[c].msg) /\ adm[c].msg \notin Messages(rows)
    /\ adm[c].pc = "state" =>
         ~ Exists(adm[c].msg) /\ adm[c].msg \in Messages(rows)
    /\ adm[c].pc = "effects" => Exists(adm[c].msg)

(* The message under delivery exists, and the drain removes a row only when *)
(* its message has left the queue and its sent event is persisted.          *)
DrainHolds ==
  /\ drain.pc \in {"deliver", "posted", "terminalize"} => Exists(drain.row.msg)
  /\ drain.pc \in {"accepted", "remove"} => LeftQueue(drain.row.msg)
  /\ drain.pc = "remove" /\ Status(drain.row.msg) = "accepted" =>
       <<"sent", drain.row.msg>> \in events

(* An interruption deletes the captured rows of settled messages only, and  *)
(* repairs a missing state only while the row is there.                     *)
SettlementHolds ==
  \A s \in Settler :
    /\ settle[s].pc \in {"accepted", "delete"} => settle[s].todo = {}
    /\ \A r \in settle[s].captured : r \in settle[s].todo \/ Settled(r.msg)
    /\ \A r \in settle[s].todo : Exists(r.msg) \/ r.msg \in Messages(rows)

CancelHolds == cancel.pc = "remove" => Settled(cancel.msg)

(* A run only holds, and a row only exhausts, messages that exist. *)
RunHolds == \A m \in wrapper : Exists(m)

ExhaustedHolds == \A r \in rows : r.delivery.disposition # None => Exists(r.msg)

HandlersHold ==
  AdmissionHolds /\ DrainHolds /\ SettlementHolds /\ CancelHolds /\ RunHolds

QueueInv ==
  /\ TypeOK /\ HandlersHold /\ ExhaustedHolds
  /\ AdmissionIsDurable /\ OneRowPerMessage /\ SentBeforeRowRemoved

-----------------------------------------------------------------------------
(* What every step does to the storage. *)

Advance(from, to) ==
  \/ from = "none" /\ to = "queued"
  \/ from = "queued" /\ to \in {"accepted", "failed", "interrupted"}
  \/ from = "accepted" /\ to \in Terminal

Transition ==
  \/ UNCHANGED state
  \/ \E m \in Message, to \in {"queued", "accepted"} \cup Terminal, source \in Source :
       Put(m, to, source) /\ Advance(Status(m), to)

(* A row leaves with a message that left the queue and reported it. *)
RowsLeave ==
  \A m \in Messages(rows) \ Messages(rows') :
    /\ LeftQueue(m)
    /\ Status(m) = "accepted" => <<"sent", m>> \in events'

(* A message comes to exist with its row. *)
RowsCover == \A m \in Message : ~ Exists(m) /\ Exists(m)' => m \in Messages(rows')

StepHolds ==
  /\ Transition /\ RowsLeave /\ RowsCover
  /\ events \subseteq events'
  /\ \A m \in acked' : m \in acked \/ (m \in Message /\ Exists(m))

(* Handlers other than an admission give no new message a row or a state. *)
NothingNew ==
  \A m \in Message :
    ~ Exists(m) /\ m \notin Messages(rows) => ~ Exists(m)' /\ m \notin Messages(rows')

(* A status only moves forward, and a settled message keeps its outcome. *)
LEMMA TransitionAdvances ==
  ASSUME TypeOK, Transition, NEW m \in Message
  PROVE  /\ Status(m)' = Status(m) \/ Advance(Status(m), Status(m)')
         /\ Settled(m) => state'[m] = state[m]
<1>1. CASE UNCHANGED state
  BY <1>1 DEF Status
<1>2. CASE \E n \in Message, to \in {"queued", "accepted"} \cup Terminal, source \in Source :
             Put(n, to, source) /\ Advance(Status(n), to)
  <2>1. PICK n \in Message, to \in {"queued", "accepted"} \cup Terminal, source \in Source :
          Put(n, to, source) /\ Advance(Status(n), to)
    BY <1>2
  <2>2. CASE n = m
    <3>1. state'[m] = [status |-> to, source |-> source]
      BY <2>1, <2>2 DEF Put, TypeOK, StorageType
    <3>2. Status(m)' = to
      BY <3>1 DEF Status
    <3>3. ~ Settled(m)
      BY <2>1, <2>2 DEF Settled, Advance, Terminal
    <3> QED
      BY <2>1, <2>2, <3>2, <3>3
  <2>3. CASE n # m
    BY <2>1, <2>3 DEF Put, Status, TypeOK, StorageType
  <2> QED
    BY <2>2, <2>3
<1> QED
  BY <1>1, <1>2 DEF Transition

LEMMA TransitionKeeps ==
  ASSUME TypeOK, Transition, NEW m \in Message
  PROVE  /\ Exists(m) => Exists(m)'
         /\ Settled(m) => Settled(m)'
         /\ LeftQueue(m) => LeftQueue(m)'
         /\ Status(m)' = "queued" => Status(m) \in {"none", "queued"}
         /\ Status(m)' = "accepted" => Status(m) \in {"queued", "accepted"}
  BY TransitionAdvances DEF Exists, Settled, LeftQueue, Advance, Terminal

LEMMA StorageKept ==
  ASSUME QueueInv, StepHolds
  PROVE  AdmissionIsDurable' /\ SentBeforeRowRemoved'
<1> USE DEF QueueInv, StepHolds
<1>1. ASSUME NEW m \in acked' PROVE Exists(m)'
  <2>1. m \in Message /\ Exists(m)
    BY <1>1 DEF AdmissionIsDurable, TypeOK, HistoryType, Exists, Status
  <2> QED
    BY <2>1, TransitionKeeps
<1>2. ASSUME NEW m \in Message, Status(m)' = "queued" PROVE m \in Messages(rows')
  <2>1. CASE Status(m) = "none"
    BY <1>2, <2>1 DEF RowsCover, Exists
  <2>2. CASE Status(m) = "queued"
    BY <2>2 DEF AdmissionIsDurable, RowsLeave, LeftQueue, Status, Terminal
  <2> QED
    BY <1>2, <2>1, <2>2, TransitionKeeps
<1>3. ASSUME NEW m \in Message, Status(m)' = "accepted", m \notin Messages(rows')
      PROVE  <<"sent", m>> \in events'
  <2>1. CASE Status(m) = "queued"
    BY <1>3, <2>1 DEF AdmissionIsDurable, RowsLeave, LeftQueue, Status, Terminal
  <2>2. CASE Status(m) = "accepted"
    BY <1>3, <2>2 DEF SentBeforeRowRemoved, RowsLeave, Status
  <2> QED
    BY <1>3, <2>1, <2>2, TransitionKeeps
<1> QED
  BY <1>1, <1>2, <1>3 DEF AdmissionIsDurable, SentBeforeRowRemoved, Exists, Status, Messages

-----------------------------------------------------------------------------
(* Facts about the rows and the states one step writes. *)

LEMMA WithoutMessageDrops ==
  ASSUME NEW rs, NEW m
  PROVE  /\ WithoutMessage(rs, m) \subseteq rs
         /\ Messages(WithoutMessage(rs, m)) = Messages(rs) \ {m}
  BY DEF WithoutMessage, Messages

(* The row written back stands for its message alone, under whatever key. *)
LEMMA ReplaceRowReplaces ==
  ASSUME NEW rs \in SUBSET Row, NEW r \in Row, NEW d \in Delivery
  PROVE  \E at \in Nat :
           LET new == [ at |-> at, msg |-> r.msg, delivery |-> d ]
           IN ReplaceRow(rs, r, d) = WithoutMessage(rs, r.msg) \cup {new}
<1> DEFINE mine == { q \in rs : q.msg = r.msg }
           at == IF r.at \in { q.at : q \in mine } \/ mine = {}
                   THEN r.at ELSE CHOOSE x \in { q.at : q \in mine } : TRUE
<1>1. at \in Nat
  <2>1. CASE r.at \in { q.at : q \in mine } \/ mine = {}
    BY <2>1 DEF Row
  <2>2. CASE ~ (r.at \in { q.at : q \in mine } \/ mine = {})
    <3>1. \E x \in { q.at : q \in mine } : TRUE
      BY <2>2
    <3>2. { q.at : q \in mine } \subseteq Nat
      BY DEF Row
    <3> QED
      BY <2>2, <3>1, <3>2
  <2> QED
    BY <2>1, <2>2
<1>2. ReplaceRow(rs, r, d) =
        WithoutMessage(rs, r.msg) \cup { [ at |-> at, msg |-> r.msg, delivery |-> d ] }
  BY DEF ReplaceRow
<1> QED
  BY <1>1, <1>2

LEMMA TerminalizeOnceSettles ==
  ASSUME TypeOK, NEW m \in Message, NEW status \in Terminal, NEW source \in Source,
         TerminalizeOnce(m, status, source),
         status = "completed" => Status(m) # "queued"
  PROVE  /\ Transition
         /\ \A n \in Message : Exists(n)' => Exists(n)
         /\ Exists(m) => Settled(m)'
<1>1. CASE Status(m) \in {"queued", "accepted"}
  <2>1. Put(m, status, source)
    BY <1>1 DEF TerminalizeOnce, Status
  <2>2. Advance(Status(m), status)
    BY <1>1 DEF Advance, Terminal
  <2>3. Transition
    BY <2>1, <2>2 DEF Transition
  <2>4. state'[m] = [status |-> status, source |-> source]
    BY <2>1 DEF Put, TypeOK, StorageType
  <2>5. \A n \in Message : n # m => state'[n] = state[n]
    BY <2>1 DEF Put, TypeOK, StorageType
  <2> QED
    BY <1>1, <2>3, <2>4, <2>5 DEF Exists, Settled, Status
<1>2. CASE Status(m) \notin {"queued", "accepted"}
  <2>1. UNCHANGED state
    BY <1>2 DEF TerminalizeOnce, Status
  <2>2. Exists(m) => Settled(m)
    BY <1>2 DEF TypeOK, StorageType, MessageState, Exists, Settled, Status
  <2> QED
    BY <2>1, <2>2 DEF Transition, Exists, Settled, Status
<1> QED
  BY <1>1, <1>2

LEMMA PutAdvances ==
  ASSUME TypeOK, NEW m \in Message, NEW to \in {"queued", "accepted"} \cup Terminal,
         NEW source \in Source, Put(m, to, source), Advance(Status(m), to)
  PROVE  /\ Transition
         /\ Status(m)' = to
         /\ \A n \in Message : n # m => Status(n)' = Status(n)
  BY DEF Put, Transition, Status, TypeOK, StorageType

-----------------------------------------------------------------------------
(* The shapes of the steps of handlers other than admission. *)

Kept == StepHolds /\ NothingNew /\ ExhaustedHolds' /\ OneRowPerMessage'

(* Nothing but a state changes, and it is that of a message in the queue. *)
LEMMA StateStep ==
  ASSUME QueueInv, UNCHANGED <<rows, acked>>, events \subseteq events', Transition,
         \A m \in Message : ~ Exists(m) /\ Exists(m)' => m \in Messages(rows)
  PROVE  Kept
<1>1. Messages(rows') = Messages(rows)
  BY DEF Messages
<1>2. acked \subseteq Message /\ \A m \in acked : Exists(m)
  BY DEF QueueInv, TypeOK, HistoryType, AdmissionIsDurable, Exists, Status
<1>3. StepHolds
  BY <1>1, <1>2 DEF StepHolds, RowsLeave, RowsCover
<1>4. NothingNew
  BY <1>1 DEF NothingNew
<1>5. ASSUME NEW r \in rows', r.delivery.disposition # None PROVE Exists(r.msg)'
  <2>1. Exists(r.msg) /\ r.msg \in Message
    BY <1>5 DEF QueueInv, ExhaustedHolds, TypeOK, StorageType, Row
  <2> QED
    BY <2>1, TransitionKeeps DEF QueueInv
<1>6. OneRowPerMessage'
  BY DEF QueueInv, OneRowPerMessage
<1> QED
  BY <1>3, <1>4, <1>5, <1>6 DEF Kept, ExhaustedHolds

LEMMA QuietStep ==
  ASSUME QueueInv, UNCHANGED <<rows, state, acked>>, events \subseteq events'
  PROVE  Kept
<1>1. Transition
  BY DEF Transition
<1>2. \A m \in Message : ~ (~ Exists(m) /\ Exists(m)')
  BY DEF Exists, Status
<1> QED
  BY <1>1, <1>2, StateStep

(* The rows of a message that left the queue are removed. *)
LEMMA RemovalStep ==
  ASSUME QueueInv, UNCHANGED <<state, acked>>, events \subseteq events',
         NEW m \in Message, rows' = WithoutMessage(rows, m), LeftQueue(m),
         Status(m) = "accepted" => <<"sent", m>> \in events'
  PROVE  Kept
<1>1. rows' \subseteq rows /\ Messages(rows') = Messages(rows) \ {m}
  BY WithoutMessageDrops
<1>2. acked \subseteq Message /\ \A n \in acked : Exists(n)
  BY DEF QueueInv, TypeOK, HistoryType, AdmissionIsDurable, Exists, Status
<1>3. \A n \in Message : Exists(n)' <=> Exists(n)
  BY DEF Exists, Status
<1>4. StepHolds
  BY <1>1, <1>2, <1>3 DEF StepHolds, Transition, RowsLeave, RowsCover
<1>5. NothingNew
  BY <1>1, <1>3 DEF NothingNew
<1>6. ExhaustedHolds'
  BY <1>1 DEF QueueInv, ExhaustedHolds, Exists, Status
<1>7. OneRowPerMessage'
  BY <1>1 DEF QueueInv, OneRowPerMessage
<1> QED
  BY <1>4, <1>5, <1>6, <1>7 DEF Kept

(* A failed delivery writes back the row of a message that exists. *)
LEMMA WriteBackStep ==
  ASSUME QueueInv, UNCHANGED <<state, acked>>, events \subseteq events',
         NEW r \in Row, NEW d \in Delivery, rows' = ReplaceRow(rows, r, d),
         r.msg \in Message, Exists(r.msg)
  PROVE  Kept
<1>1. PICK new \in Row :
        /\ new.msg = r.msg
        /\ rows' = WithoutMessage(rows, r.msg) \cup {new}
  <2>1. rows \in SUBSET Row
    BY DEF QueueInv, TypeOK, StorageType
  <2>2. PICK at \in Nat :
          rows' = WithoutMessage(rows, r.msg)
                    \cup { [ at |-> at, msg |-> r.msg, delivery |-> d ] }
    BY <2>1, ReplaceRowReplaces
  <2>3. [ at |-> at, msg |-> r.msg, delivery |-> d ] \in Row
    BY DEF Row
  <2> QED
    BY <2>2, <2>3
<1>2. Messages(rows') = Messages(rows) \cup {r.msg}
  BY <1>1 DEF WithoutMessage, Messages
<1>3. acked \subseteq Message /\ \A n \in acked : Exists(n)
  BY DEF QueueInv, TypeOK, HistoryType, AdmissionIsDurable, Exists, Status
<1>4. \A n \in Message : Exists(n)' <=> Exists(n)
  BY DEF Exists, Status
<1>5. StepHolds
  BY <1>2, <1>3, <1>4 DEF StepHolds, Transition, RowsLeave, RowsCover
<1>6. NothingNew
  BY <1>2, <1>4 DEF NothingNew
<1>7. ExhaustedHolds'
  BY <1>1 DEF QueueInv, ExhaustedHolds, WithoutMessage, Exists, Status
<1>8. OneRowPerMessage'
  BY <1>1 DEF QueueInv, OneRowPerMessage, WithoutMessage
<1> QED
  BY <1>5, <1>6, <1>7, <1>8 DEF Kept

-----------------------------------------------------------------------------
(* What a handler relies on survives the steps of the others. *)

LEMMA DrainUntouched ==
  ASSUME QueueInv, StepHolds, UNCHANGED drain
  PROVE  DrainHolds'
<1>1. CASE drain.pc \in {"deliver", "posted", "accepted", "remove", "terminalize"}
  <2>1. drain.row.msg \in Message
    BY <1>1, DrainHoldsRow DEF QueueInv, TypeOK, HandlerType
  <2>2. drain.row.msg' = drain.row.msg
    OBVIOUS
  <2>3. drain.pc \in {"deliver", "posted", "terminalize"} => Exists(drain.row.msg)'
    BY <2>1, TransitionKeeps DEF QueueInv, HandlersHold, DrainHolds, StepHolds, Exists, Status
  <2>4. drain.pc \in {"accepted", "remove"} => LeftQueue(drain.row.msg)'
    BY <2>1, TransitionKeeps DEF QueueInv, HandlersHold, DrainHolds, StepHolds, LeftQueue, Status
  <2>5. ASSUME drain.pc = "remove", Status(drain.row.msg)' = "accepted"
        PROVE  <<"sent", drain.row.msg>> \in events'
    <3>1. Status(drain.row.msg) \in {"queued", "accepted"}
      BY <2>1, <2>5, TransitionKeeps DEF QueueInv, StepHolds, Status
    <3>2. Status(drain.row.msg) = "accepted"
      BY <2>5, <3>1 DEF QueueInv, HandlersHold, DrainHolds, LeftQueue, Terminal
    <3> QED
      BY <2>5, <3>2 DEF QueueInv, HandlersHold, DrainHolds, StepHolds
  <2> QED
    BY <2>3, <2>4, <2>5 DEF DrainHolds, Exists, LeftQueue, Status
<1>2. CASE drain.pc \notin {"deliver", "posted", "accepted", "remove", "terminalize"}
  BY <1>2 DEF DrainHolds
<1> QED
  BY <1>1, <1>2

(* Every captured or remaining row of an interruption stays justified. *)
LEMMA SettlementUntouched ==
  ASSUME QueueInv, StepHolds, NEW s \in Settler, NEW r \in Row
  PROVE  /\ Settled(r.msg) => Settled(r.msg)'
         /\ Exists(r.msg) \/ r.msg \in Messages(rows)
              => Exists(r.msg)' \/ r.msg \in Messages(rows')
<1>1. r.msg \in Message
  BY DEF Row
<1>2. r.msg \in Messages(rows) \ Messages(rows') => Exists(r.msg)
  BY DEF StepHolds, RowsLeave, LeftQueue, Exists, Terminal
<1> QED
  BY <1>1, <1>2, TransitionKeeps DEF QueueInv, StepHolds

LEMMA SettlementsUntouched ==
  ASSUME QueueInv, StepHolds, UNCHANGED settle
  PROVE  SettlementHolds'
<1> SUFFICES ASSUME NEW s \in Settler
             PROVE  /\ settle[s].pc \in {"accepted", "delete"} => settle[s].todo = {}
                    /\ \A r \in settle[s].captured : r \in settle[s].todo \/ Settled(r.msg)'
                    /\ \A r \in settle[s].todo : Exists(r.msg)' \/ r.msg \in Messages(rows')
  BY DEF SettlementHolds, Settled, Exists, Status, Messages
<1>1. settle[s].captured \subseteq Row /\ settle[s].todo \subseteq Row
  BY DEF QueueInv, TypeOK, HandlerType, SettleType
<1> QED
  BY <1>1, SettlementUntouched DEF QueueInv, HandlersHold, SettlementHolds

LEMMA CancelUntouched ==
  ASSUME QueueInv, StepHolds, UNCHANGED cancel
  PROVE  CancelHolds'
<1>1. cancel.pc = "remove" => cancel.msg \in Message
  BY CallHoldsMessage DEF QueueInv, TypeOK, HandlerType
<1> QED
  BY <1>1, TransitionKeeps DEF QueueInv, HandlersHold, CancelHolds, StepHolds, Settled, Status

LEMMA RunUntouched ==
  ASSUME QueueInv, StepHolds, wrapper' \subseteq wrapper
  PROVE  RunHolds'
<1> SUFFICES ASSUME NEW m \in wrapper PROVE Exists(m)'
  BY DEF RunHolds, Exists, Status
<1>1. m \in Message /\ Exists(m)
  BY DEF QueueInv, TypeOK, HistoryType, HandlersHold, RunHolds
<1> QED
  BY <1>1, TransitionKeeps DEF QueueInv, StepHolds

(* Outside an admission's own segments only admissions that await the       *)
(* billing answer are under way, and their message stays new.               *)
LEMMA AdmissionUntouched ==
  ASSUME QueueInv, NothingNew, UNCHANGED adm, gate \notin Caller
  PROVE  AdmissionHolds'
<1> SUFFICES ASSUME NEW c \in Caller
             PROVE  /\ adm[c].pc \notin {"row", "state", "effects"}
                    /\ adm[c].pc = "billing" =>
                         /\ BillingChecked
                         /\ ~ Exists(adm[c].msg)' /\ adm[c].msg \notin Messages(rows')
  BY DEF AdmissionHolds, Exists, Status, Messages
<1>1. adm[c].pc \notin {"row", "state", "effects"}
  BY DEF QueueInv, HandlersHold, AdmissionHolds
<1>2. adm[c].pc = "billing" => adm[c].msg \in Message
  BY CallHoldsMessage DEF QueueInv, TypeOK, HandlerType
<1> QED
  BY <1>1, <1>2 DEF QueueInv, HandlersHold, AdmissionHolds, NothingNew

-----------------------------------------------------------------------------
(* The steps, one group of handlers at a time. *)

Preserved == StepHolds /\ HandlersHold' /\ ExhaustedHolds' /\ OneRowPerMessage'

LEMMA GatesAreNotCallers ==
  {"open", "alarm", "interrupt", "cancel", "ingest"} \cap Caller = {}
  BY QueueAssumption

(* A handler that is not an admission answers only for what it changes. *)
LEMMA HandlerPreserves ==
  ASSUME QueueInv, Kept, UNCHANGED adm, gate \notin Caller,
         DrainHolds' \/ UNCHANGED drain, SettlementHolds' \/ UNCHANGED settle,
         CancelHolds' \/ UNCHANGED cancel, RunHolds' \/ wrapper' \subseteq wrapper
  PROVE  Preserved
  BY DrainUntouched, SettlementsUntouched, CancelUntouched, RunUntouched, AdmissionUntouched
     DEF Kept, Preserved, HandlersHold

LEMMA AlarmPreserves ==
  ASSUME QueueInv, Alarm
  PROVE  Preserved
<1> USE GatesAreNotCallers
<1>0. TypeOK /\ rows \subseteq Row /\ DrainHolds
  BY DEF QueueInv, TypeOK, StorageType, HandlersHold
<1>1. CASE AlarmFires
  <2>1. Kept
    BY <1>1, QuietStep DEF AlarmFires, storage
  <2>2. DrainHolds'
    BY <1>1 DEF AlarmFires, DrainGoesTo, DrainHolds
  <2> QED
    BY <1>1, <2>1, <2>2, HandlerPreserves DEF AlarmFires
<1>2. CASE NothingToRecover
  <2>1. Kept
    BY <1>2, QuietStep DEF NothingToRecover, storage
  <2>2. DrainHolds'
    BY <1>2 DEF NothingToRecover, DrainGoesTo, DrainHolds
  <2> QED
    BY <1>2, <2>1, <2>2, HandlerPreserves DEF NothingToRecover
<1>3. CASE RecoverInterruption
  <2>1. Kept
    BY <1>3, QuietStep DEF RecoverInterruption, storage
  <2>2. DrainHolds'
    BY <1>3 DEF RecoverInterruption, DrainGoesTo, DrainHolds
  <2>3. SettlementHolds'
    <3> DEFINE captured == { r \in rows : r.msg \in marker.msgs }
    <3>1. settle \in [Settler -> SettleType] /\ SettlementHolds
      BY DEF QueueInv, TypeOK, HandlerType, HandlersHold
    <3>2. /\ UNCHANGED <<rows, state>>
          /\ settle' = [settle EXCEPT !["alarm"] =
                          [ pc |-> "pending", todo |-> captured,
                            live |-> {}, captured |-> captured ]]
      BY <1>3 DEF RecoverInterruption, storage
    <3>3. \A r \in captured : r.msg \in Messages(rows)
      BY DEF Messages
    <3> QED
      BY <3>1, <3>2, <3>3 DEF SettlementHolds, Settler, Settled, Exists, Status, Messages
  <2> QED
    BY <1>3, <2>1, <2>2, <2>3, HandlerPreserves DEF RecoverInterruption
<1>4. CASE FlushYields
  <2>1. Kept
    BY <1>4, QuietStep DEF FlushYields, storage
  <2>2. DrainHolds'
    BY <1>4 DEF FlushYields, IdleDrain, DrainHolds
  <2> QED
    BY <1>4, <2>1, <2>2, HandlerPreserves DEF FlushYields
<1>5. CASE FlushResidue
  <2>1. PICK r \in rows : /\ state[r.msg].status \in {"accepted"} \cup Terminal
                          /\ rows' = WithoutMessage(rows, r.msg)
                          /\ events' = SentEvent(r.msg)
    BY <1>5 DEF FlushResidue
  <2>2. r.msg \in Message /\ LeftQueue(r.msg)
    BY <1>0, <2>1 DEF Row, LeftQueue, Status
  <2>3. events \subseteq events'
    BY <2>1 DEF SentEvent
  <2>4. Status(r.msg) = "accepted" => <<"sent", r.msg>> \in events'
    BY <2>1 DEF SentEvent, Status
  <2>5. Kept
    BY <1>5, <2>1, <2>2, <2>3, <2>4, RemovalStep DEF FlushResidue
  <2>6. DrainHolds'
    BY <1>5 DEF FlushResidue, IdleDrain, DrainHolds
  <2> QED
    BY <1>5, <2>5, <2>6, HandlerPreserves DEF FlushResidue
<1>6. CASE FlushExhausted
  <2>1. PICK r \in rows : r.delivery.disposition # None /\ DrainGoesTo("terminalize", r)
    BY <1>6 DEF FlushExhausted
  <2>2. Kept
    BY <1>6, QuietStep DEF FlushExhausted, storage
  <2>3. Exists(r.msg)
    BY <2>1 DEF QueueInv, ExhaustedHolds
  <2>4. DrainHolds'
    BY <1>6, <2>1, <2>3 DEF FlushExhausted, DrainGoesTo, DrainHolds, storage, Exists, Status
  <2> QED
    BY <1>6, <2>2, <2>4, HandlerPreserves DEF FlushExhausted
<1>7. CASE FlushDelivers
  <2>1. PICK r \in rows :
          /\ IF state[r.msg].status = "none" THEN PutQueued(r.msg) ELSE UNCHANGED state
          /\ events' = events \cup { <<"queued", r.msg>> }
          /\ DrainGoesTo("deliver", r)
    BY <1>7 DEF FlushDelivers
  <2>2. r.msg \in Message /\ r.msg \in Messages(rows)
    BY <1>0 DEF Row, Messages
  <2>3. /\ Transition /\ Exists(r.msg)'
        /\ \A m \in Message : ~ Exists(m) /\ Exists(m)' => m \in Messages(rows)
    <3>1. CASE state[r.msg].status = "none"
      <4>1. Put(r.msg, "queued", None) /\ Advance(Status(r.msg), "queued")
        BY <2>1, <3>1 DEF PutQueued, Advance, Status
      <4>2. /\ Transition /\ Status(r.msg)' = "queued"
            /\ \A m \in Message : m # r.msg => Status(m)' = Status(m)
        BY <1>0, <2>2, <4>1, PutAdvances DEF Source
      <4> QED
        BY <2>2, <4>2 DEF Exists
    <3>2. CASE state[r.msg].status # "none"
      BY <2>1, <3>2 DEF Transition, Exists, Status
    <3> QED
      BY <3>1, <3>2
  <2>4. Kept
    BY <1>7, <2>1, <2>3, StateStep DEF FlushDelivers
  <2>5. DrainHolds'
    BY <2>1, <2>3 DEF DrainGoesTo, DrainHolds, Exists, Status
  <2> QED
    BY <1>7, <2>4, <2>5, HandlerPreserves DEF FlushDelivers
<1>8. CASE WrapperTakes
  <2>1. Kept
    BY <1>8, QuietStep DEF WrapperTakes, storage
  <2>2. DrainHolds'
    BY <1>0, <1>8 DEF WrapperTakes, DrainGoesTo, DrainHolds, storage, Exists, Status
  <2>3. RunHolds'
    BY <1>0, <1>8 DEF WrapperTakes, DrainHolds, storage, QueueInv, HandlersHold, RunHolds,
                      Exists, Status
  <2> QED
    BY <1>8, <2>1, <2>2, <2>3, HandlerPreserves DEF WrapperTakes
<1>9. CASE DeliveryAccepted
  <2>1. PICK m \in Message : m = drain.row.msg /\ Exists(m)
    BY <1>0, <1>9, DrainHoldsRow DEF DeliveryAccepted, TypeOK, HandlerType, DrainHolds
  <2>2. IF state[m].status \in {"none", "queued"}
          THEN Put(m, "accepted", None) ELSE UNCHANGED state
    BY <1>9, <2>1 DEF DeliveryAccepted
  <2>3. /\ Transition /\ LeftQueue(m)'
        /\ \A n \in Message : ~ Exists(n) /\ Exists(n)' => n \in Messages(rows)
    <3>1. CASE state[m].status \in {"none", "queued"}
      <4>1. Put(m, "accepted", None) /\ Advance(Status(m), "accepted")
        BY <2>1, <2>2, <3>1 DEF Advance, Exists, Status
      <4>2. /\ Transition /\ Status(m)' = "accepted"
            /\ \A n \in Message : n # m => Status(n)' = Status(n)
        BY <1>0, <2>1, <4>1, PutAdvances DEF Source
      <4> QED
        BY <2>1, <4>2 DEF LeftQueue, Exists
    <3>2. CASE state[m].status \notin {"none", "queued"}
      BY <1>0, <2>1, <2>2, <3>2
      DEF Transition, LeftQueue, Exists, Status, TypeOK, StorageType, MessageState
    <3> QED
      BY <3>1, <3>2
  <2>4. Kept
    BY <1>9, <2>3, StateStep DEF DeliveryAccepted
  <2>5. DrainHolds'
    BY <1>9, <2>1, <2>3 DEF DeliveryAccepted, DrainGoesTo, DrainHolds, LeftQueue, Status
  <2> QED
    BY <1>9, <2>4, <2>5, HandlerPreserves DEF DeliveryAccepted
<1>10. CASE AcceptedEffects
  <2>1. Kept
    BY <1>10, QuietStep DEF AcceptedEffects
  <2>2. DrainHolds'
    BY <1>0, <1>10 DEF AcceptedEffects, DrainGoesTo, DrainHolds, LeftQueue, Status
  <2> QED
    BY <1>10, <2>1, <2>2, HandlerPreserves DEF AcceptedEffects
<1>11. CASE DrainRemovesRow
  <2>1. drain.row.msg \in Message
    BY <1>0, <1>11, DrainHoldsRow DEF DrainRemovesRow, TypeOK, HandlerType
  <2>2. Kept
    BY <1>0, <1>11, <2>1, RemovalStep DEF DrainRemovesRow, DrainHolds
  <2>3. DrainHolds'
    BY <1>11 DEF DrainRemovesRow, IdleDrain, DrainHolds
  <2> QED
    BY <1>11, <2>2, <2>3, HandlerPreserves DEF DrainRemovesRow
<1>12. ASSUME NEW f \in Failures, DeliveryFails(f[1], f[2]) PROVE Preserved
  <2> DEFINE d == RecordFlushFailure(drain.row.delivery, f[1], f[2])
  <2>1. drain.row \in Row /\ drain.row.msg \in Message /\ drain.row.delivery \in Delivery
    BY <1>0, <1>12, DrainHoldsRow DEF DeliveryFails, TypeOK, HandlerType
  <2>2. d \in Delivery
    BY <2>1, QueueAssumption, RecordFlushFailureType
  <2>3. /\ rows' = ReplaceRow(rows, drain.row, d)
        /\ drain' = IF d.disposition # None
                      THEN [ pc |-> "terminalize",
                             row |-> [drain.row EXCEPT !.delivery = d] ]
                      ELSE IdleDrain
        /\ gate = "open" /\ drain.pc \in {"deliver", "posted"}
        /\ UNCHANGED <<state, events, wrapper, adm, settle, cancel, acked>>
    BY <1>12 DEF DeliveryFails
  <2> HIDE DEF d
  <2>4. Exists(drain.row.msg)
    BY <1>0, <2>3 DEF DrainHolds
  <2>5. Kept
    BY <2>1, <2>2, <2>3, <2>4, WriteBackStep
  <2>6. DrainHolds'
    BY <2>1, <2>3, <2>4 DEF DrainHolds, IdleDrain, Exists, Status, Row
  <2> QED
    BY <2>3, <2>5, <2>6, HandlerPreserves
<1>13. CASE DeliveryHeld
  <2>1. Kept
    BY <1>13, QuietStep DEF DeliveryHeld
  <2>2. DrainHolds'
    BY <1>13 DEF DeliveryHeld, IdleDrain, DrainHolds
  <2> QED
    BY <1>13, <2>1, <2>2, HandlerPreserves DEF DeliveryHeld
<1>14. CASE DeliverySkipped
  <2>1. Kept
    BY <1>14, QuietStep DEF DeliverySkipped, storage
  <2>2. DrainHolds'
    BY <1>14 DEF DeliverySkipped, IdleDrain, DrainHolds
  <2> QED
    BY <1>14, <2>1, <2>2, HandlerPreserves DEF DeliverySkipped
<1>15. CASE DeliveryGivenUp
  <2>1. PICK m \in Message : m = drain.row.msg /\ Exists(m)
    BY <1>0, <1>15, DrainHoldsRow DEF DeliveryGivenUp, TypeOK, HandlerType, DrainHolds
  <2>2. /\ Transition /\ Settled(m)'
        /\ \A n \in Message : Exists(n)' => Exists(n)
    BY <1>0, <1>15, <2>1, TerminalizeOnceSettles DEF DeliveryGivenUp, Terminal, Source
  <2>3. Kept
    BY <1>15, <2>2, StateStep DEF DeliveryGivenUp
  <2>4. DrainHolds'
    BY <1>15, <2>1, <2>2
    DEF DeliveryGivenUp, DrainGoesTo, DrainHolds, Settled, LeftQueue, Status, Terminal
  <2> QED
    BY <1>15, <2>3, <2>4, HandlerPreserves DEF DeliveryGivenUp
<1> QED
  BY <1>1, <1>2, <1>3, <1>4, <1>5, <1>6, <1>7, <1>8, <1>9, <1>10, <1>11, <1>12, <1>13,
     <1>14, <1>15 DEF Alarm, Deliver

LEMMA InterruptStartsPreserves ==
  ASSUME QueueInv, InterruptStarts
  PROVE  Preserved
<1> USE GatesAreNotCallers
<1>1. Kept
  BY QuietStep DEF InterruptStarts
<1>2. SettlementHolds'
  <2>1. settle \in [Settler -> SettleType] /\ SettlementHolds
    BY DEF QueueInv, TypeOK, HandlerType, HandlersHold
  <2>2. /\ UNCHANGED <<rows, state>>
        /\ settle' = [settle EXCEPT !["interrupt"] =
                        [ pc |-> "pending", todo |-> rows, live |-> {}, captured |-> rows ]]
    BY DEF InterruptStarts
  <2>3. \A r \in rows : r.msg \in Messages(rows)
    BY DEF Messages
  <2> QED
    BY <2>1, <2>2, <2>3 DEF SettlementHolds, Settler, Settled, Exists, Status, Messages
<1> QED
  BY <1>1, <1>2, HandlerPreserves DEF InterruptStarts

(* One transition of an interruption: it throws and drops its work, or it   *)
(* settles the message it looks at.                                         *)
LEMMA SettleTransition ==
  ASSUME QueueInv, NEW s \in Settler, NEW m \in Message,
         SettleThrows(s, m) \/ Interrupts(m), UNCHANGED <<rows, events, acked>>
  PROVE  /\ Kept
         /\ DrainHolds' \/ UNCHANGED drain
         /\ Interrupts(m) => Settled(m)'
<1>0. TypeOK
  BY DEF QueueInv
<1>1. CASE SettleThrows(s, m)
  <2>1. Kept
    BY <1>1, QuietStep DEF SettleThrows
  <2>2. DrainHolds' \/ UNCHANGED drain
    BY <1>1 DEF SettleThrows, IdleDrain, DrainHolds
  <2>3. ~ Interrupts(m)
    BY <1>1 DEF SettleThrows, Interrupts, Terminal
  <2> QED
    BY <2>1, <2>2, <2>3
<1>2. CASE Interrupts(m)
  <2>1. Exists(m)
    BY <1>2 DEF Interrupts, Exists, Status
  <2>2. /\ Transition /\ Settled(m)'
        /\ \A n \in Message : Exists(n)' => Exists(n)
    BY <1>0, <1>2, <2>1, TerminalizeOnceSettles DEF Interrupts, Terminal, Source
  <2>3. Kept
    BY <2>2, StateStep
  <2> QED
    BY <1>2, <2>2, <2>3 DEF Interrupts
<1> QED
  BY <1>1, <1>2

LEMMA SettlementPreserves ==
  ASSUME QueueInv, NEW s \in Settler, Settlement(s)
  PROVE  Preserved
<1>0. /\ TypeOK /\ SettlementHolds /\ settle \in [Settler -> SettleType]
      /\ settle[s] \in SettleType /\ gate \in {"open", s} => gate \notin Caller
      /\ rows \subseteq Row
  BY GatesAreNotCallers DEF QueueInv, TypeOK, StorageType, HandlerType, HandlersHold, Settler
<1>1. CASE RepairCaptured(s)
  <2>1. PICK r \in settle[s].todo : state[r.msg].status = "none" /\ PutQueued(r.msg)
    BY <1>1 DEF RepairCaptured
  <2>2. r.msg \in Message
    BY <1>0 DEF SettleType, Row
  <2>3. Put(r.msg, "queued", None) /\ Advance(Status(r.msg), "queued")
    BY <2>1 DEF PutQueued, Advance, Status
  <2>4. /\ Transition /\ Status(r.msg)' = "queued"
        /\ \A m \in Message : m # r.msg => Status(m)' = Status(m)
    BY <1>0, <2>2, <2>3, PutAdvances DEF Source
  <2>5. r.msg \in Messages(rows)
    BY <1>0, <2>1 DEF SettlementHolds, Exists, Status
  <2>6. Kept
    BY <1>1, <2>4, <2>5, StateStep DEF RepairCaptured, Exists
  <2> QED
    BY <1>0, <1>1, <2>6, HandlerPreserves DEF RepairCaptured, CanRun, handlers
<1>2. CASE InterruptPending(s)
  <2>1. PICK r \in settle[s].todo :
          /\ settle[s].pc = "pending"
          /\ \/ SettleThrows(s, r.msg)
             \/ /\ Interrupts(r.msg)
                /\ settle' = [settle EXCEPT ![s].todo = @ \ {r}]
    BY <1>2 DEF InterruptPending, NextCaptured
  <2>2. r.msg \in Message
    BY <1>0 DEF SettleType, Row
  <2>3. /\ Kept
        /\ DrainHolds' \/ UNCHANGED drain
        /\ Interrupts(r.msg) => Settled(r.msg)'
    BY <1>2, <2>1, <2>2, SettleTransition DEF InterruptPending
  <2>4. SettlementHolds'
    <3>1. \A t \in Settler, q \in Row :
            /\ Settled(q.msg) => Settled(q.msg)'
            /\ Exists(q.msg) \/ q.msg \in Messages(rows)
                 => Exists(q.msg)' \/ q.msg \in Messages(rows')
      BY <2>3, SettlementUntouched DEF Kept
    <3>2. \A t \in Settler : settle[t].captured \subseteq Row /\ settle[t].todo \subseteq Row
      BY <1>0 DEF SettleType
    <3>3. CASE SettleThrows(s, r.msg)
      BY <1>0, <3>1, <3>2, <3>3
      DEF SettleThrows, IdleSettle, SettlementHolds, Settled, Exists, Status, Messages
    <3>4. CASE /\ Interrupts(r.msg)
               /\ settle' = [settle EXCEPT ![s].todo = @ \ {r}]
      <4>1. Settled(r.msg)'
        BY <2>3, <3>4
      <4>2. \A t \in Settler : /\ settle'[t].pc = settle[t].pc
                               /\ settle'[t].captured = settle[t].captured
                               /\ settle'[t].todo = IF t = s THEN settle[t].todo \ {r}
                                                            ELSE settle[t].todo
        BY <1>0, <3>4 DEF SettleType
      <4> QED
        BY <1>0, <2>1, <3>1, <3>2, <4>1, <4>2 DEF SettlementHolds, Settled, Exists, Status, Messages
    <3> QED
      BY <2>1, <3>3, <3>4
  <2> QED
    BY <1>0, <1>2, <2>3, <2>4, HandlerPreserves DEF InterruptPending, CanRun
<1>3. CASE CaptureAccepted(s)
  <2>1. Kept
    BY <1>3, QuietStep DEF CaptureAccepted, storage
  <2>2. SettlementHolds'
    BY <1>0, <1>3
    DEF CaptureAccepted, storage, SettleType, SettlementHolds, Settled, Exists, Status, Messages
  <2> QED
    BY <1>0, <1>3, <2>1, <2>2, HandlerPreserves DEF CaptureAccepted, CanRun
<1>4. CASE InterruptAccepted(s)
  <2>1. PICK m \in settle[s].live :
          \/ SettleThrows(s, m)
          \/ /\ Interrupts(m)
             /\ settle' = [settle EXCEPT ![s].live = @ \ {m}]
    BY <1>4 DEF InterruptAccepted
  <2>2. m \in Message
    BY <1>0 DEF SettleType
  <2>3. Kept /\ (DrainHolds' \/ UNCHANGED drain)
    BY <1>4, <2>1, <2>2, SettleTransition DEF InterruptAccepted
  <2>4. SettlementHolds'
    <3>1. \A t \in Settler, q \in Row :
            /\ Settled(q.msg) => Settled(q.msg)'
            /\ Exists(q.msg) \/ q.msg \in Messages(rows)
                 => Exists(q.msg)' \/ q.msg \in Messages(rows')
      BY <2>3, SettlementUntouched DEF Kept
    <3>2. \A t \in Settler : settle[t].captured \subseteq Row /\ settle[t].todo \subseteq Row
      BY <1>0 DEF SettleType
    <3>3. CASE SettleThrows(s, m)
      BY <1>0, <3>1, <3>2, <3>3
      DEF SettleThrows, IdleSettle, SettlementHolds, Settled, Exists, Status, Messages
    <3>4. CASE settle' = [settle EXCEPT ![s].live = @ \ {m}]
      <4>1. \A t \in Settler : /\ settle'[t].pc = settle[t].pc
                               /\ settle'[t].captured = settle[t].captured
                               /\ settle'[t].todo = settle[t].todo
        BY <1>0, <3>4 DEF SettleType
      <4> QED
        BY <1>0, <3>1, <3>2, <4>1 DEF SettlementHolds, Settled, Exists, Status, Messages
    <3> QED
      BY <2>1, <3>3, <3>4
  <2> QED
    BY <1>0, <1>4, <2>3, <2>4, HandlerPreserves DEF InterruptAccepted, CanRun
<1>5. CASE StopWrapper(s)
  <2>1. Kept
    BY <1>5, QuietStep DEF StopWrapper
  <2>2. SettlementHolds'
    BY <1>0, <1>5
    DEF StopWrapper, SettleType, SettlementHolds, Settled, Exists, Status, Messages
  <2> QED
    BY <1>0, <1>5, <2>1, <2>2, HandlerPreserves DEF StopWrapper, CanRun
<1>6. CASE DeleteCaptured(s)
  <2>1. PICK r \in settle[s].captured :
          /\ settle[s].pc = "delete"
          /\ rows' = WithoutMessage(rows, r.msg)
          /\ settle' = [settle EXCEPT ![s].captured = @ \ {r}]
    BY <1>6 DEF DeleteCaptured, Oldest
  <2>2. r.msg \in Message /\ Settled(r.msg)
    BY <1>0, <2>1 DEF SettleType, Row, SettlementHolds
  <2>3. Kept
    BY <1>6, <2>1, <2>2, RemovalStep DEF DeleteCaptured, LeftQueue, Settled, Terminal
  <2>4. SettlementHolds'
    <3>1. \A t \in Settler, q \in Row :
            /\ Settled(q.msg) => Settled(q.msg)'
            /\ Exists(q.msg) \/ q.msg \in Messages(rows)
                 => Exists(q.msg)' \/ q.msg \in Messages(rows')
      BY <2>3, SettlementUntouched DEF Kept
    <3>2. \A t \in Settler : settle[t].captured \subseteq Row /\ settle[t].todo \subseteq Row
      BY <1>0 DEF SettleType
    <3>3. \A t \in Settler : /\ settle'[t].pc = settle[t].pc
                             /\ settle'[t].captured \subseteq settle[t].captured
                             /\ settle'[t].todo = settle[t].todo
      BY <1>0, <2>1 DEF SettleType
    <3> QED
      BY <1>0, <3>1, <3>2, <3>3 DEF SettlementHolds, Settled, Exists, Status, Messages
  <2> QED
    BY <1>0, <1>6, <2>3, <2>4, HandlerPreserves DEF DeleteCaptured, CanRun
<1>7. CASE ClearMarker(s)
  <2>1. Kept
    BY <1>7, QuietStep DEF ClearMarker
  <2>2. SettlementHolds'
    BY <1>0, <1>7
    DEF ClearMarker, IdleSettle, SettlementHolds, Settled, Exists, Status, Messages
  <2>3. DrainHolds' \/ UNCHANGED drain
    BY <1>7 DEF ClearMarker, DrainHolds
  <2> QED
    BY <1>0, <1>7, <2>1, <2>2, <2>3, HandlerPreserves DEF ClearMarker, CanRun
<1> QED
  BY <1>1, <1>2, <1>3, <1>4, <1>5, <1>6, <1>7 DEF Settlement

LEMMA CancellationPreserves ==
  ASSUME QueueInv, Cancellation
  PROVE  Preserved
<1> USE GatesAreNotCallers
<1>0. TypeOK /\ rows \subseteq Row
  BY DEF QueueInv, TypeOK, StorageType
<1>1. ASSUME NEW m \in Message, CancelRepairs(m) PROVE Preserved
  <2>1. Put(m, "queued", None) /\ Advance(Status(m), "queued")
    BY <1>1 DEF CancelRepairs, PutQueued, Advance, Status
  <2>2. /\ Transition /\ \A n \in Message : n # m => Status(n)' = Status(n)
    BY <1>0, <2>1, PutAdvances DEF Source
  <2>3. Kept
    BY <1>1, <2>2, StateStep DEF CancelRepairs, Exists
  <2>4. CancelHolds'
    BY <1>1 DEF CancelRepairs, CancelHolds
  <2> QED
    BY <1>1, <2>3, <2>4, HandlerPreserves DEF CancelRepairs
<1>2. ASSUME NEW m \in Message, CancelMarks(m) PROVE Preserved
  <2>1. Exists(m)
    BY <1>2 DEF CancelMarks, Exists, Status
  <2>2. /\ Transition /\ Settled(m)'
        /\ \A n \in Message : Exists(n)' => Exists(n)
    BY <1>0, <1>2, <2>1, TerminalizeOnceSettles DEF CancelMarks, Terminal, Source
  <2>3. Kept
    BY <1>2, <2>2, StateStep DEF CancelMarks
  <2>4. CancelHolds'
    BY <1>2, <2>2 DEF CancelMarks, CancelHolds, Settled, Status
  <2> QED
    BY <1>2, <2>3, <2>4, HandlerPreserves DEF CancelMarks
<1>3. ASSUME NEW m \in Message, CancelAgain(m) PROVE Preserved
  <2>1. Kept
    BY <1>3, QuietStep DEF CancelAgain
  <2> QED
    BY <1>3, <2>1, HandlerPreserves DEF CancelAgain, handlers
<1>4. CASE CancelRemovesRow
  <2>1. cancel.msg \in Message
    BY <1>0, <1>4, CallHoldsMessage DEF CancelRemovesRow, TypeOK, HandlerType
  <2>2. Settled(cancel.msg)
    BY <1>4 DEF CancelRemovesRow, QueueInv, HandlersHold, CancelHolds
  <2>3. Kept
    BY <1>4, <2>1, <2>2, RemovalStep DEF CancelRemovesRow, LeftQueue, Settled, Terminal
  <2>4. CancelHolds'
    BY <1>0, <1>4 DEF CancelRemovesRow, CancelHolds, TypeOK, HandlerType, CallType, IdleCall
  <2> QED
    BY <1>4, <2>3, <2>4, HandlerPreserves DEF CancelRemovesRow
<1>5. CASE CancelReports
  <2>1. Kept
    BY <1>5, QuietStep DEF CancelReports
  <2>2. CancelHolds'
    BY <1>5 DEF CancelReports, CancelHolds, IdleCall
  <2> QED
    BY <1>5, <2>1, <2>2, HandlerPreserves DEF CancelReports
<1> QED
  BY <1>1, <1>2, <1>3, <1>4, <1>5 DEF Cancellation

LEMMA WrapperPreserves ==
  ASSUME QueueInv, Wrapper
  PROVE  Preserved
<1> USE GatesAreNotCallers
<1>0. TypeOK
  BY DEF QueueInv
<1>1. ASSUME NEW m \in Message, TerminalEventInfersAccepted(m) PROVE Preserved
  <2>1. Exists(m)
    BY <1>1 DEF TerminalEventInfersAccepted, QueueInv, HandlersHold, RunHolds
  <2>2. Put(m, "accepted", None) /\ Advance(Status(m), "accepted")
    BY <1>1, <2>1 DEF TerminalEventInfersAccepted, Advance, Exists, Status
  <2>3. /\ Transition /\ \A n \in Message : n # m => Status(n)' = Status(n)
    BY <1>0, <2>2, PutAdvances DEF Source
  <2>4. Kept
    BY <1>1, <2>1, <2>3, StateStep DEF TerminalEventInfersAccepted, Exists
  <2> QED
    BY <1>1, <2>4, HandlerPreserves DEF TerminalEventInfersAccepted
<1>2. ASSUME NEW m \in Message, NEW outcome \in Terminal, TerminalEvent(m, outcome)
      PROVE  Preserved
  <2>1. /\ Transition
        /\ \A n \in Message : Exists(n)' => Exists(n)
    BY <1>0, <1>2, TerminalizeOnceSettles DEF TerminalEvent, Source, Status
  <2>2. events \subseteq events'
    BY <1>2 DEF TerminalEvent, SentEvent
  <2>3. Kept
    BY <1>2, <2>1, <2>2, StateStep DEF TerminalEvent
  <2> QED
    BY <1>2, <2>3, HandlerPreserves DEF TerminalEvent
<1>3. ASSUME NEW m \in Message, NEW outcome \in Terminal, SettleLost(m, outcome)
      PROVE  Preserved
  <2>1. /\ Transition
        /\ \A n \in Message : Exists(n)' => Exists(n)
    BY <1>0, <1>3, TerminalizeOnceSettles DEF SettleLost, Accepted, Source, Status
  <2>2. Kept
    BY <1>3, <2>1, StateStep DEF SettleLost
  <2> QED
    BY <1>3, <2>2, HandlerPreserves DEF SettleLost, handlers
<1>4. CASE RunEnds \/ RunReplaced
  <2>1. Kept
    BY <1>4, QuietStep DEF RunEnds, RunReplaced
  <2> QED
    BY <1>4, <2>1, HandlerPreserves DEF RunEnds, RunReplaced, handlers
<1> QED
  BY <1>1, <1>2, <1>3, <1>4 DEF Wrapper

LEMMA BackoffElapsesPreserves ==
  ASSUME QueueInv, BackoffElapses
  PROVE  Preserved
<1>1. PICK r \in rows :
        rows' = (rows \ {r}) \cup { [r EXCEPT !.delivery.waiting = FALSE] }
  BY DEF BackoffElapses
<1> DEFINE new == [r EXCEPT !.delivery.waiting = FALSE]
<1>2. /\ r \in Row /\ new.msg = r.msg
      /\ new.delivery.disposition = r.delivery.disposition
  BY DEF QueueInv, TypeOK, StorageType, Row, Delivery
<1> HIDE DEF new
<1>3. rows' = (rows \ {r}) \cup {new}
  BY <1>1 DEF new
<1>4. Messages(rows') = Messages(rows)
  BY <1>2, <1>3 DEF Messages
<1>5. UNCHANGED <<state, events, acked, gate, handlers, wrapper>>
  BY DEF BackoffElapses
<1>6. acked \subseteq Message /\ \A n \in acked : Exists(n)
  BY DEF QueueInv, TypeOK, HistoryType, AdmissionIsDurable, Exists, Status
<1>7. \A n \in Message : Exists(n)' <=> Exists(n)
  BY <1>5 DEF Exists, Status
<1>8. StepHolds
  BY <1>4, <1>5, <1>6, <1>7 DEF StepHolds, Transition, RowsLeave, RowsCover
<1>9. NothingNew
  BY <1>4, <1>7 DEF NothingNew
<1>10. ExhaustedHolds'
  BY <1>2, <1>3, <1>5 DEF QueueInv, ExhaustedHolds, Exists, Status
<1>11. OneRowPerMessage'
  BY <1>2, <1>3 DEF QueueInv, OneRowPerMessage
<1> QED
  BY <1>5, <1>8, <1>9, <1>10, <1>11, GatesAreNotCallers, HandlerPreserves
  DEF Kept, handlers, BackoffElapses

(* A crash drops what the handlers relied on together with the handlers. *)
LEMMA CrashPreserves ==
  ASSUME QueueInv, Crash
  PROVE  Preserved
<1>1. Kept
  BY QuietStep DEF Crash, storage
<1>2. AdmissionHolds' /\ DrainHolds' /\ CancelHolds'
  BY DEF Crash, AdmissionHolds, DrainHolds, CancelHolds, IdleCall, IdleDrain
<1>3. SettlementHolds'
  BY DEF Crash, SettlementHolds, IdleSettle
<1>4. RunHolds'
  BY <1>1, RunUntouched DEF Kept, Crash
<1> QED
  BY <1>1, <1>2, <1>3, <1>4 DEF Kept, Preserved, HandlersHold

(* An admission answers for what it tells its next step. *)
LEMMA AdmissionStepHolds ==
  ASSUME QueueInv, NothingNew, NEW c \in Caller, gate \in {"open", c}, gate' \in {"open", c},
         NEW call, adm' = [adm EXCEPT ![c] = call],
         call.pc = "billing" => BillingChecked,
         call.pc \in {"row", "state", "effects"} => gate' = c,
         call.pc \in {"billing", "row"} =>
           ~ Exists(call.msg)' /\ call.msg \notin Messages(rows'),
         call.pc = "state" => ~ Exists(call.msg)' /\ call.msg \in Messages(rows'),
         call.pc = "effects" => Exists(call.msg)'
  PROVE  AdmissionHolds'
<1>1. adm \in [Caller -> CallType({"billing", "row", "state", "effects"})]
  BY DEF QueueInv, TypeOK, HandlerType
<1> SUFFICES ASSUME NEW d \in Caller, d # c
             PROVE  /\ adm[d].pc \notin {"row", "state", "effects"}
                    /\ adm[d].pc = "billing" =>
                         /\ BillingChecked
                         /\ ~ Exists(adm[d].msg)' /\ adm[d].msg \notin Messages(rows')
  BY <1>1 DEF AdmissionHolds, Exists, Status, Messages
<1>2. adm[d].pc \notin {"row", "state", "effects"}
  BY GatesAreNotCallers DEF QueueInv, HandlersHold, AdmissionHolds
<1>3. adm[d].pc = "billing" => adm[d].msg \in Message
  BY <1>1, CallHoldsMessage
<1> QED
  BY <1>2, <1>3 DEF QueueInv, HandlersHold, AdmissionHolds, NothingNew

LEMMA AdmissionHandlersPreserve ==
  ASSUME QueueInv, StepHolds, AdmissionHolds', ExhaustedHolds', OneRowPerMessage',
         UNCHANGED <<drain, settle, cancel, wrapper>>
  PROVE  Preserved
  BY DrainUntouched, SettlementsUntouched, CancelUntouched, RunUntouched
     DEF Preserved, HandlersHold

(* No other admission is past its checks when one writes its row. *)
LEMMA OthersAreIdle ==
  ASSUME OneAdmission, QueueInv, NEW c \in Caller, gate \in {"open", c}, adm[c].pc # "idle",
         NEW d \in Caller, d # c
  PROVE  adm[d].pc = "idle"
<1>1. adm[d].pc \notin {"row", "state", "effects"}
  BY GatesAreNotCallers DEF QueueInv, HandlersHold, AdmissionHolds
<1>2. adm[d].pc # "billing"
  BY DEF OneAdmission, QueueInv, HandlersHold, AdmissionHolds
<1>3. adm[d].pc = "idle" \/ adm[d].pc \in {"billing", "row", "state", "effects"}
  BY CallHoldsMessage DEF QueueInv, TypeOK, HandlerType
<1> QED
  BY <1>1, <1>2, <1>3

(* The row of a new message is added: the facts both ways of writing share. *)
LEMMA NewRowStep ==
  ASSUME QueueInv, NEW m \in Message, ~ Exists(m), m \notin Messages(rows),
         rows' = rows \cup { [ at |-> clock + 1, msg |-> m, delivery |-> NewDelivery ] },
         Transition, \A n \in Message : n # m => Status(n)' = Status(n),
         UNCHANGED <<events, acked>>
  PROVE  /\ StepHolds /\ ExhaustedHolds' /\ OneRowPerMessage'
         /\ m \in Messages(rows')
<1> DEFINE new == [ at |-> clock + 1, msg |-> m, delivery |-> NewDelivery ]
<1>1. /\ new.msg = m /\ new.delivery.disposition = None
      /\ rows' = rows \cup {new}
  BY DEF NewDelivery
<1> HIDE DEF new
<1>2. Messages(rows') = Messages(rows) \cup {m}
  BY <1>1 DEF Messages
<1>3. acked \subseteq Message /\ \A n \in acked : Exists(n)
  BY DEF QueueInv, TypeOK, HistoryType, AdmissionIsDurable, Exists, Status
<1>4. StepHolds
  BY <1>2, <1>3 DEF StepHolds, RowsLeave, RowsCover, Exists
<1>5. ExhaustedHolds'
  <2>1. \A r \in rows : r.msg \in Message
    BY DEF QueueInv, TypeOK, StorageType, Row
  <2>2. \A n \in Message : Exists(n) => Exists(n)'
    BY TransitionKeeps DEF QueueInv
  <2> QED
    BY <1>1, <2>1, <2>2 DEF QueueInv, ExhaustedHolds, Exists, Status
<1>6. OneRowPerMessage'
  BY <1>1 DEF QueueInv, OneRowPerMessage, Messages
<1> QED
  BY <1>2, <1>4, <1>5, <1>6

LEMMA AdmissionPreserves ==
  ASSUME OneAdmission, QueueInv, NEW c \in Caller, Admission(c)
  PROVE  Preserved
<1>0. /\ TypeOK /\ "open" \notin Caller
      /\ adm \in [Caller -> CallType({"billing", "row", "state", "effects"})]
  BY GatesAreNotCallers DEF QueueInv, TypeOK, HandlerType
<1>1. ASSUME NEW m \in Message, AdmitReplay(c, m) PROVE Preserved
  <2>1. Kept
    BY <1>1, QuietStep DEF AdmitReplay, storage
  <2>2. Exists(m)'
    BY <1>1 DEF AdmitReplay, storage, Exists, Status
  <2>3. AdmissionHolds'
    BY <1>1, <2>1, <2>2, AdmissionStepHolds DEF AdmitReplay, AdmissionGoesTo, Kept
  <2> QED
    BY <1>1, <2>1, <2>3, AdmissionHandlersPreserve DEF AdmitReplay, Kept
<1>2. ASSUME NEW m \in Message, AdmitRepair(c, m) PROVE Preserved
  <2>1. Put(m, "queued", None) /\ Advance(Status(m), "queued")
    BY <1>2 DEF AdmitRepair, PutQueued, Advance, Status
  <2>2. /\ Transition /\ Status(m)' = "queued"
        /\ \A n \in Message : n # m => Status(n)' = Status(n)
    BY <1>0, <2>1, PutAdvances DEF Source
  <2>3. Kept
    BY <1>2, <2>2, StateStep DEF AdmitRepair, Exists
  <2>4. Exists(m)'
    BY <2>2 DEF Exists
  <2>5. AdmissionHolds'
    BY <1>2, <2>3, <2>4, AdmissionStepHolds DEF AdmitRepair, AdmissionGoesTo, Kept
  <2> QED
    BY <1>2, <2>3, <2>5, AdmissionHandlersPreserve DEF AdmitRepair, Kept
<1>3. ASSUME NEW m \in Message, AdmitCheck(c, m) PROVE Preserved
  <2> DEFINE pc == IF BillingChecked THEN "billing" ELSE "row"
  <2>1. Kept
    BY <1>3, QuietStep DEF AdmitCheck, storage
  <2>2. ~ Exists(m)' /\ m \notin Messages(rows')
    BY <1>3 DEF AdmitCheck, storage, Exists, Status, Messages
  <2>3. /\ adm' = [adm EXCEPT ![c] = [pc |-> pc, msg |-> m]]
        /\ gate = "open" /\ gate' = IF BillingChecked THEN "open" ELSE c
    BY <1>3 DEF AdmitCheck, AdmissionGoesTo
  <2>4. AdmissionHolds'
    <3>1. CASE BillingChecked
      BY <2>1, <2>2, <2>3, <3>1, AdmissionStepHolds DEF Kept
    <3>2. CASE ~ BillingChecked
      BY <2>1, <2>2, <2>3, <3>2, AdmissionStepHolds DEF Kept
    <3> QED
      BY <3>1, <3>2
  <2> QED
    BY <1>3, <2>1, <2>4, AdmissionHandlersPreserve DEF AdmitCheck, Kept
<1>4. CASE BillingDenies(c)
  <2>1. Kept
    BY <1>4, QuietStep DEF BillingDenies, storage
  <2>2. AdmissionHolds'
    BY <1>4, <2>1, AdmissionStepHolds DEF BillingDenies, IdleCall, Kept
  <2> QED
    BY <1>4, <2>1, <2>2, AdmissionHandlersPreserve DEF BillingDenies, Kept
<1>5. CASE AdmitPutRow(c)
  <2>1. PICK m \in Message : adm[c].msg = m /\ ~ Exists(m) /\ m \notin Messages(rows)
    BY <1>0, <1>5, CallHoldsMessage DEF AdmitPutRow, QueueInv, HandlersHold, AdmissionHolds
  <2>2. Transition /\ \A n \in Message : Status(n)' = Status(n)
    BY <1>5 DEF AdmitPutRow, Transition, Status
  <2>3. StepHolds /\ ExhaustedHolds' /\ OneRowPerMessage' /\ m \in Messages(rows')
    BY <1>5, <2>1, <2>2, NewRowStep DEF AdmitPutRow
  <2>4. AdmissionHolds'
    <3>1. \A d \in Caller : d # c => adm[d].pc = "idle"
      BY <1>5, OthersAreIdle DEF AdmitPutRow, CanRun
    <3>2. adm' = [adm EXCEPT ![c] = [pc |-> "state", msg |-> m]] /\ gate' = c
      BY <1>5, <2>1 DEF AdmitPutRow, AdmissionGoesTo
    <3>3. ~ Exists(m)'
      BY <2>1, <2>2 DEF Exists
    <3> QED
      BY <1>0, <2>3, <3>1, <3>2, <3>3 DEF AdmissionHolds, Exists, Status, Messages
  <2> QED
    BY <1>5, <2>3, <2>4, AdmissionHandlersPreserve DEF AdmitPutRow
<1>6. CASE AdmitPutState(c)
  <2>1. PICK m \in Message : adm[c].msg = m /\ ~ Exists(m) /\ m \in Messages(rows)
    BY <1>0, <1>6, CallHoldsMessage DEF AdmitPutState, QueueInv, HandlersHold, AdmissionHolds
  <2>2. Put(m, "queued", None) /\ Advance(Status(m), "queued")
    BY <1>6, <2>1 DEF AdmitPutState, PutQueued, Advance, Exists
  <2>3. /\ Transition /\ Status(m)' = "queued"
        /\ \A n \in Message : n # m => Status(n)' = Status(n)
    BY <1>0, <2>2, PutAdvances DEF Source
  <2>4. Kept
    BY <1>6, <2>1, <2>3, StateStep DEF AdmitPutState, Exists
  <2>5. Exists(m)'
    BY <2>3 DEF Exists
  <2>6. AdmissionHolds'
    BY <1>6, <2>1, <2>4, <2>5, AdmissionStepHolds DEF AdmitPutState, AdmissionGoesTo, Kept
  <2> QED
    BY <1>6, <2>4, <2>6, AdmissionHandlersPreserve DEF AdmitPutState, Kept
<1>7. CASE AdmitClone(c)
  <2>1. PICK m \in Message : adm[c].msg = m /\ ~ Exists(m) /\ m \notin Messages(rows)
    BY <1>0, <1>7, CallHoldsMessage DEF AdmitClone, QueueInv, HandlersHold, AdmissionHolds
  <2>2. Put(m, "queued", None) /\ Advance(Status(m), "queued")
    BY <1>7, <2>1 DEF AdmitClone, PutQueued, Advance, Exists
  <2>3. /\ Transition /\ Status(m)' = "queued"
        /\ \A n \in Message : n # m => Status(n)' = Status(n)
    BY <1>0, <2>2, PutAdvances DEF Source
  <2>4. StepHolds /\ ExhaustedHolds' /\ OneRowPerMessage'
    BY <1>7, <2>1, <2>3, NewRowStep DEF AdmitClone
  <2>5. AdmissionHolds'
    <3>1. \A d \in Caller : d # c => adm[d].pc = "idle"
      BY <1>7, OthersAreIdle DEF AdmitClone, CanRun
    <3>2. adm' = [adm EXCEPT ![c] = [pc |-> "effects", msg |-> m]] /\ gate' = c
      BY <1>7, <2>1 DEF AdmitClone, AdmissionGoesTo
    <3>3. Exists(m)'
      BY <2>3 DEF Exists
    <3> QED
      BY <1>0, <3>1, <3>2, <3>3 DEF AdmissionHolds, Exists, Status, Messages
  <2> QED
    BY <1>7, <2>4, <2>5, AdmissionHandlersPreserve DEF AdmitClone
<1>8. CASE AdmitEffects(c)
  <2>1. PICK m \in Message : adm[c].msg = m /\ Exists(m)
    BY <1>0, <1>8, CallHoldsMessage DEF AdmitEffects, QueueInv, HandlersHold, AdmissionHolds
  <2>2. /\ UNCHANGED <<rows, state>> /\ acked' = acked \cup {m} /\ events \subseteq events'
        /\ gate = c /\ gate' = "open" /\ adm' = [adm EXCEPT ![c] = IdleCall]
        /\ UNCHANGED <<drain, settle, cancel, wrapper>>
    BY <1>8, <2>1 DEF AdmitEffects
  <2>3. \A n \in Message : Exists(n)' <=> Exists(n)
    BY <2>2 DEF Exists, Status
  <2>4. Messages(rows') = Messages(rows)
    BY <2>2 DEF Messages
  <2>5. acked \subseteq Message
    BY <1>0 DEF TypeOK, HistoryType
  <2>6. \A n \in acked : Exists(n)
    BY DEF QueueInv, AdmissionIsDurable, Exists, Status
  <2>7. StepHolds /\ NothingNew
    BY <2>1, <2>2, <2>3, <2>4, <2>5, <2>6
    DEF StepHolds, NothingNew, Transition, RowsLeave, RowsCover
  <2>8. ExhaustedHolds' /\ OneRowPerMessage'
    BY <2>2 DEF QueueInv, ExhaustedHolds, OneRowPerMessage, Exists, Status
  <2>9. AdmissionHolds'
    BY <2>2, <2>7, AdmissionStepHolds DEF IdleCall
  <2> QED
    BY <2>2, <2>7, <2>8, <2>9, AdmissionHandlersPreserve
<1> QED
  BY <1>1, <1>2, <1>3, <1>4, <1>5, <1>6, <1>7, <1>8 DEF Admission

-----------------------------------------------------------------------------

LEMMA QueueInvInit == Init => QueueInv
<1> SUFFICES ASSUME Init PROVE QueueInv
  OBVIOUS
<1>1. TypeOK
  BY InitType
<1>2. HandlersHold
  BY DEF Init, HandlersHold, AdmissionHolds, DrainHolds, SettlementHolds, CancelHolds, RunHolds,
         IdleCall, IdleDrain, IdleSettle
<1>3. ExhaustedHolds /\ OneRowPerMessage
  BY DEF Init, ExhaustedHolds, OneRowPerMessage
<1>4. AdmissionIsDurable /\ SentBeforeRowRemoved
  BY DEF Init, AdmissionIsDurable, SentBeforeRowRemoved
<1> QED
  BY <1>1, <1>2, <1>3, <1>4 DEF QueueInv

LEMMA NextPreserves ==
  ASSUME OneAdmission, QueueInv, Next
  PROVE  Preserved
  BY AdmissionPreserves, AlarmPreserves, InterruptStartsPreserves, SettlementPreserves,
     CancellationPreserves, WrapperPreserves, BackoffElapsesPreserves, CrashPreserves DEF Next

LEMMA QueueInvStep ==
  ASSUME OneAdmission, QueueInv, [Next]_vars
  PROVE  QueueInv'
<1>1. TypeOK'
  BY TypeStep DEF QueueInv
<1>2. CASE Next
  <2>1. Preserved
    BY <1>2, NextPreserves
  <2>2. AdmissionIsDurable' /\ SentBeforeRowRemoved'
    BY <2>1, StorageKept DEF Preserved
  <2> QED
    BY <1>1, <2>1, <2>2 DEF QueueInv, Preserved
<1>3. CASE UNCHANGED vars
  <2>1. HandlersHold'
    BY <1>3 DEF QueueInv, HandlersHold, AdmissionHolds, DrainHolds, SettlementHolds, CancelHolds,
                RunHolds, vars, storage, handlers, bounds, Exists, Settled, LeftQueue, Status,
                Messages
  <2>2. ExhaustedHolds' /\ OneRowPerMessage'
    BY <1>3 DEF QueueInv, ExhaustedHolds, OneRowPerMessage, vars, storage, Exists, Status
  <2>3. AdmissionIsDurable' /\ SentBeforeRowRemoved'
    BY <1>3 DEF QueueInv, AdmissionIsDurable, SentBeforeRowRemoved, vars, storage, Messages
  <2> QED
    BY <1>1, <2>1, <2>2, <2>3 DEF QueueInv
<1> QED
  BY <1>2, <1>3

LEMMA QueueInvariant ==
  ASSUME OneAdmission
  PROVE  Spec => []QueueInv
<1>1. QueueInv /\ [Next]_vars => QueueInv'
  BY QueueInvStep
<1> QED
  BY <1>1, QueueInvInit, PTL DEF Spec

(* "queued acknowledgement is durable admission" (docs/diagrams.md): no     *)
(* interleaving of admissions, deliveries that fail or succeed,             *)
(* interruptions, cancellations and crashes loses acknowledged work.        *)
THEOREM AdmittedWorkIsDurable ==
  ASSUME OneAdmission
  PROVE  Spec => []AdmissionIsDurable
<1>1. QueueInv => AdmissionIsDurable
  BY DEF QueueInv
<1> QED
  BY <1>1, QueueInvariant, PTL

(* replaceStoredPendingSessionMessage and admission never leave two rows of *)
(* one message.                                                             *)
THEOREM RowsAreUnique ==
  ASSUME OneAdmission
  PROVE  Spec => []OneRowPerMessage
<1>1. QueueInv => OneRowPerMessage
  BY DEF QueueInv
<1> QED
  BY <1>1, QueueInvariant, PTL

(* The row that repairs the sent event of an accepted message outlives the  *)
(* event, wherever the object crashes.                                      *)
THEOREM SentEventIsPersisted ==
  ASSUME OneAdmission
  PROVE  Spec => []SentBeforeRowRemoved
<1>1. QueueInv => SentBeforeRowRemoved
  BY DEF QueueInv
<1> QED
  BY <1>1, QueueInvariant, PTL

(* "settle once" (docs/diagrams.md): as long as no two admissions await the *)
(* billing answer together, a settled message keeps its outcome and what    *)
(* settled it.                                                              *)
THEOREM SettledMessagesStay ==
  ASSUME OneAdmission
  PROVE  Spec => SettledOnce
<1>1. ASSUME QueueInv, [Next]_vars, NEW m \in Message, state[m].status \in Terminal
      PROVE  state'[m] = state[m]
  <2>1. CASE Next
    BY <1>1, <2>1, NextPreserves, TransitionAdvances
    DEF Preserved, StepHolds, QueueInv, Settled, Status
  <2>2. CASE UNCHANGED vars
    BY <2>2 DEF vars, storage
  <2> QED
    BY <1>1, <2>1, <2>2
<1>2. QueueInv /\ [Next]_vars =>
        [\A m \in Message : state[m].status \in Terminal => state'[m] = state[m]]_vars
  BY <1>1
<1> QED
  BY <1>2, QueueInvariant, PTL DEF Spec, SettledOnce

-----------------------------------------------------------------------------
(* The queue implements MessageLifecycle. *)

LEMMA AckedOnlyByAdmission ==
  ASSUME Next
  PROVE  UNCHANGED acked \/ \E c \in Caller : AdmitEffects(c)
<1>1. CASE \E c \in Caller : Admission(c)
  BY <1>1 DEF Admission, AdmitReplay, AdmitRepair, AdmitCheck, BillingDenies, AdmitPutRow,
              AdmitPutState, AdmitClone
<1>2. CASE Alarm
  BY <1>2 DEF Alarm, Deliver, AlarmFires, NothingToRecover, RecoverInterruption, FlushYields,
              FlushResidue, FlushExhausted, FlushDelivers, WrapperTakes, DeliveryAccepted,
              AcceptedEffects, DrainRemovesRow, DeliveryFails, DeliveryHeld, DeliverySkipped,
              DeliveryGivenUp
<1>3. CASE InterruptStarts
  BY <1>3 DEF InterruptStarts
<1>4. CASE \E s \in Settler : Settlement(s)
  BY <1>4 DEF Settlement, RepairCaptured, InterruptPending, CaptureAccepted, InterruptAccepted,
              StopWrapper, DeleteCaptured, ClearMarker
<1>5. CASE Cancellation
  BY <1>5 DEF Cancellation, CancelRepairs, CancelMarks, CancelRemovesRow, CancelReports, CancelAgain
<1>6. CASE Wrapper
  BY <1>6 DEF Wrapper, TerminalEventInfersAccepted, TerminalEvent, SettleLost, RunEnds, RunReplaced
<1>7. CASE BackoffElapses \/ Crash
  BY <1>7 DEF BackoffElapses, Crash
<1> QED
  BY <1>1, <1>2, <1>3, <1>4, <1>5, <1>6, <1>7 DEF Next

LifeOf == [m \in Message |-> Status(m)]

LEMMA TransitionIsLifecycle ==
  ASSUME TypeOK, Transition, UNCHANGED acked
  PROVE  Lifecycle!Next \/ UNCHANGED Lifecycle!vars
<1>1. CASE UNCHANGED state
  BY <1>1 DEF Lifecycle!vars
<1>2. CASE \E n \in Message, to \in {"queued", "accepted"} \cup Terminal, source \in Source :
             Put(n, to, source) /\ Advance(Status(n), to)
  <2>1. PICK m \in Message, to \in {"queued", "accepted"} \cup Terminal, source \in Source :
          Put(m, to, source) /\ Advance(Status(m), to)
    BY <1>2
  <2>2. LifeOf' = [LifeOf EXCEPT ![m] = to] /\ LifeOf[m] = Status(m)
    BY <2>1 DEF Put, LifeOf, Status, TypeOK, StorageType
  <2>3. CASE Status(m) = "none" /\ to = "queued"
    <3>1. Lifecycle!Admit(m)
      BY <2>2, <2>3 DEF Lifecycle!Admit, LifeOf, Status
    <3> QED
      BY <3>1 DEF Lifecycle!Next
  <2>4. CASE Status(m) = "queued" /\ to = "accepted"
    <3>1. Lifecycle!Accept(m)
      BY <2>2, <2>4 DEF Lifecycle!Accept, LifeOf, Status
    <3> QED
      BY <3>1 DEF Lifecycle!Next
  <2>5. CASE \/ Status(m) = "queued" /\ to \in {"failed", "interrupted"}
             \/ Status(m) = "accepted" /\ to \in Terminal
    <3>1. to \in Lifecycle!Terminal
      BY <2>5 DEF Lifecycle!Terminal, Terminal
    <3>2. Lifecycle!Settle(m, to)
      BY <2>2, <2>5 DEF Lifecycle!Settle, LifeOf, Status
    <3> QED
      BY <3>1, <3>2 DEF Lifecycle!Next
  <2> QED
    BY <2>1, <2>3, <2>4, <2>5 DEF Advance
<1> QED
  BY <1>1, <1>2 DEF Transition

LEMMA StepIsLifecycle ==
  ASSUME OneAdmission, QueueInv, [Next]_vars
  PROVE  Lifecycle!Next \/ UNCHANGED Lifecycle!vars
<1>1. CASE Next /\ UNCHANGED acked
  <2>1. Transition
    BY <1>1, NextPreserves DEF Preserved, StepHolds
  <2> QED
    BY <1>1, <2>1, TransitionIsLifecycle DEF QueueInv
<1>2. ASSUME NEW c \in Caller, AdmitEffects(c)
      PROVE  Lifecycle!Next \/ UNCHANGED Lifecycle!vars
  <2>1. PICK m \in Message : adm[c].msg = m /\ Exists(m)
    BY <1>2, CallHoldsMessage
    DEF AdmitEffects, QueueInv, TypeOK, HandlerType, HandlersHold, AdmissionHolds
  <2>2. Lifecycle!Acknowledge(m)
    BY <1>2, <2>1 DEF AdmitEffects, Lifecycle!Acknowledge, Exists, Status
  <2> QED
    BY <2>2 DEF Lifecycle!Next
<1>3. CASE UNCHANGED vars
  BY <1>3 DEF vars, storage, Lifecycle!vars
<1> QED
  BY <1>1, <1>2, <1>3, AckedOnlyByAdmission

(* The queue implements MessageLifecycle ("settle once", "fails accepted    *)
(* work without redispatch", docs/diagrams.md): whatever the handlers       *)
(* interleave, a message is settled once and never queued again.            *)
THEOREM QueueImplementsLifecycle ==
  ASSUME OneAdmission
  PROVE  Spec => ImplementsLifecycle
<1>1. Init => Lifecycle!Init
  BY DEF Init, Lifecycle!Init
<1>2. QueueInv /\ [Next]_vars => [Lifecycle!Next]_(Lifecycle!vars)
  BY StepIsLifecycle
<1> QED
  BY <1>1, <1>2, QueueInvariant, PTL DEF Spec, ImplementsLifecycle, Lifecycle!Spec

-----------------------------------------------------------------------------
(* Order and number of the rows: admissions, failed deliveries that write   *)
(* rows back and reports of a run keep the rows in the order of admission   *)
(* and within the limit.  OrderInv is inductive together with QueueInv.     *)

Delivering == drain.pc \in {"deliver", "posted"}

Flushing == drain.pc \in {"deliver", "posted", "terminalize"}

(* Rows have the times of admissions that were made, each one of its own. *)
RowsAreDated ==
  /\ \A r \in rows : r.at <= clock
  /\ \A r, q \in rows : r.at = q.at => r = q

(* The copy a flush holds keeps its place at the head of the queue, whether *)
(* or not the row is still there.                                           *)
FlushedIsOldest ==
  Flushing =>
    /\ drain.row.at <= clock
    /\ \A q \in rows : /\ drain.row.at <= q.at
                       /\ q.msg = drain.row.msg <=> q.at = drain.row.at

(* The row under delivery leaves only with the end of its message. *)
LostRowIsSettled ==
  Delivering => drain.row.msg \in Messages(rows) \/ Settled(drain.row.msg)

(* What a run holds and the session still shows as queued comes first. *)
RunHoldsOldest ==
  \A r \in rows :
    r.msg \in wrapper /\ ~ LeftQueue(r.msg) =>
      \A q \in rows : LeftQueue(q.msg) \/ r.at <= q.at

(* An admission that found room holds a place until its row is written. *)
Reserved == IF \E c \in Caller : adm[c].pc \in {"billing", "row"} THEN 1 ELSE 0

Load == Cardinality(Messages(rows)) + Reserved

(* The one row too many is a settled one, written back at the head, and no  *)
(* delivery begins before the next flush has removed it.                    *)
Capacity ==
  /\ IsFiniteSet(Messages(rows))
  /\ \/ Load <= Limit
     \/ /\ Load <= Limit + 1
        /\ ~ Delivering
        /\ \E r \in Oldest(rows) : Settled(r.msg)

OrderInv ==
  RowsAreDated /\ FlushedIsOldest /\ LostRowIsSettled /\ RunHoldsOldest /\ Capacity

-----------------------------------------------------------------------------

LEMMA RowsMatchMessages ==
  ASSUME OneRowPerMessage, IsFiniteSet(Messages(rows))
  PROVE  IsFiniteSet(rows) /\ Cardinality(rows) = Cardinality(Messages(rows))
<1> DEFINE f == [m \in Messages(rows) |-> CHOOSE r \in rows : r.msg = m]
<1>1. \A m \in Messages(rows) : f[m] \in rows /\ f[m].msg = m
  BY DEF Messages
<1>2. \A r \in rows : r.msg \in Messages(rows) /\ f[r.msg] = r
  BY <1>1 DEF OneRowPerMessage, Messages
<1>3. f \in [Messages(rows) -> rows]
  BY <1>1
<1> HIDE DEF f
<1>4. f \in Bijection(Messages(rows), rows)
  <2>1. \A m, n \in Messages(rows) : f[m] = f[n] => m = n
    BY <1>1
  <2>2. \A r \in rows : \E m \in Messages(rows) : f[m] = r
    BY <1>2
  <2> QED
    BY <1>3, <2>1, <2>2 DEF Bijection, Injection, IsInjective, Surjection
<1> QED
  BY <1>4, FS_Bijection DEF ExistsBijection

(* What steps other than a new row or a row written back anew do: rows keep *)
(* their place, one message leaves at most, a flush goes on with its copy   *)
(* or begins with the oldest row, and an admission that takes a place has   *)
(* seen it free.                                                            *)
RowsKeepPlace == \A q \in rows' : \E p \in rows : p.at = q.at /\ p.msg = q.msg

MessageLeaves ==
  \E m \in Messages(rows) :
    /\ Messages(rows') = Messages(rows) \ {m}
    /\ Settled(m) \/ ~ Delivering'

FlushGoesOn ==
  /\ Flushing' => /\ Flushing
                  /\ drain'.row.at = drain.row.at /\ drain'.row.msg = drain.row.msg
  /\ Delivering' => Delivering

FlushBegins ==
  /\ UNCHANGED rows
  /\ drain'.row \in Oldest(rows)
  /\ Delivering' => ~ LeftQueue(drain'.row.msg)

Ordinary ==
  /\ UNCHANGED clock
  /\ RowsKeepPlace
  /\ Messages(rows') = Messages(rows) \/ MessageLeaves
  /\ FlushGoesOn \/ FlushBegins
  /\ \A m \in wrapper' : m \in wrapper \/ (Flushing /\ m = drain.row.msg)
  /\ \/ Reserved' <= Reserved
     \/ Cardinality(rows) < Limit /\ UNCHANGED <<rows, drain>>

LEMMA ReservedType == Reserved \in 0 .. 1
  BY DEF Reserved

(* Each row that stays is the row that was there, in its place. *)
LEMMA PlacesKept ==
  ASSUME QueueInv, OneRowPerMessage', RowsKeepPlace, NEW p \in rows, p.msg \in Messages(rows')
  PROVE  \E q \in rows' : q.at = p.at /\ q.msg = p.msg
<1>1. PICK q \in rows' : q.msg = p.msg
  BY DEF Messages
<1>2. PICK o \in rows : o.at = q.at /\ o.msg = q.msg
  BY DEF RowsKeepPlace
<1>3. o = p
  BY <1>1, <1>2 DEF QueueInv, OneRowPerMessage
<1> QED
  BY <1>1, <1>2, <1>3

LEMMA OrdinaryKeepsOrder ==
  ASSUME QueueInv, OrderInv, TypeOK', StepHolds, OneRowPerMessage', Ordinary
  PROVE  OrderInv'
<1>0. /\ TypeOK /\ clock \in Nat /\ rows \subseteq Row /\ rows' \subseteq Row
      /\ \A r \in rows : r.at \in Nat /\ r.msg \in Message
      /\ \A r \in rows' : r.at \in Nat /\ r.msg \in Message
      /\ UNCHANGED clock /\ RowsKeepPlace
      /\ \A m \in Message : /\ LeftQueue(m) => LeftQueue(m)'
                            /\ Settled(m) => Settled(m)'
  BY TransitionKeeps DEF QueueInv, TypeOK, StorageType, HistoryType, Row, Ordinary, StepHolds
<1>1. RowsAreDated'
  BY <1>0 DEF OrderInv, RowsAreDated, RowsKeepPlace, OneRowPerMessage
<1>2. FlushedIsOldest'
  <2>1. CASE FlushGoesOn
    BY <1>0, <2>1 DEF OrderInv, FlushedIsOldest, FlushGoesOn, Flushing, RowsKeepPlace
  <2>2. CASE FlushBegins
    BY <1>0, <2>2 DEF OrderInv, RowsAreDated, FlushedIsOldest, FlushBegins, Oldest, QueueInv,
                      OneRowPerMessage
  <2> QED
    BY <2>1, <2>2 DEF Ordinary
<1>3. LostRowIsSettled'
  <2> SUFFICES ASSUME Delivering'
               PROVE  drain'.row.msg \in Messages(rows') \/ state'[drain'.row.msg].status \in Terminal
    BY DEF LostRowIsSettled, Settled, Status, Messages
  <2>1. CASE FlushGoesOn
    <3>1. Delivering /\ drain'.row.msg = drain.row.msg
      BY <2>1 DEF FlushGoesOn, Flushing, Delivering
    <3>2. PICK m \in Message : m = drain.row.msg
      BY <1>0, <3>1, DrainHoldsRow DEF Delivering, TypeOK, HandlerType
    <3>3. m \in Messages(rows) \/ Settled(m)
      BY <3>1, <3>2 DEF OrderInv, LostRowIsSettled
    <3>4. m \in Messages(rows) \ Messages(rows') => Settled(m)
      BY DEF Ordinary, MessageLeaves
    <3>5. m \in Messages(rows') \/ Settled(m)'
      BY <1>0, <3>3, <3>4
    <3> QED
      BY <3>1, <3>2, <3>5 DEF Settled, Status
  <2>2. CASE FlushBegins
    <3>1. drain'.row \in rows'
      BY <2>2 DEF FlushBegins, Oldest
    <3> QED
      BY <3>1 DEF Messages
  <2> QED
    BY <2>1, <2>2 DEF Ordinary
<1>4. RunHoldsOldest'
  <2> SUFFICES ASSUME NEW r \in rows', r.msg \in wrapper', ~ LeftQueue(r.msg)',
                      NEW q \in rows', ~ LeftQueue(q.msg)'
               PROVE  r.at <= q.at
    BY DEF RunHoldsOldest, LeftQueue, Status
  <2>1. PICK p \in rows : p.at = r.at /\ p.msg = r.msg
    BY <1>0 DEF RowsKeepPlace
  <2>2. PICK o \in rows : o.at = q.at /\ o.msg = q.msg
    BY <1>0 DEF RowsKeepPlace
  <2>3. ~ LeftQueue(p.msg) /\ ~ LeftQueue(o.msg)
    BY <1>0, <2>1, <2>2
  <2>4. CASE r.msg \in wrapper
    BY <2>1, <2>2, <2>3, <2>4 DEF OrderInv, RunHoldsOldest
  <2>5. CASE Flushing /\ r.msg = drain.row.msg
    BY <1>0, <2>1, <2>2, <2>5 DEF OrderInv, FlushedIsOldest
  <2> QED
    BY <2>4, <2>5 DEF Ordinary
<1>5. Capacity'
  <2> DEFINE n == Cardinality(Messages(rows))
             n1 == Cardinality(Messages(rows'))
  <2>1. /\ IsFiniteSet(Messages(rows)) /\ n \in Nat
        /\ Reserved \in 0 .. 1 /\ Reserved' \in 0 .. 1 /\ Limit \in Nat
        /\ Load = n + Reserved /\ Load' = n1 + Reserved'
    BY FS_CardinalityType, QueueAssumption DEF OrderInv, Capacity, Reserved, Load, Messages
  <2>2. CASE Messages(rows') = Messages(rows)
    <3>1. IsFiniteSet(Messages(rows')) /\ n1 = n
      BY <2>1, <2>2
    <3>2. CASE Reserved' <= Reserved
      <4>1. Load' <= Load
        BY <2>1, <3>1, <3>2
      <4>2. CASE Load <= Limit
        BY <2>1, <3>1, <4>1, <4>2 DEF Capacity, Messages
      <4>3. CASE /\ Load <= Limit + 1
                 /\ ~ Delivering
                 /\ \E r \in Oldest(rows) : Settled(r.msg)
        <5>1. PICK r \in rows : Settled(r.msg) /\ \A q \in rows : r.at <= q.at
          BY <4>3 DEF Oldest
        <5>2. ~ Delivering'
          <6>1. CASE FlushGoesOn
            BY <4>3, <6>1 DEF FlushGoesOn
          <6>2. CASE FlushBegins
            <7>1. drain'.row \in rows /\ drain'.row.at <= r.at
              BY <6>2 DEF FlushBegins, Oldest
            <7>2. drain'.row.at = r.at
              BY <1>0, <5>1, <7>1
            <7>3. drain'.row = r
              BY <7>1, <7>2 DEF OrderInv, RowsAreDated
            <7> QED
              BY <5>1, <6>2, <7>3 DEF FlushBegins, LeftQueue, Settled
          <6> QED
            BY <6>1, <6>2 DEF Ordinary
        <5>3. PICK q \in rows' : q.at = r.at /\ q.msg = r.msg
          <6>1. r.msg \in Messages(rows')
            BY <2>2 DEF Messages
          <6> QED
            BY <1>0, <6>1, PlacesKept
        <5>4. q \in Oldest(rows')
          BY <1>0, <5>1, <5>3 DEF RowsKeepPlace, Oldest
        <5>5. Settled(q.msg)'
          BY <1>0, <5>1, <5>3
        <5>6. \E x \in Oldest(rows') : Settled(x.msg)'
          BY <5>4, <5>5
        <5>7. Load' <= Limit + 1
          BY <2>1, <3>1, <4>1, <4>3
        <5> QED
          BY <3>1, <5>2, <5>6, <5>7 DEF Capacity, Oldest, Settled, Status, Messages
      <4> QED
        BY <4>2, <4>3 DEF OrderInv, Capacity
    <3>3. CASE Cardinality(rows) < Limit
      <4>1. n < Limit
        BY <2>1, <3>3, RowsMatchMessages DEF QueueInv
      <4>2. Load' <= Limit
        BY <2>1, <3>1, <4>1
      <4> QED
        BY <3>1, <4>2 DEF Capacity, Messages
    <3> QED
      BY <3>2, <3>3 DEF Ordinary
  <2>3. CASE MessageLeaves
    <3>1. PICK m \in Messages(rows) : Messages(rows') = Messages(rows) \ {m}
      BY <2>3 DEF MessageLeaves
    <3>2. IsFiniteSet(Messages(rows')) /\ n1 = n - 1
      BY <2>1, <3>1, FS_RemoveElement
    <3>3. Reserved' <= Reserved
      <4>1. rows' # rows
        BY <3>1
      <4> QED
        BY <4>1 DEF Ordinary
    <3>4. Load <= Limit + 1
      BY <2>1 DEF OrderInv, Capacity
    <3>5. Load' <= Limit
      BY <2>1, <3>2, <3>3, <3>4
    <3> QED
      BY <3>2, <3>5 DEF Capacity, Messages
  <2> QED
    BY <2>2, <2>3 DEF Ordinary
<1> QED
  BY <1>1, <1>2, <1>3, <1>4, <1>5 DEF OrderInv

(* A row is written back under the key it had, whether it is still there or *)
(* not.                                                                     *)
LEMMA WrittenBackInPlace ==
  ASSUME QueueInv, OrderInv, Delivering, NEW d
  PROVE  ReplaceRow(rows, drain.row, d) =
           WithoutMessage(rows, drain.row.msg)
             \cup { [ at |-> drain.row.at, msg |-> drain.row.msg, delivery |-> d ] }
<1> DEFINE mine == { r \in rows : r.msg = drain.row.msg }
<1>1. mine = {} \/ drain.row.at \in { r.at : r \in mine }
  BY DEF OrderInv, FlushedIsOldest, Flushing, Delivering
<1> QED
  BY <1>1 DEF ReplaceRow

(* A failed delivery: the row is still there, or its message is settled and *)
(* it comes back at the head.                                               *)
LEMMA DeliveryFailsKeepsOrder ==
  ASSUME QueueInv, OrderInv, TypeOK', StepHolds, OneRowPerMessage',
         NEW f \in Failures, DeliveryFails(f[1], f[2])
  PROVE  OrderInv'
<1> DEFINE d == RecordFlushFailure(drain.row.delivery, f[1], f[2])
<1>0. /\ TypeOK /\ Delivering /\ Flushing
      /\ drain.row \in Row /\ drain.row.delivery \in Delivery
  BY DrainHoldsRow DEF DeliveryFails, QueueInv, TypeOK, HandlerType, Delivering, Flushing
<1>1. PICK m \in Message, at \in Nat : m = drain.row.msg /\ at = drain.row.at
  BY <1>0 DEF Row
<1>2. /\ UNCHANGED <<state, wrapper, adm, clock>>
      /\ ~ Delivering' /\ Flushing' => drain'.row.at = at /\ drain'.row.msg = m
      /\ ~ Delivering'
  BY <1>0, <1>1 DEF DeliveryFails, IdleDrain, Delivering, Flushing, bounds, Row
<1>3. rows' = WithoutMessage(rows, m) \cup { [ at |-> at, msg |-> m, delivery |-> d ] }
  BY <1>0, <1>1, WrittenBackInPlace DEF DeliveryFails
<1> DEFINE new == [ at |-> at, msg |-> m, delivery |-> d ]
<1>4. new.at = at /\ new.msg = m /\ rows' = WithoutMessage(rows, m) \cup {new}
  BY <1>3
<1> HIDE DEF new
<1>5. Messages(rows') = Messages(rows) \cup {m}
  BY <1>4 DEF WithoutMessage, Messages
<1>6. CASE m \in Messages(rows)
  <2>1. PICK p \in rows : p.msg = m
    BY <1>6 DEF Messages
  <2>2. p.at = at
    BY <1>0, <1>1, <2>1 DEF OrderInv, FlushedIsOldest
  <2>3. RowsKeepPlace
    BY <1>4, <2>1, <2>2 DEF RowsKeepPlace, WithoutMessage
  <2>4. Reserved' <= Reserved
    BY <1>2 DEF Reserved
  <2>5. Messages(rows') = Messages(rows)
    BY <1>5, <1>6
  <2>6. FlushGoesOn
    BY <1>0, <1>1, <1>2 DEF FlushGoesOn
  <2>7. Ordinary
    BY <1>2, <2>3, <2>4, <2>5, <2>6 DEF Ordinary
  <2> QED
    BY <2>7, OrdinaryKeepsOrder
<1>7. CASE m \notin Messages(rows)
  <2>1. /\ Settled(m) /\ LeftQueue(m) /\ Settled(m)' /\ LeftQueue(m)'
    BY <1>0, <1>1, <1>2, <1>7 DEF OrderInv, LostRowIsSettled, Settled, LeftQueue, Status
  <2>2. rows' = rows \cup {new}
    BY <1>4, <1>7 DEF WithoutMessage, Messages
  <2>3. /\ at <= clock /\ clock \in Nat /\ UNCHANGED clock
        /\ \A q \in rows : at <= q.at /\ q.at # at /\ q.at \in Nat /\ q.msg # m
    BY <1>0, <1>1, <1>2, <1>7
    DEF OrderInv, FlushedIsOldest, TypeOK, StorageType, HistoryType, Row, Messages
  <2>4. RowsAreDated'
    BY <1>4, <2>2, <2>3 DEF OrderInv, RowsAreDated
  <2>5. FlushedIsOldest'
    BY <1>2, <1>4, <2>2, <2>3 DEF FlushedIsOldest
  <2>6. LostRowIsSettled'
    BY <1>2 DEF LostRowIsSettled
  <2>7. RunHoldsOldest'
    BY <1>2, <1>4, <2>1, <2>2 DEF OrderInv, RunHoldsOldest, LeftQueue, Status
  <2>8. Capacity'
    <3>1. /\ IsFiniteSet(Messages(rows)) /\ Cardinality(Messages(rows)) \in Nat
          /\ Reserved \in 0 .. 1 /\ Reserved' = Reserved /\ Limit \in Nat
          /\ Load <= Limit
      BY <1>0, <1>2, FS_CardinalityType, QueueAssumption DEF OrderInv, Capacity, Reserved
    <3>2. /\ IsFiniteSet(Messages(rows'))
          /\ Cardinality(Messages(rows')) = Cardinality(Messages(rows)) + 1
      BY <1>5, <1>7, <3>1, FS_AddElement
    <3>3. Cardinality(Messages(rows')) + Reserved' <= Limit + 1
      BY <3>1, <3>2 DEF Load
    <3>4. new \in Oldest(rows')
      BY <1>4, <2>2, <2>3 DEF Oldest
    <3>5. \E r \in Oldest(rows') : Settled(r.msg)'
      BY <1>4, <2>1, <3>4
    <3> QED
      BY <1>2, <3>2, <3>3, <3>5 DEF Capacity, Load, Oldest, Settled, Status, Messages
  <2> QED
    BY <2>4, <2>5, <2>6, <2>7, <2>8 DEF OrderInv
<1> QED
  BY <1>6, <1>7

(* A new row comes last, and takes the place its admission has reserved. *)
LEMMA NewRowKeepsOrder ==
  ASSUME QueueInv, OrderInv, TypeOK', StepHolds,
         NEW m \in Message, ~ Exists(m), m \notin Messages(rows),
         rows' = rows \cup { [ at |-> clock + 1, msg |-> m, delivery |-> NewDelivery ] },
         clock' = clock + 1, UNCHANGED <<drain, wrapper>>,
         Reserved = 1, Reserved' = 0
  PROVE  OrderInv'
<1> DEFINE new == [ at |-> clock + 1, msg |-> m, delivery |-> NewDelivery ]
<1>1. new.at = clock + 1 /\ new.msg = m /\ rows' = rows \cup {new}
  OBVIOUS
<1> HIDE DEF new
<1>2. /\ TypeOK /\ clock \in Nat
      /\ \A r \in rows : r.at \in Nat /\ r.at <= clock /\ r.msg \in Message
      /\ \A n \in Message : /\ LeftQueue(n) => LeftQueue(n)'
                            /\ Settled(n) => Settled(n)'
  BY TransitionKeeps
  DEF QueueInv, TypeOK, StorageType, HistoryType, Row, OrderInv, RowsAreDated, StepHolds
<1>3. Messages(rows') = Messages(rows) \cup {m}
  BY <1>1 DEF Messages
<1>4. RowsAreDated'
  BY <1>1, <1>2 DEF OrderInv, RowsAreDated
<1>5. FlushedIsOldest'
  <2> SUFFICES ASSUME Flushing
               PROVE  /\ drain.row.at <= clock + 1
                      /\ \A q \in rows' : /\ drain.row.at <= q.at
                                          /\ q.msg = drain.row.msg <=> q.at = drain.row.at
    BY DEF FlushedIsOldest, Flushing
  <2>1. drain.row \in Row /\ drain.row.at \in Nat /\ drain.row.at <= clock
    BY <1>2, DrainHoldsRow DEF TypeOK, HandlerType, Flushing, Row, OrderInv, FlushedIsOldest
  <2>2. m # drain.row.msg
    BY DEF Flushing, QueueInv, HandlersHold, DrainHolds
  <2> QED
    BY <1>1, <1>2, <2>1, <2>2 DEF OrderInv, FlushedIsOldest
<1>6. LostRowIsSettled'
  <2> SUFFICES ASSUME Delivering
               PROVE  drain.row.msg \in Messages(rows') \/ state'[drain.row.msg].status \in Terminal
    BY DEF LostRowIsSettled, Delivering, Messages, Settled, Status
  <2>1. PICK n \in Message : n = drain.row.msg
    BY <1>2, DrainHoldsRow DEF Delivering, TypeOK, HandlerType
  <2>2. n \in Messages(rows) \/ Settled(n)'
    BY <1>2, <2>1 DEF OrderInv, LostRowIsSettled
  <2> QED
    BY <1>3, <2>1, <2>2 DEF Settled, Status
<1>7. RunHoldsOldest'
  <2> SUFFICES ASSUME NEW r \in rows', r.msg \in wrapper, ~ LeftQueue(r.msg)',
                      NEW q \in rows', ~ LeftQueue(q.msg)'
               PROVE  r.at <= q.at
    BY DEF RunHoldsOldest, LeftQueue, Status
  <2>1. r \in rows
    BY <1>1 DEF QueueInv, HandlersHold, RunHolds
  <2>2. CASE q \in rows
    BY <1>2, <2>1, <2>2 DEF OrderInv, RunHoldsOldest
  <2>3. CASE q = new
    BY <1>1, <1>2, <2>1, <2>3
  <2> QED
    BY <1>1, <2>2, <2>3
<1>8. Capacity'
  <2>1. /\ IsFiniteSet(Messages(rows)) /\ Cardinality(Messages(rows)) \in Nat
        /\ Limit \in Nat
    BY FS_CardinalityType, QueueAssumption DEF OrderInv, Capacity
  <2>2. /\ IsFiniteSet(Messages(rows'))
        /\ Cardinality(Messages(rows')) = Cardinality(Messages(rows)) + 1
    <3> DEFINE before == Messages(rows)
    <3>1. IsFiniteSet(before) /\ m \notin before
      BY <2>1
    <3> HIDE DEF before
    <3>2. /\ IsFiniteSet(before \cup {m})
          /\ Cardinality(before \cup {m}) = Cardinality(before) + 1
      BY <3>1, FS_AddElement
    <3> QED
      BY <1>3, <3>2 DEF before
  <2>3. Load' = Load
    BY <2>1, <2>2 DEF Load, Messages
  <2>4. CASE Load <= Limit
    BY <2>2, <2>3, <2>4 DEF Capacity, Messages
  <2>5. CASE /\ Load <= Limit + 1
             /\ ~ Delivering
             /\ \E r \in Oldest(rows) : Settled(r.msg)
    <3>1. PICK r \in Oldest(rows) : Settled(r.msg)
      BY <2>5
    <3>2. r \in Oldest(rows')
      BY <1>1, <1>2, <3>1 DEF Oldest
    <3>3. Settled(r.msg)'
      BY <1>2, <3>1 DEF Oldest
    <3>4. \E x \in Oldest(rows') : Settled(x.msg)'
      BY <3>2, <3>3
    <3>5. ~ Delivering'
      BY <2>5 DEF Delivering
    <3> QED
      BY <2>2, <2>3, <2>5, <3>4, <3>5 DEF Capacity, Oldest, Settled, Status, Messages
  <2> QED
    BY <2>4, <2>5 DEF OrderInv, Capacity
<1> QED
  BY <1>4, <1>5, <1>6, <1>7, <1>8 DEF OrderInv

LEMMA StillIsOrdinary ==
  ASSUME UNCHANGED <<rows, clock>>, wrapper' \subseteq wrapper,
         UNCHANGED drain \/ ~ Flushing', UNCHANGED adm \/ Reserved' <= Reserved
  PROVE  Ordinary
<1>1. Reserved' <= Reserved
  BY ReservedType DEF Reserved
<1>2. RowsKeepPlace /\ Messages(rows') = Messages(rows)
  BY DEF RowsKeepPlace
<1>3. FlushGoesOn
  BY DEF FlushGoesOn, Flushing, Delivering
<1> QED
  BY <1>1, <1>2, <1>3 DEF Ordinary

LEMMA RemovalIsOrdinary ==
  ASSUME UNCHANGED <<adm, clock>>, wrapper' \subseteq wrapper,
         NEW m, rows' = WithoutMessage(rows, m),
         (Settled(m) /\ UNCHANGED drain) \/ ~ Flushing'
  PROVE  Ordinary
<1>1. Reserved' <= Reserved
  BY ReservedType DEF Reserved
<1>2. rows' \subseteq rows /\ Messages(rows') = Messages(rows) \ {m}
  BY WithoutMessageDrops
<1>3. RowsKeepPlace
  BY <1>2 DEF RowsKeepPlace
<1>4. Messages(rows') = Messages(rows) \/ MessageLeaves
  BY <1>2 DEF MessageLeaves, Flushing, Delivering
<1>5. FlushGoesOn
  BY DEF FlushGoesOn, Flushing, Delivering
<1> QED
  BY <1>1, <1>3, <1>4, <1>5 DEF Ordinary

LEMMA AlarmKeepsOrder ==
  ASSUME QueueInv, OrderInv, TypeOK', StepHolds, OneRowPerMessage', Alarm
  PROVE  OrderInv'
<1> SUFFICES ASSUME \A f \in Failures : ~ DeliveryFails(f[1], f[2])
             PROVE  Ordinary
  BY OrdinaryKeepsOrder, DeliveryFailsKeepsOrder
<1>0. TypeOK /\ rows \subseteq Row /\ DrainHolds /\ Reserved \in 0 .. 1
  BY ReservedType DEF QueueInv, TypeOK, StorageType, HandlersHold
<1>1. CASE AlarmFires \/ NothingToRecover \/ RecoverInterruption \/ FlushYields
           \/ DeliveryHeld \/ DeliverySkipped
  <2>1. /\ UNCHANGED <<rows, clock, wrapper, adm>>
        /\ drain'.pc \in {"idle", "maintain", "flush", "recover"}
    BY <1>1 DEF AlarmFires, NothingToRecover, RecoverInterruption, FlushYields, DeliveryHeld,
                DeliverySkipped, DrainGoesTo, IdleDrain, storage, bounds
  <2> QED
    BY <2>1, StillIsOrdinary DEF Flushing
<1>2. CASE AcceptedEffects \/ DeliveryAccepted \/ DeliveryGivenUp
  <2>1. /\ UNCHANGED <<rows, clock, wrapper, adm>>
        /\ drain'.pc \in {"accepted", "remove"}
    BY <1>2 DEF AcceptedEffects, DeliveryAccepted, DeliveryGivenUp, DrainGoesTo, bounds
  <2> QED
    BY <2>1, StillIsOrdinary DEF Flushing
<1>3. CASE FlushResidue
  <2>1. PICK r \in rows : rows' = WithoutMessage(rows, r.msg)
    BY <1>3 DEF FlushResidue
  <2>2. ~ Flushing' /\ UNCHANGED <<adm, wrapper, clock>>
    BY <1>3 DEF FlushResidue, IdleDrain, Flushing, bounds
  <2> QED
    BY <2>1, <2>2, RemovalIsOrdinary
<1>4. CASE DrainRemovesRow
  <2>1. rows' = WithoutMessage(rows, drain.row.msg)
    BY <1>4 DEF DrainRemovesRow
  <2>2. ~ Flushing' /\ UNCHANGED <<adm, wrapper, clock>>
    BY <1>4 DEF DrainRemovesRow, IdleDrain, Flushing, bounds
  <2> QED
    BY <2>1, <2>2, RemovalIsOrdinary
<1>5. CASE FlushExhausted
  <2>1. PICK r \in rows : r \in Oldest(rows) /\ DrainGoesTo("terminalize", r)
    BY <1>5 DEF FlushExhausted, FlushableRow, Head
  <2>2. UNCHANGED <<rows, clock, wrapper, adm>>
    BY <1>5 DEF FlushExhausted, storage, bounds
  <2>3. FlushBegins
    BY <2>1, <2>2 DEF FlushBegins, DrainGoesTo, Delivering
  <2> QED
    BY <1>0, <2>2, <2>3 DEF Ordinary, RowsKeepPlace, Reserved
<1>6. CASE FlushDelivers
  <2>1. PICK r \in rows : /\ r \in Oldest(rows) /\ DrainGoesTo("deliver", r)
                          /\ state[r.msg].status \in {"none", "queued"}
    BY <1>6 DEF FlushDelivers, FlushableRow, Head
  <2>2. UNCHANGED <<rows, clock, wrapper, adm>>
    BY <1>6 DEF FlushDelivers, bounds
  <2>3. FlushBegins
    BY <2>1, <2>2 DEF FlushBegins, DrainGoesTo, LeftQueue, Status, Terminal
  <2> QED
    BY <1>0, <2>2, <2>3 DEF Ordinary, RowsKeepPlace, Reserved
<1>7. CASE WrapperTakes
  <2>1. /\ UNCHANGED <<rows, clock, adm>> /\ wrapper' = wrapper \cup {drain.row.msg}
        /\ Flushing /\ Delivering /\ drain'.row = drain.row
    BY <1>7 DEF WrapperTakes, storage, bounds, DrainGoesTo, Flushing, Delivering
  <2>2. FlushGoesOn
    BY <2>1 DEF FlushGoesOn
  <2> QED
    BY <1>0, <2>1, <2>2 DEF Ordinary, RowsKeepPlace, Reserved
<1> QED
  BY <1>1, <1>2, <1>3, <1>4, <1>5, <1>6, <1>7 DEF Alarm, Deliver

LEMMA SettlementIsOrdinary ==
  ASSUME QueueInv, NEW s \in Settler, Settlement(s)
  PROVE  Ordinary
<1>0. /\ SettlementHolds /\ settle[s].captured \subseteq Row
  BY DEF QueueInv, TypeOK, HandlerType, SettleType, HandlersHold
<1>1. CASE RepairCaptured(s) \/ CaptureAccepted(s) \/ StopWrapper(s)
  <2>1. UNCHANGED <<rows, clock, adm, drain>> /\ wrapper' \subseteq wrapper
    BY <1>1 DEF RepairCaptured, CaptureAccepted, StopWrapper, storage, handlers, bounds
  <2> QED
    BY <2>1, StillIsOrdinary
<1>2. CASE InterruptPending(s) \/ InterruptAccepted(s)
  <2>1. UNCHANGED <<rows, clock, adm, wrapper>>
    BY <1>2 DEF InterruptPending, InterruptAccepted, bounds
  <2>2. UNCHANGED drain \/ ~ Flushing'
    BY <1>2 DEF InterruptPending, InterruptAccepted, SettleThrows, Interrupts, IdleDrain, Flushing
  <2> QED
    BY <2>1, <2>2, StillIsOrdinary
<1>3. CASE ClearMarker(s)
  <2>1. UNCHANGED <<rows, clock, adm, wrapper>>
    BY <1>3 DEF ClearMarker, bounds
  <2>2. UNCHANGED drain \/ ~ Flushing'
    BY <1>3 DEF ClearMarker, Flushing
  <2> QED
    BY <2>1, <2>2, StillIsOrdinary
<1>4. CASE DeleteCaptured(s)
  <2>1. PICK r \in settle[s].captured : rows' = WithoutMessage(rows, r.msg)
    BY <1>4 DEF DeleteCaptured, Oldest
  <2>2. settle[s].todo = {} /\ Settled(r.msg)
    BY <1>0, <1>4 DEF DeleteCaptured, SettlementHolds
  <2>3. UNCHANGED <<adm, clock, wrapper, drain>>
    BY <1>4 DEF DeleteCaptured, bounds
  <2> QED
    BY <2>1, <2>2, <2>3, RemovalIsOrdinary
<1> QED
  BY <1>1, <1>2, <1>3, <1>4 DEF Settlement

LEMMA CancellationIsOrdinary ==
  ASSUME QueueInv, Cancellation
  PROVE  Ordinary
<1>1. CASE \/ \E m \in Message : CancelRepairs(m) \/ CancelMarks(m) \/ CancelAgain(m)
           \/ CancelReports
  <2>1. UNCHANGED <<rows, clock, adm, wrapper, drain>>
    BY <1>1 DEF CancelRepairs, CancelMarks, CancelAgain, CancelReports, handlers, bounds
  <2> QED
    BY <2>1, StillIsOrdinary
<1>2. CASE CancelRemovesRow
  <2>1. Settled(cancel.msg)
    BY <1>2 DEF CancelRemovesRow, QueueInv, HandlersHold, CancelHolds
  <2>2. /\ rows' = WithoutMessage(rows, cancel.msg)
        /\ UNCHANGED <<adm, clock, wrapper, drain>>
    BY <1>2 DEF CancelRemovesRow, bounds
  <2> QED
    BY <2>1, <2>2, RemovalIsOrdinary
<1> QED
  BY <1>1, <1>2 DEF Cancellation

LEMMA BackoffElapsesIsOrdinary ==
  ASSUME QueueInv, BackoffElapses
  PROVE  Ordinary
<1>1. PICK r \in rows :
        rows' = (rows \ {r}) \cup { [r EXCEPT !.delivery.waiting = FALSE] }
  BY DEF BackoffElapses
<1> DEFINE new == [r EXCEPT !.delivery.waiting = FALSE]
<1>2. new.msg = r.msg /\ new.at = r.at
  BY DEF QueueInv, TypeOK, StorageType, Row
<1>3. rows' = (rows \ {r}) \cup {new}
  BY <1>1
<1> HIDE DEF new
<1>4. Messages(rows') = Messages(rows) /\ RowsKeepPlace
  BY <1>2, <1>3 DEF Messages, RowsKeepPlace
<1>5. UNCHANGED <<clock, adm, wrapper, drain>>
  BY DEF BackoffElapses, handlers, bounds
<1>6. FlushGoesOn /\ Reserved' <= Reserved
  BY <1>5, ReservedType DEF FlushGoesOn, Flushing, Delivering, Reserved
<1> QED
  BY <1>4, <1>5, <1>6 DEF Ordinary

LEMMA AdmissionKeepsOrder ==
  ASSUME OneAdmission, QueueInv, OrderInv, TypeOK', StepHolds, OneRowPerMessage',
         NEW c \in Caller, Admission(c)
  PROVE  OrderInv'
<1>0. /\ TypeOK /\ "open" \notin Caller
      /\ adm \in [Caller -> CallType({"billing", "row", "state", "effects"})]
  BY GatesAreNotCallers DEF QueueInv, TypeOK, HandlerType
<1>1. CASE \/ \E m \in Message : AdmitReplay(c, m) \/ AdmitRepair(c, m)
           \/ BillingDenies(c) \/ AdmitPutState(c) \/ AdmitEffects(c)
  <2>1. PICK pc \in {"idle", "state", "effects"} :
          \E msg : adm' = [adm EXCEPT ![c] = [pc |-> pc, msg |-> msg]]
    BY <1>1 DEF AdmitReplay, AdmitRepair, AdmissionGoesTo, BillingDenies, AdmitPutState,
                AdmitEffects, IdleCall
  <2>2. Reserved' <= Reserved
    <3>1. \A e \in Caller :
            adm'[e].pc \in {"billing", "row"} => adm[e].pc \in {"billing", "row"}
      BY <1>0, <2>1
    <3> QED
      BY <3>1 DEF Reserved
  <2>3. UNCHANGED <<rows, clock, wrapper, drain>>
    BY <1>1
    DEF AdmitReplay, AdmitRepair, BillingDenies, AdmitPutState, AdmitEffects, storage, bounds
  <2> QED
    BY <2>2, <2>3, StillIsOrdinary, OrdinaryKeepsOrder
<1>2. CASE \E m \in Message : AdmitCheck(c, m)
  <2>1. Cardinality(rows) < Limit /\ UNCHANGED <<rows, clock, wrapper, drain>>
    BY <1>2 DEF AdmitCheck, HasCapacity, storage, bounds
  <2>2. RowsKeepPlace /\ Messages(rows') = Messages(rows) /\ FlushGoesOn
    BY <2>1 DEF RowsKeepPlace, FlushGoesOn, Flushing, Delivering
  <2>3. Ordinary
    BY <2>1, <2>2 DEF Ordinary
  <2> QED
    BY <2>3, OrdinaryKeepsOrder
<1>3. CASE AdmitPutRow(c) \/ AdmitClone(c)
  <2>1. PICK m \in Message : adm[c].msg = m /\ ~ Exists(m) /\ m \notin Messages(rows)
    BY <1>0, <1>3, CallHoldsMessage
    DEF AdmitPutRow, AdmitClone, QueueInv, HandlersHold, AdmissionHolds
  <2>2. /\ rows' = rows \cup { [ at |-> clock + 1, msg |-> m, delivery |-> NewDelivery ] }
        /\ clock' = clock + 1 /\ UNCHANGED <<drain, wrapper>>
        /\ gate \in {"open", c} /\ adm[c].pc \in {"billing", "row"}
    BY <1>3, <2>1 DEF AdmitPutRow, AdmitClone, CanRun
  <2>3. \E pc \in {"state", "effects"} : adm' = [adm EXCEPT ![c] = [pc |-> pc, msg |-> m]]
    BY <1>3, <2>1 DEF AdmitPutRow, AdmitClone, AdmissionGoesTo
  <2>4. \A e \in Caller : e # c => adm[e].pc = "idle"
    BY <2>2, OthersAreIdle
  <2>5. Reserved = 1
    BY <2>2 DEF Reserved
  <2>6. \A e \in Caller : adm'[e].pc \notin {"billing", "row"}
    BY <1>0, <2>3, <2>4
  <2>7. Reserved' = 0
    BY <2>6 DEF Reserved
  <2> QED
    BY <2>1, <2>2, <2>5, <2>7, NewRowKeepsOrder
<1> QED
  BY <1>1, <1>2, <1>3 DEF Admission

LEMMA OrderInvInit == Init => OrderInv
<1> SUFFICES ASSUME Init PROVE OrderInv
  OBVIOUS
<1>1. RowsAreDated /\ FlushedIsOldest /\ LostRowIsSettled /\ RunHoldsOldest
  BY DEF Init, RowsAreDated, FlushedIsOldest, LostRowIsSettled, RunHoldsOldest, IdleDrain,
         Flushing, Delivering
<1>2. Messages(rows) = {} /\ Reserved = 0
  BY DEF Init, Messages, Reserved, IdleCall
<1>3. Capacity
  BY <1>2, FS_EmptySet, QueueAssumption DEF Capacity, Load
<1> QED
  BY <1>1, <1>3 DEF OrderInv

LEMMA OrderInvStep ==
  ASSUME OneAdmission, QueueInv, OrderInv, [Next]_vars
  PROVE  OrderInv'
<1>1. QueueInv'
  BY QueueInvStep
<1>2. CASE Next
  <2>0. StepHolds /\ TypeOK' /\ OneRowPerMessage'
    BY <1>1, <1>2, NextPreserves DEF Preserved, QueueInv
  <2>1. CASE \E c \in Caller : Admission(c)
    BY <2>0, <2>1, AdmissionKeepsOrder
  <2>2. CASE Alarm
    BY <2>0, <2>2, AlarmKeepsOrder
  <2>3. CASE InterruptStarts
    <3>1. UNCHANGED <<rows, clock, adm, wrapper, drain>>
      BY <2>3 DEF InterruptStarts
    <3> QED
      BY <2>0, <3>1, StillIsOrdinary, OrdinaryKeepsOrder
  <2>4. CASE \E s \in Settler : Settlement(s)
    BY <2>0, <2>4, SettlementIsOrdinary, OrdinaryKeepsOrder
  <2>5. CASE Cancellation
    BY <2>0, <2>5, CancellationIsOrdinary, OrdinaryKeepsOrder
  <2>6. CASE Wrapper
    <3>1. UNCHANGED <<rows, clock, adm, drain>> /\ wrapper' \subseteq wrapper
      BY <2>6 DEF Wrapper, TerminalEventInfersAccepted, TerminalEvent, SettleLost, RunEnds, RunReplaced,
                  handlers, bounds
    <3> QED
      BY <2>0, <3>1, StillIsOrdinary, OrdinaryKeepsOrder
  <2>7. CASE BackoffElapses
    BY <2>0, <2>7, BackoffElapsesIsOrdinary, OrdinaryKeepsOrder
  <2>8. CASE Crash
    <3>1. UNCHANGED <<rows, clock, wrapper>> /\ ~ Flushing' /\ Reserved' = 0
      BY <2>8 DEF Crash, storage, Flushing, IdleDrain, Reserved, IdleCall
    <3> QED
      BY <2>0, <3>1, ReservedType, StillIsOrdinary, OrdinaryKeepsOrder
  <2> QED
    BY <1>2, <2>1, <2>2, <2>3, <2>4, <2>5, <2>6, <2>7, <2>8 DEF Next
<1>3. CASE UNCHANGED vars
  BY <1>3 DEF OrderInv, RowsAreDated, FlushedIsOldest, LostRowIsSettled, RunHoldsOldest, Capacity,
              Load, Reserved, Oldest, Messages, Flushing, Delivering, Settled, LeftQueue, Status,
              vars, storage, handlers, bounds
<1> QED
  BY <1>2, <1>3

LEMMA OrderInvariant ==
  ASSUME OneAdmission
  PROVE  Spec => [](QueueInv /\ OrderInv)
<1>1. Init => QueueInv /\ OrderInv
  BY QueueInvInit, OrderInvInit
<1>2. QueueInv /\ OrderInv /\ [Next]_vars => (QueueInv /\ OrderInv)'
  BY QueueInvStep, OrderInvStep
<1> QED
  BY <1>1, <1>2, PTL DEF Spec

(* PENDING_SESSION_MESSAGE_LIMIT: whatever fails, is cancelled or comes back *)
(* after its message was settled, the rows of unsettled messages are within  *)
(* the limit, and all rows exceed it by one at most.                         *)
THEOREM QueueIsBounded ==
  ASSUME OneAdmission
  PROVE  Spec => []QueueBounded
<1>1. ASSUME QueueInv, OrderInv PROVE QueueBounded
  <2> DEFINE unsettled == { r \in rows : state[r.msg].status \notin Terminal }
  <2>1. /\ IsFiniteSet(rows) /\ Cardinality(rows) = Cardinality(Messages(rows))
        /\ Cardinality(rows) \in Nat /\ Limit \in Nat /\ Reserved \in 0 .. 1
    BY <1>1, RowsMatchMessages, FS_CardinalityType, QueueAssumption
    DEF OrderInv, Capacity, QueueInv, Reserved
  <2>2. Cardinality(rows) <= Load
    BY <2>1 DEF Load
  <2>3. CASE Load <= Limit
    <3>1. Cardinality(unsettled) <= Cardinality(rows) /\ Cardinality(unsettled) \in Nat
      BY <2>1, FS_Subset, FS_CardinalityType
    <3> QED
      BY <2>1, <2>2, <2>3, <3>1, ReservedType DEF Load, QueueBounded
  <2>4. CASE Load <= Limit + 1 /\ \E r \in Oldest(rows) : Settled(r.msg)
    <3>1. PICK r \in rows : Settled(r.msg)
      BY <2>4 DEF Oldest
    <3>2. IsFiniteSet(rows \ {r}) /\ Cardinality(rows \ {r}) = Cardinality(rows) - 1
      BY <2>1, <3>1, FS_RemoveElement
    <3>3. unsettled \in SUBSET (rows \ {r})
      BY <3>1 DEF Settled, Status
    <3> HIDE DEF unsettled
    <3>4. Cardinality(unsettled) <= Cardinality(rows) - 1 /\ Cardinality(unsettled) \in Nat
      BY <3>2, <3>3, FS_Subset, FS_CardinalityType
    <3>5. Cardinality(rows) <= Limit + 1
      BY <2>1, <2>4 DEF Load
    <3> QED
      BY <2>1, <3>4, <3>5 DEF QueueBounded, unsettled
  <2> QED
    BY <1>1, <2>3, <2>4 DEF OrderInv, Capacity
<1> QED
  BY <1>1, OrderInvariant, PTL

LEMMA PutChangesOne ==
  ASSUME TypeOK, NEW n \in Message, NEW to, NEW source, Put(n, to, source), NEW m \in Message
  PROVE  Status(m)' = IF m = n THEN to ELSE Status(m)
  BY DEF Put, Status, TypeOK, StorageType

(* A queued message is accepted or fails only in the flush that holds it or *)
(* by a report of the run that holds it.                                    *)
LEMMA LeavesByDelivery ==
  ASSUME QueueInv, Next, NEW m \in Message,
         Status(m) = "queued", Status(m)' \in {"accepted", "failed"}
  PROVE  (Flushing /\ m = drain.row.msg) \/ m \in wrapper
<1>0. TypeOK /\ rows \subseteq Row /\ state' # state
  BY DEF QueueInv, TypeOK, StorageType, Status
<1>1. ASSUME NEW n \in Message, PutQueued(n) PROVE FALSE
  BY <1>0, <1>1, PutChangesOne DEF PutQueued
<1>2. ASSUME NEW n \in Message, NEW status \in Terminal, NEW source,
             TerminalizeOnce(n, status, source),
             status = "interrupted" \/ Status(n) # "queued"
      PROVE  FALSE
  BY <1>0, <1>2, PutChangesOne DEF TerminalizeOnce, Status
<1>3. ASSUME NEW c \in Caller, Admission(c) PROVE FALSE
  <2>1. adm[c].pc # "idle" => adm[c].msg \in Message
    BY CallHoldsMessage DEF QueueInv, TypeOK, HandlerType
  <2> QED
    BY <1>0, <1>1, <1>3, <2>1
    DEF Admission, AdmitReplay, AdmitRepair, AdmitCheck, BillingDenies, AdmitPutRow, AdmitPutState,
        AdmitClone, AdmitEffects, storage
<1>4. CASE Alarm
  <2>1. CASE DeliveryAccepted
    <3>1. PICK n \in Message : n = drain.row.msg
      BY <1>0, <2>1, DrainHoldsRow DEF DeliveryAccepted, TypeOK, HandlerType
    <3>2. Put(n, "accepted", None) /\ Flushing
      BY <1>0, <2>1, <3>1 DEF DeliveryAccepted, Flushing
    <3> QED
      BY <1>0, <3>1, <3>2, PutChangesOne
  <2>2. CASE DeliveryGivenUp
    <3>1. PICK n \in Message : n = drain.row.msg
      BY <1>0, <2>2, DrainHoldsRow DEF DeliveryGivenUp, TypeOK, HandlerType
    <3>2. Put(n, "failed", "delivery_failure") /\ Flushing
      BY <1>0, <2>2, <3>1 DEF DeliveryGivenUp, TerminalizeOnce, Flushing
    <3> QED
      BY <1>0, <3>1, <3>2, PutChangesOne
  <2>3. CASE FlushDelivers
    <3>1. PICK r \in rows : PutQueued(r.msg)
      BY <1>0, <2>3 DEF FlushDelivers
    <3> QED
      BY <1>0, <1>1, <3>1 DEF Row
  <2>4. CASE \E f \in Failures : DeliveryFails(f[1], f[2])
    BY <1>0, <2>4 DEF DeliveryFails
  <2> QED
    BY <1>0, <1>4, <2>1, <2>2, <2>3, <2>4
    DEF Alarm, Deliver, AlarmFires, NothingToRecover, RecoverInterruption, FlushYields, FlushResidue,
        FlushExhausted, WrapperTakes, AcceptedEffects, DrainRemovesRow, DeliveryHeld,
        DeliverySkipped, storage
<1>5. ASSUME NEW s \in Settler, Settlement(s) PROVE FALSE
  <2>0. settle[s].todo \subseteq Row /\ settle[s].live \subseteq Message
    BY DEF QueueInv, TypeOK, HandlerType, SettleType
  <2>1. ASSUME NEW n \in Message, Interrupts(n) PROVE FALSE
    BY <1>2, <2>1 DEF Interrupts, Terminal
  <2>2. CASE RepairCaptured(s)
    BY <1>1, <2>0, <2>2 DEF RepairCaptured, Row
  <2>3. CASE InterruptPending(s)
    BY <1>0, <2>0, <2>1, <2>3 DEF InterruptPending, SettleThrows, Row
  <2>4. CASE InterruptAccepted(s)
    BY <1>0, <2>0, <2>1, <2>4 DEF InterruptAccepted, SettleThrows
  <2> QED
    BY <1>0, <1>5, <2>2, <2>3, <2>4
    DEF Settlement, CaptureAccepted, StopWrapper, DeleteCaptured, ClearMarker, storage
<1>6. ASSUME Cancellation PROVE FALSE
  BY <1>0, <1>1, <1>2, <1>6
  DEF Cancellation, CancelRepairs, CancelMarks, CancelRemovesRow, CancelReports, CancelAgain, Terminal
<1>7. CASE Wrapper
  <2>1. ASSUME NEW n \in Message, TerminalEventInfersAccepted(n) PROVE m \in wrapper
    <3>1. Put(n, "accepted", None) /\ n \in wrapper
      BY <2>1 DEF TerminalEventInfersAccepted
    <3> QED
      BY <1>0, <3>1, PutChangesOne
  <2>2. ASSUME NEW n \in Message, NEW outcome \in Terminal,
               TerminalEvent(n, outcome) \/ SettleLost(n, outcome)
        PROVE  FALSE
    BY <1>2, <2>2 DEF TerminalEvent, SettleLost, Accepted, Status
  <2> QED
    BY <1>0, <1>7, <2>1, <2>2 DEF Wrapper, RunEnds, RunReplaced
<1> QED
  BY <1>0, <1>3, <1>4, <1>5, <1>6, <1>7 DEF Next, InterruptStarts, BackoffElapses, Crash, storage

(* First in, first out: neither failed deliveries, whose rows are written   *)
(* back, nor reports that overtake the answer of a delivery, nor crashes    *)
(* let a message leave the queue before one admitted earlier.               *)
THEOREM OldestLeavesFirst ==
  ASSUME OneAdmission
  PROVE  Spec => FirstInFirstOut
<1> DEFINE InOrder == \A r, q \in rows :
                      /\ state[r.msg].status = "queued" /\ state[q.msg].status = "queued"
                      /\ q.at < r.at
                      => state'[r.msg].status \notin {"accepted", "failed"}
<1>1. ASSUME QueueInv, OrderInv, [Next]_vars PROVE [InOrder]_vars
  <2> SUFFICES ASSUME Next, NEW r \in rows, NEW q \in rows,
                      state[r.msg].status = "queued", state[q.msg].status = "queued",
                      q.at < r.at, state'[r.msg].status \in {"accepted", "failed"}
               PROVE  FALSE
    BY <1>1
  <2>1. r.msg \in Message /\ r.at \in Nat /\ q.at \in Nat
    BY <1>1 DEF QueueInv, TypeOK, StorageType, Row
  <2>2. CASE Flushing /\ r.msg = drain.row.msg
    BY <1>1, <2>1, <2>2 DEF OrderInv, FlushedIsOldest
  <2>3. CASE r.msg \in wrapper
    BY <1>1, <2>1, <2>3 DEF OrderInv, RunHoldsOldest, LeftQueue, Status, Terminal
  <2> QED
    BY <1>1, <2>1, <2>2, <2>3, LeavesByDelivery DEF Status
<1>2. QueueInv /\ OrderInv /\ [Next]_vars => [InOrder]_vars
  BY <1>1
<1> QED
  BY <1>2, OrderInvariant, PTL DEF Spec, FirstInFirstOut

-----------------------------------------------------------------------------
(* The marker of an interruption lasts until every message it names is      *)
(* settled.  The call and the recovery of the alarm may both work on it, in *)
(* any order, and the object may crash between any two of their steps; a    *)
(* second call must not come before the first one is over.  The argument is *)
(* about the oldest of the marked rows: an interruption settles it within   *)
(* its first segment, so that no flush finds it accepted and removes it.    *)

MarkedRows == { r \in rows : r.msg \in marker.msgs }

(* No flush until the recovery has been through. *)
BetweenFlushes == drain.pc \in {"idle", "maintain"}

Pending(s) == gate = s /\ settle[s].pc = "pending"

(* The interruption in its segment settles m next. *)
Handles(s, m) == Pending(s) /\ \A q \in Oldest(settle[s].todo) : q.msg = m

HeadIsHandled ==
  \A r \in Oldest(MarkedRows) :
    Settled(r.msg) \/ BetweenFlushes \/ \E s \in Settler : Handles(s, r.msg)

(* What an interruption under way has still to do about a marked message. *)
StillDue(s, m) ==
  /\ settle[s].pc = "pending" => Settled(m) \/ m \in Messages(settle[s].todo)
  /\ settle[s].pc \in {"accepted", "delete"} => Settled(m)

(* A marked message is settled or has a row for the recovery. *)
MarkedIsDue ==
  \A m \in marker.msgs :
    /\ Settled(m) \/ m \in Messages(rows)
    /\ \A s \in Settler : StillDue(s, m)

(* A drain that removes the row of a marked message removes a settled one. *)
DrainKeepsMarked ==
  drain.pc \in {"accepted", "remove"} =>
    gate = "alarm" /\ (drain.row.msg \in marker.msgs => Settled(drain.row.msg))

RecoveryIsAlone == settle["alarm"].pc # "idle" => drain.pc = "recover"

(* A cancellation lets no marked row come to the head of a flush under way. *)
CancelKeepsHead ==
  cancel.pc = "remove" =>
    gate = "cancel" /\ \A r \in Oldest(MarkedRows) : r.msg = cancel.msg => BetweenFlushes

(* Nothing is interrupted before the call. *)
InterruptedByCall ==
  interrupts = 0 => ~ marker.set /\ \A s \in Settler : settle[s].pc = "idle"

MarkerInv ==
  /\ MarkedIsDue /\ HeadIsHandled /\ DrainKeepsMarked
  /\ RecoveryIsAlone /\ CancelKeepsHead /\ InterruptedByCall

LEMMA MarkerType ==
  ASSUME TypeOK
  PROVE  marker.msgs \subseteq Message /\ (~ marker.set => marker.msgs = {})
<1>1. CASE marker = NoMarker
  BY <1>1 DEF NoMarker
<1>2. CASE marker \in [ set : {TRUE}, msgs : SUBSET Message ]
  BY <1>2
<1> QED
  BY <1>1, <1>2 DEF TypeOK, StorageType

LEMMA SettledStays ==
  ASSUME QueueInv, StepHolds, NEW m \in marker.msgs
  PROVE  m \in Message /\ (Settled(m) => Settled(m)')
  BY MarkerType, TransitionKeeps DEF QueueInv, StepHolds

(* Rows leave the marked ones only when their message is settled. *)
MarkedRowsStay ==
  \A m \in marker.msgs : m \in Messages(rows) => m \in Messages(rows') \/ Settled(m)

LEMMA MarkedStays ==
  ASSUME QueueInv, StepHolds, MarkerInv, MarkedRowsStay
  PROVE  /\ \A m \in marker.msgs : Settled(m)' \/ m \in Messages(rows')
         /\ \A s \in Settler, m \in marker.msgs :
              settle'[s] = settle[s] \/ settle'[s] = IdleSettle => StillDue(s, m)'
<1>1. ASSUME NEW m \in marker.msgs PROVE Settled(m)' \/ m \in Messages(rows')
  BY <1>1, SettledStays DEF MarkerInv, MarkedIsDue, MarkedRowsStay
<1>2. ASSUME NEW s \in Settler, NEW m \in marker.msgs,
             settle'[s] = settle[s] \/ settle'[s] = IdleSettle
      PROVE  StillDue(s, m)'
  BY <1>2, SettledStays DEF MarkerInv, MarkedIsDue, StillDue, Messages, IdleSettle
<1> QED
  BY <1>1, <1>2

(* The oldest marked row stays what it is when no row takes a new place and *)
(* no marked one leaves.                                                    *)
LEMMA OldestMarkedStays ==
  ASSUME QueueInv, OneRowPerMessage', RowsKeepPlace, UNCHANGED marker,
         \A m \in marker.msgs : m \in Messages(rows) => m \in Messages(rows')
  PROVE  \A r \in Oldest(MarkedRows)' : \E q \in Oldest(MarkedRows) : q.msg = r.msg
<1> SUFFICES ASSUME NEW r \in Oldest(MarkedRows)'
             PROVE  \E q \in Oldest(MarkedRows) : q.msg = r.msg
  OBVIOUS
<1>1. r \in rows' /\ r.msg \in marker.msgs /\ \A q \in MarkedRows' : r.at <= q.at
  BY DEF Oldest, MarkedRows
<1>2. PICK p \in rows : p.at = r.at /\ p.msg = r.msg
  BY <1>1 DEF RowsKeepPlace
<1>3. ASSUME NEW q \in MarkedRows PROVE p.at <= q.at
  <2>1. q \in rows /\ q.msg \in marker.msgs /\ q.msg \in Messages(rows')
    BY <1>3 DEF MarkedRows, Messages
  <2>2. PICK n \in rows' : n.at = q.at /\ n.msg = q.msg
    BY <2>1, PlacesKept
  <2> QED
    BY <1>1, <1>2, <2>1, <2>2 DEF MarkedRows
<1>4. p \in Oldest(MarkedRows)
  BY <1>1, <1>2, <1>3 DEF Oldest, MarkedRows
<1> QED
  BY <1>2, <1>4

(* A step of a handler other than an interruption. *)
LEMMA OthersKeep ==
  ASSUME QueueInv, StepHolds, MarkerInv, MarkedRowsStay,
         UNCHANGED <<marker, interrupts, settle>>,
         \A s \in Settler : ~ Pending(s),
         BetweenFlushes => BetweenFlushes' \/ marker.msgs = {},
         BetweenFlushes' \/ \A r \in Oldest(MarkedRows)' :
           Settled(r.msg)' \/ \E q \in Oldest(MarkedRows) : q.msg = r.msg,
         DrainKeepsMarked', RecoveryIsAlone', CancelKeepsHead'
  PROVE  MarkerInv'
<1>1. MarkedIsDue'
  BY MarkedStays DEF MarkedIsDue
<1>2. HeadIsHandled'
  <2> SUFFICES ASSUME NEW r \in Oldest(MarkedRows)', ~ BetweenFlushes'
               PROVE  Settled(r.msg)'
    BY DEF HeadIsHandled
  <2>1. r.msg \in marker.msgs
    BY DEF Oldest, MarkedRows
  <2>2. ASSUME NEW q \in Oldest(MarkedRows), q.msg = r.msg PROVE Settled(r.msg)
    BY <2>1, <2>2 DEF MarkerInv, HeadIsHandled, Handles
  <2> QED
    BY <2>1, <2>2, SettledStays
<1>3. InterruptedByCall'
  BY DEF MarkerInv, InterruptedByCall
<1> QED
  BY <1>1, <1>2, <1>3 DEF MarkerInv

(* ... that leaves the drain and the cancellation alone as well. *)
LEMMA OutsidersKeep ==
  ASSUME QueueInv, StepHolds, MarkerInv, MarkedRowsStay,
         UNCHANGED <<marker, interrupts, settle, drain>>,
         gate \notin {"alarm", "interrupt", "cancel"}, cancel'.pc # "remove",
         \A r \in Oldest(MarkedRows)' : \E q \in Oldest(MarkedRows) : q.msg = r.msg
  PROVE  MarkerInv'
<1>1. \A s \in Settler : ~ Pending(s)
  BY DEF Settler, Pending
<1>2. DrainKeepsMarked' /\ RecoveryIsAlone' /\ CancelKeepsHead'
  BY DEF MarkerInv, DrainKeepsMarked, RecoveryIsAlone, CancelKeepsHead
<1>3. BetweenFlushes => BetweenFlushes'
  BY DEF BetweenFlushes
<1> QED
  BY <1>1, <1>2, <1>3, OthersKeep

LEMMA RowsUnchanged ==
  ASSUME UNCHANGED <<rows, marker>>
  PROVE  /\ MarkedRowsStay
         /\ \A r \in Oldest(MarkedRows)' : \E q \in Oldest(MarkedRows) : q.msg = r.msg
  BY DEF MarkedRowsStay, MarkedRows, Oldest

(* A new row is of a message that is not marked. *)
LEMMA AdmissionKeepsMarker ==
  ASSUME QueueInv, StepHolds, MarkerInv, NEW c \in Caller, Admission(c)
  PROVE  MarkerInv'
<1>0. /\ gate \notin {"alarm", "interrupt", "cancel"}
      /\ UNCHANGED <<marker, interrupts, settle, drain, cancel>>
  BY GatesAreNotCallers
  DEF Admission, AdmitReplay, AdmitRepair, AdmitCheck, BillingDenies, AdmitPutRow, AdmitPutState,
      AdmitClone, AdmitEffects, CanRun, storage, bounds
<1>1. cancel.pc # "remove"
  BY <1>0 DEF MarkerInv, CancelKeepsHead
<1>2. CASE AdmitPutRow(c) \/ AdmitClone(c)
  <2>1. ~ Exists(adm[c].msg) /\ adm[c].msg \notin Messages(rows)
    BY <1>2 DEF AdmitPutRow, AdmitClone, QueueInv, HandlersHold, AdmissionHolds
  <2>2. adm[c].msg \notin marker.msgs
    BY <2>1 DEF MarkerInv, MarkedIsDue, Settled, Exists, Terminal
  <2>3. PICK new : new.msg = adm[c].msg /\ rows' = rows \cup {new}
    <3> DEFINE row == [ at |-> clock + 1, msg |-> adm[c].msg, delivery |-> NewDelivery ]
    <3>1. row.msg = adm[c].msg /\ rows' = rows \cup {row}
      BY <1>2 DEF AdmitPutRow, AdmitClone
    <3> QED
      BY <3>1
  <2>4. MarkedRows' = MarkedRows /\ MarkedRowsStay
    BY <1>0, <2>2, <2>3 DEF MarkedRows, MarkedRowsStay, Messages
  <2> QED
    BY <1>0, <1>1, <2>4, OutsidersKeep DEF Oldest
<1>3. CASE ~ (AdmitPutRow(c) \/ AdmitClone(c))
  <2>1. UNCHANGED rows
    BY <1>3 DEF Admission, AdmitReplay, AdmitRepair, AdmitCheck, BillingDenies, AdmitPutState,
                AdmitEffects, storage
  <2> QED
    BY <1>0, <1>1, <2>1, RowsUnchanged, OutsidersKeep
<1> QED
  BY <1>2, <1>3

LEMMA WrapperKeepsMarker ==
  ASSUME QueueInv, StepHolds, MarkerInv, Wrapper
  PROVE  MarkerInv'
<1>1. /\ gate \notin {"alarm", "interrupt", "cancel"}
      /\ UNCHANGED <<rows, marker, interrupts, settle, drain, cancel>>
  BY DEF Wrapper, TerminalEventInfersAccepted, TerminalEvent, SettleLost, RunEnds, RunReplaced,
         handlers, bounds
<1>2. cancel.pc # "remove"
  BY <1>1 DEF MarkerInv, CancelKeepsHead
<1> QED
  BY <1>1, <1>2, RowsUnchanged, OutsidersKeep

LEMMA BackoffElapsesKeepsMarker ==
  ASSUME QueueInv, StepHolds, OneRowPerMessage', MarkerInv, BackoffElapses
  PROVE  MarkerInv'
<1>1. /\ gate = "open"
      /\ UNCHANGED <<marker, interrupts, settle, drain, cancel>>
  BY DEF BackoffElapses, handlers, bounds
<1>2. cancel.pc # "remove"
  BY <1>1 DEF MarkerInv, CancelKeepsHead
<1>3. PICK r \in rows :
        rows' = (rows \ {r}) \cup { [r EXCEPT !.delivery.waiting = FALSE] }
  BY DEF BackoffElapses
<1> DEFINE new == [r EXCEPT !.delivery.waiting = FALSE]
<1>4. new.msg = r.msg /\ new.at = r.at
  BY DEF QueueInv, TypeOK, StorageType, Row
<1>5. rows' = (rows \ {r}) \cup {new}
  BY <1>3
<1> HIDE DEF new
<1>6. Messages(rows') = Messages(rows) /\ RowsKeepPlace
  BY <1>4, <1>5 DEF Messages, RowsKeepPlace
<1>7. MarkedRowsStay
  BY <1>6 DEF MarkedRowsStay
<1> QED
  BY <1>1, <1>2, <1>6, <1>7, OldestMarkedStays, OutsidersKeep

(* Were a row removed the oldest, one of the others was older still. *)
LEMMA OldestStaysWithout ==
  ASSUME QueueInv, NEW x, NEW rest,
         rest = { q \in MarkedRows : q.msg # x },
         \A q \in Oldest(MarkedRows) : q.msg # x,
         NEW r \in Oldest(rest)
  PROVE  r \in Oldest(MarkedRows)
<1> SUFFICES ASSUME NEW p \in MarkedRows, ~ (r.at <= p.at) PROVE FALSE
  BY DEF Oldest
<1>1. \A q \in MarkedRows : q \in rows /\ q.at \in Nat
  BY DEF MarkedRows, QueueInv, TypeOK, StorageType, Row
<1>2. r \in MarkedRows /\ p.msg = x
  BY DEF Oldest
<1>3. PICK q \in MarkedRows : ~ (p.at <= q.at)
  BY <1>2 DEF Oldest
<1>4. q.msg # x
  BY <1>1, <1>2, <1>3 DEF QueueInv, OneRowPerMessage
<1> QED
  BY <1>1, <1>2, <1>3, <1>4 DEF Oldest

(* A cancelled message was queued: were it the oldest of the marked ones, no *)
(* flush would be under way.                                                *)
LEMMA CancellationKeepsMarker ==
  ASSUME QueueInv, StepHolds, OneRowPerMessage', MarkerInv, Cancellation
  PROVE  MarkerInv'
<1>0. /\ gate \in {"open", "cancel"}
      /\ UNCHANGED <<marker, interrupts, settle, drain>>
  BY DEF Cancellation, CancelRepairs, CancelMarks, CancelRemovesRow, CancelReports, CancelAgain,
         handlers, bounds
<1>1. /\ \A s \in Settler : ~ Pending(s)
      /\ BetweenFlushes' = BetweenFlushes
      /\ drain.pc \notin {"accepted", "remove"}
      /\ DrainKeepsMarked' /\ RecoveryIsAlone'
  BY <1>0 DEF Settler, Pending, BetweenFlushes, MarkerInv, DrainKeepsMarked, RecoveryIsAlone
<1>2. CASE CancelRemovesRow
  <2>1. /\ Settled(cancel.msg) /\ rows' = WithoutMessage(rows, cancel.msg)
        /\ cancel.pc = "remove" /\ cancel'.pc = "event"
    BY <1>2 DEF CancelRemovesRow, QueueInv, HandlersHold, CancelHolds, TypeOK, HandlerType, CallType
  <2>2. MarkedRowsStay
    BY <2>1, WithoutMessageDrops DEF MarkedRowsStay
  <2>3. CancelKeepsHead'
    BY <2>1 DEF CancelKeepsHead
  <2>4. ASSUME ~ BetweenFlushes, NEW r \in Oldest(MarkedRows)'
        PROVE  \E q \in Oldest(MarkedRows) : q.msg = r.msg
    <3>1. \A q \in Oldest(MarkedRows) : q.msg # cancel.msg
      BY <2>1, <2>4 DEF MarkerInv, CancelKeepsHead
    <3>2. MarkedRows' = { q \in MarkedRows : q.msg # cancel.msg }
      BY <1>0, <2>1 DEF MarkedRows, WithoutMessage
    <3> QED
      BY <2>4, <3>1, <3>2, OldestStaysWithout
  <2> QED
    BY <1>0, <1>1, <2>2, <2>3, <2>4, OthersKeep
<1>3. ASSUME NEW m \in Message, CancelMarks(m) PROVE MarkerInv'
  <2>1. /\ UNCHANGED rows /\ ~ Settled(m)
        /\ cancel'.msg = m /\ gate' = "cancel"
    BY <1>3 DEF CancelMarks, Settled, Status, Terminal
  <2>2. CancelKeepsHead'
    <3> SUFFICES ASSUME NEW r \in Oldest(MarkedRows), r.msg = m PROVE BetweenFlushes
      BY <1>0, <1>1, <2>1 DEF CancelKeepsHead, MarkedRows, Oldest
    <3> QED
      BY <1>1, <2>1 DEF MarkerInv, HeadIsHandled, Handles
  <2> QED
    BY <1>0, <1>1, <2>1, <2>2, RowsUnchanged, OthersKeep
<1>4. CASE (\E m \in Message : CancelRepairs(m) \/ CancelAgain(m)) \/ CancelReports
  <2>1. UNCHANGED rows /\ cancel'.pc # "remove"
    BY <1>4
    DEF CancelRepairs, CancelAgain, CancelReports, IdleCall, handlers
  <2>2. CancelKeepsHead'
    BY <2>1 DEF CancelKeepsHead
  <2> QED
    BY <1>0, <1>1, <2>1, <2>2, RowsUnchanged, OthersKeep
<1> QED
  BY <1>2, <1>3, <1>4 DEF Cancellation

(* A flush under way finds the oldest marked row settled: the interruption  *)
(* has had it first, as it is the row the flush has or would take.          *)
LEMMA FlushFindsSettled ==
  ASSUME QueueInv, OrderInv, MarkerInv, gate = "open",
         NEW r \in Row, r.msg \in marker.msgs,
         \/ drain.pc = "flush" /\ r \in Oldest(rows)
         \/ Delivering /\ r = drain.row
  PROVE  Settled(r.msg)
<1>1. \A s \in Settler : ~ Pending(s)
  BY DEF Settler, Pending
<1>2. ~ BetweenFlushes
  BY DEF BetweenFlushes, Delivering
<1>3. CASE drain.pc = "flush" /\ r \in Oldest(rows)
  <2>1. r \in Oldest(MarkedRows)
    BY <1>3 DEF Oldest, MarkedRows
  <2> QED
    BY <1>1, <1>2, <2>1 DEF MarkerInv, HeadIsHandled, Handles
<1>4. CASE Delivering /\ r = drain.row
  <2>1. CASE r.msg \in Messages(rows)
    <3>1. PICK p \in rows : p.msg = r.msg
      BY <2>1 DEF Messages
    <3>2. p.at = r.at /\ \A q \in rows : r.at <= q.at
      BY <1>4, <3>1 DEF OrderInv, FlushedIsOldest, Flushing, Delivering
    <3>3. p \in Oldest(MarkedRows)
      BY <3>1, <3>2 DEF Oldest, MarkedRows
    <3> QED
      BY <1>1, <1>2, <3>1, <3>3 DEF MarkerInv, HeadIsHandled, Handles
  <2> QED
    BY <1>4, <2>1 DEF OrderInv, LostRowIsSettled
<1> QED
  BY <1>3, <1>4

LEMMA DeliveryFailsKeepsMarker ==
  ASSUME QueueInv, OrderInv, StepHolds, OneRowPerMessage', MarkerInv,
         NEW f \in Failures, DeliveryFails(f[1], f[2])
  PROVE  MarkerInv'
<1>0. /\ gate = "open" /\ Delivering /\ drain.row \in Row
      /\ drain.pc \notin {"idle", "maintain", "recover"}
      /\ drain'.pc \in {"idle", "terminalize"}
      /\ UNCHANGED <<marker, interrupts, settle, cancel>>
  BY DrainHoldsRow DEF DeliveryFails, QueueInv, TypeOK, HandlerType, Delivering, IdleDrain, bounds
<1>1. PICK d : rows' = WithoutMessage(rows, drain.row.msg)
                 \cup { [ at |-> drain.row.at, msg |-> drain.row.msg, delivery |-> d ] }
  BY <1>0, WrittenBackInPlace DEF DeliveryFails
<1> DEFINE new == [ at |-> drain.row.at, msg |-> drain.row.msg, delivery |-> d ]
<1>2. /\ new.at = drain.row.at /\ new.msg = drain.row.msg
      /\ rows' = WithoutMessage(rows, drain.row.msg) \cup {new}
  BY <1>1
<1> HIDE DEF new
<1>3. MarkedRowsStay
  BY <1>2 DEF MarkedRowsStay, WithoutMessage, Messages
<1>4. ASSUME NEW r \in Oldest(MarkedRows)'
      PROVE  Settled(r.msg)' \/ \E q \in Oldest(MarkedRows) : q.msg = r.msg
  <2>1. CASE drain.row.msg \in marker.msgs
    <3>1. CASE r.msg = drain.row.msg
      BY <1>0, <2>1, <3>1, FlushFindsSettled, SettledStays
    <3>2. CASE r.msg # drain.row.msg
      <4>1. r \in rows /\ r \in MarkedRows /\ new \in MarkedRows' /\ r.at <= drain.row.at
        BY <1>0, <1>2, <2>1, <3>2 DEF Oldest, MarkedRows, WithoutMessage
      <4>2. /\ \A q \in rows : drain.row.at <= q.at
            /\ \A q \in rows : q.at \in Nat
            /\ drain.row.at \in Nat
        BY <1>0 DEF OrderInv, FlushedIsOldest, Flushing, Delivering, QueueInv, TypeOK, StorageType, Row
      <4>3. \A q \in MarkedRows : r.at <= q.at
        BY <4>1, <4>2 DEF MarkedRows
      <4> QED
        BY <4>1, <4>3 DEF Oldest
    <3> QED
      BY <3>1, <3>2
  <2>2. CASE drain.row.msg \notin marker.msgs
    <3>1. MarkedRows' = MarkedRows
      BY <1>0, <1>2, <2>2 DEF MarkedRows, WithoutMessage
    <3> QED
      BY <3>1 DEF Oldest
  <2> QED
    BY <2>1, <2>2
<1>5. /\ \A s \in Settler : ~ Pending(s)
      /\ ~ BetweenFlushes
      /\ DrainKeepsMarked' /\ RecoveryIsAlone' /\ CancelKeepsHead'
  BY <1>0 DEF Settler, Pending, BetweenFlushes, MarkerInv, DrainKeepsMarked, RecoveryIsAlone,
              CancelKeepsHead
<1> QED
  BY <1>0, <1>3, <1>4, <1>5, OthersKeep

LEMMA AlarmKeepsMarker ==
  ASSUME QueueInv, OrderInv, StepHolds, OneRowPerMessage', MarkerInv,
         Alarm, ~ RecoverInterruption
  PROVE  MarkerInv'
<1>0. /\ UNCHANGED <<marker, interrupts, settle, cancel>>
      /\ gate \in {"open", "alarm"}
  BY DEF Alarm, Deliver, AlarmFires, NothingToRecover, FlushYields, FlushResidue, FlushExhausted,
         FlushDelivers, WrapperTakes, DeliveryAccepted, AcceptedEffects, DeliveryHeld,
         DeliverySkipped, DeliveryFails, DeliveryGivenUp, DrainRemovesRow, storage, bounds
<1>1. drain.pc # "recover" /\ (gate = "open" \/ drain.pc \in {"accepted", "remove", "terminalize"})
  BY DEF Alarm, Deliver, AlarmFires, NothingToRecover, FlushYields, FlushResidue, FlushExhausted,
         FlushDelivers, FlushableRow, Head, WrapperTakes, DeliveryAccepted, AcceptedEffects,
         DeliveryHeld, DeliverySkipped, DeliveryFails, DeliveryGivenUp, DrainRemovesRow
<1>2. /\ \A s \in Settler : ~ Pending(s)
      /\ RecoveryIsAlone' /\ CancelKeepsHead'
  BY <1>0, <1>1 DEF Settler, Pending, MarkerInv, RecoveryIsAlone, CancelKeepsHead
<1>3. CASE AlarmFires \/ FlushYields \/ DeliveryHeld \/ DeliverySkipped
  <2>1. UNCHANGED rows /\ BetweenFlushes' /\ DrainKeepsMarked'
    BY <1>3 DEF AlarmFires, FlushYields, DeliveryHeld, DeliverySkipped, DrainGoesTo, IdleDrain,
                BetweenFlushes, DrainKeepsMarked, storage
  <2> QED
    BY <1>0, <1>2, <2>1, RowsUnchanged, OthersKeep
<1>4. CASE NothingToRecover
  <2>1. UNCHANGED rows /\ marker.msgs = {} /\ DrainKeepsMarked'
    BY <1>4, MarkerType
    DEF NothingToRecover, DrainGoesTo, DrainKeepsMarked, storage, QueueInv
  <2> QED
    BY <1>0, <1>2, <2>1, RowsUnchanged, OthersKeep
<1>5. CASE FlushResidue
  <2>1. PICK r \in rows : drain.pc = "flush" /\ r \in Oldest(rows) /\ gate = "open"
                          /\ rows' = WithoutMessage(rows, r.msg)
    BY <1>5 DEF FlushResidue, Head
  <2>2. r \in Row
    BY DEF QueueInv, TypeOK, StorageType
  <2>3. MarkedRowsStay
    BY <2>1, <2>2, FlushFindsSettled, WithoutMessageDrops DEF MarkedRowsStay
  <2>4. BetweenFlushes' /\ DrainKeepsMarked'
    BY <1>5 DEF FlushResidue, IdleDrain, BetweenFlushes, DrainKeepsMarked
  <2> QED
    BY <1>0, <1>2, <2>3, <2>4, OthersKeep
<1>6. CASE DrainRemovesRow
  <2>1. /\ drain.row.msg \in marker.msgs => Settled(drain.row.msg)
        /\ rows' = WithoutMessage(rows, drain.row.msg)
    BY <1>6 DEF DrainRemovesRow, MarkerInv, DrainKeepsMarked
  <2>2. MarkedRowsStay
    BY <2>1, WithoutMessageDrops DEF MarkedRowsStay
  <2>3. BetweenFlushes' /\ DrainKeepsMarked'
    BY <1>6 DEF DrainRemovesRow, IdleDrain, BetweenFlushes, DrainKeepsMarked
  <2> QED
    BY <1>0, <1>2, <2>2, <2>3, OthersKeep
<1>7. CASE FlushExhausted \/ FlushDelivers \/ WrapperTakes
  <2>1. /\ UNCHANGED rows /\ ~ BetweenFlushes
        /\ drain'.pc \in {"terminalize", "deliver", "posted"}
    BY <1>7 DEF FlushExhausted, FlushDelivers, FlushableRow, Head, WrapperTakes, DrainGoesTo,
                BetweenFlushes, storage
  <2>2. DrainKeepsMarked'
    BY <2>1 DEF DrainKeepsMarked
  <2> QED
    BY <1>0, <1>2, <2>1, <2>2, RowsUnchanged, OthersKeep
<1>8. CASE DeliveryAccepted
  <2>1. /\ UNCHANGED rows /\ ~ BetweenFlushes /\ gate = "open" /\ gate' = "alarm"
        /\ Delivering /\ drain.row \in Row /\ drain'.row = drain.row
    BY <1>8, DrainHoldsRow
    DEF DeliveryAccepted, DrainGoesTo, BetweenFlushes, Delivering, QueueInv, TypeOK, HandlerType
  <2>2. DrainKeepsMarked'
    BY <1>0, <2>1, FlushFindsSettled, SettledStays DEF DrainKeepsMarked
  <2> QED
    BY <1>0, <1>2, <2>1, <2>2, RowsUnchanged, OthersKeep
<1>9. CASE AcceptedEffects
  <2>1. /\ UNCHANGED <<rows, gate>> /\ ~ BetweenFlushes /\ drain.pc = "accepted"
        /\ drain'.row = drain.row
    BY <1>9 DEF AcceptedEffects, DrainGoesTo, BetweenFlushes
  <2>2. DrainKeepsMarked'
    BY <1>0, <2>1, SettledStays DEF MarkerInv, DrainKeepsMarked
  <2> QED
    BY <1>0, <1>2, <2>1, <2>2, RowsUnchanged, OthersKeep
<1>10. CASE DeliveryGivenUp
  <2>1. /\ UNCHANGED <<rows, gate>> /\ ~ BetweenFlushes /\ gate = "alarm"
        /\ drain'.row = drain.row /\ drain.row \in Row
        /\ TerminalizeOnce(drain.row.msg, "failed", "delivery_failure")
    BY <1>10, DrainHoldsRow
    DEF DeliveryGivenUp, DrainGoesTo, BetweenFlushes, QueueInv, TypeOK, HandlerType
  <2>2. Exists(drain.row.msg)
    BY <1>10 DEF DeliveryGivenUp, QueueInv, HandlersHold, DrainHolds
  <2>3. Settled(drain.row.msg)'
    BY <2>1, <2>2, TerminalizeOnceSettles DEF QueueInv, Terminal, Source, Row
  <2>4. DrainKeepsMarked'
    BY <2>1, <2>3 DEF DrainKeepsMarked
  <2> QED
    BY <1>0, <1>2, <2>1, <2>4, RowsUnchanged, OthersKeep
<1> QED
  BY <1>3, <1>4, <1>5, <1>6, <1>7, <1>8, <1>9, <1>10, DeliveryFailsKeepsMarker DEF Alarm, Deliver

(* One interruption takes a step; the other keeps what it holds. *)
LEMMA SettlementKeeps ==
  ASSUME QueueInv, StepHolds, MarkerInv, NEW s \in Settler,
         UNCHANGED <<marker, interrupts, cancel>>, settle[s].pc # "idle", gate \in {"open", s},
         MarkedRowsStay,
         \A t \in Settler : t # s => settle'[t] = settle[t],
         \/ UNCHANGED drain
         \/ s = "alarm" /\ drain' = IdleDrain /\ settle'[s] = IdleSettle,
         \A m \in marker.msgs : StillDue(s, m)',
         HeadIsHandled'
  PROVE  MarkerInv'
<1>1. ASSUME NEW t \in Settler, NEW m \in marker.msgs PROVE StillDue(t, m)'
  BY <1>1, MarkedStays
<1>2. MarkedIsDue'
  BY <1>1, MarkedStays DEF MarkedIsDue
<1>3. drain.pc \notin {"accepted", "remove"} /\ (s = "alarm" => drain.pc = "recover")
  BY DEF MarkerInv, DrainKeepsMarked, RecoveryIsAlone
<1>4. DrainKeepsMarked'
  BY <1>3 DEF DrainKeepsMarked, IdleDrain
<1>5. RecoveryIsAlone'
  BY <1>3 DEF MarkerInv, RecoveryIsAlone, IdleDrain, IdleSettle, Settler
<1>6. CancelKeepsHead'
  BY DEF MarkerInv, CancelKeepsHead, Settler
<1>7. InterruptedByCall'
  BY DEF MarkerInv, InterruptedByCall
<1> QED
  BY <1>2, <1>4, <1>5, <1>6, <1>7 DEF MarkerInv

LEMMA SettlementKeepsMarker ==
  ASSUME QueueInv, StepHolds, MarkerInv, NEW s \in Settler, Settlement(s)
  PROVE  MarkerInv'
<1>0. /\ settle \in [Settler -> SettleType] /\ settle[s] \in SettleType
      /\ marker.msgs \subseteq Message
  BY MarkerType DEF QueueInv, TypeOK, HandlerType
<1>1. \A m \in marker.msgs : Settled(m) => Settled(m)'
  BY SettledStays
<1>2. ASSUME NEW m \in Message, Interrupts(m) PROVE Settled(m)'
  <2>1. Exists(m)
    BY <1>2 DEF Interrupts, Exists, Status
  <2> QED
    BY <1>2, <2>1, TerminalizeOnceSettles DEF QueueInv, Interrupts, Terminal, Source
<1>3. gate \in {"open", s} /\ \A t \in Settler : Pending(t) => t = s
  BY DEF Settlement, RepairCaptured, InterruptPending, CaptureAccepted, InterruptAccepted,
         StopWrapper, DeleteCaptured, ClearMarker, CanRun, Pending, Settler
<1>4. ASSUME \A m \in marker.msgs : Settled(m), UNCHANGED marker PROVE HeadIsHandled'
  BY <1>1, <1>4 DEF HeadIsHandled, MarkedRows, Oldest
<1>5. CASE RepairCaptured(s)
  <2>1. /\ UNCHANGED <<rows, marker, drain, settle, interrupts, cancel>> /\ gate' = s
        /\ settle[s].pc = "pending"
    BY <1>5 DEF RepairCaptured, NextCaptured, handlers, bounds
  <2>2. HeadIsHandled'
    <3> SUFFICES ASSUME NEW r \in Oldest(MarkedRows)
                 PROVE  Settled(r.msg)' \/ BetweenFlushes \/ \E t \in Settler : Handles(t, r.msg)'
      BY <2>1 DEF HeadIsHandled, MarkedRows, Oldest, BetweenFlushes
    <3>1. r.msg \in marker.msgs
      BY DEF Oldest, MarkedRows
    <3>2. ASSUME NEW t \in Settler, Handles(t, r.msg) PROVE Handles(t, r.msg)'
      BY <1>3, <2>1, <3>2 DEF Handles, Pending, Oldest
    <3> QED
      BY <1>1, <3>1, <3>2 DEF MarkerInv, HeadIsHandled
  <2>3. \A m \in marker.msgs : StillDue(s, m)'
    BY <2>1, RowsUnchanged, MarkedStays
  <2> QED
    BY <1>3, <2>1, <2>2, <2>3, RowsUnchanged, SettlementKeeps
<1>6. CASE InterruptPending(s)
  <2>1. PICK r \in settle[s].todo :
          /\ settle[s].pc = "pending" /\ r \in Oldest(settle[s].todo)
          /\ \/ SettleThrows(s, r.msg)
             \/ Interrupts(r.msg) /\ settle' = [settle EXCEPT ![s].todo = @ \ {r}]
    BY <1>6 DEF InterruptPending, NextCaptured
  <2>2. r.msg \in Message
    BY <1>0 DEF SettleType, Row
  <2>3. /\ \A t \in Settler : t # s => settle'[t] = settle[t]
        /\ UNCHANGED <<rows, marker, cancel, interrupts>>
        /\ \/ UNCHANGED drain
           \/ s = "alarm" /\ drain' = IdleDrain /\ settle'[s] = IdleSettle
    BY <1>0, <1>6, <2>1 DEF InterruptPending, SettleThrows, Interrupts, bounds
  <2>4. Settled(r.msg)'
    <3>1. CASE SettleThrows(s, r.msg)
      BY <3>1 DEF SettleThrows, Settled, Status
    <3> QED
      BY <1>2, <2>1, <2>2, <3>1
  <2>5. ASSUME NEW m \in marker.msgs PROVE StillDue(s, m)'
    <3>1. CASE SettleThrows(s, r.msg)
      BY <1>0, <3>1 DEF SettleThrows, StillDue, IdleSettle
    <3>2. CASE Interrupts(r.msg) /\ settle' = [settle EXCEPT ![s].todo = @ \ {r}]
      <4>1. settle'[s].pc = "pending" /\ settle'[s].todo = settle[s].todo \ {r}
        BY <1>0, <2>1, <3>2 DEF SettleType
      <4>2. Settled(m) \/ m \in Messages(settle[s].todo)
        BY <2>1 DEF MarkerInv, MarkedIsDue, StillDue
      <4> QED
        BY <1>1, <2>4, <4>1, <4>2 DEF StillDue, Messages
    <3> QED
      BY <2>1, <3>1, <3>2
  <2>6. HeadIsHandled'
    <3> SUFFICES ASSUME NEW h \in Oldest(MarkedRows)
                 PROVE  Settled(h.msg)' \/ BetweenFlushes'
      BY <2>3 DEF HeadIsHandled, MarkedRows, Oldest
    <3>1. h.msg \in marker.msgs
      BY DEF Oldest, MarkedRows
    <3>2. ASSUME NEW t \in Settler, Handles(t, h.msg) PROVE Settled(h.msg)'
      BY <1>3, <2>1, <2>4, <3>2 DEF Handles
    <3>3. BetweenFlushes => BetweenFlushes'
      BY <2>3 DEF BetweenFlushes, IdleDrain
    <3> QED
      BY <1>1, <3>1, <3>2, <3>3 DEF MarkerInv, HeadIsHandled
  <2> QED
    BY <1>3, <2>1, <2>3, <2>5, <2>6, RowsUnchanged, SettlementKeeps
<1>7. CASE CaptureAccepted(s)
  <2>1. /\ \A t \in Settler : t # s => settle'[t] = settle[t]
        /\ settle[s].pc = "pending" /\ settle[s].todo = {} /\ settle'[s].pc = "accepted"
        /\ UNCHANGED <<rows, marker, drain, cancel, interrupts>>
    BY <1>0, <1>7 DEF CaptureAccepted, SettleType, storage, bounds
  <2>2. \A m \in marker.msgs : Settled(m)
    BY <2>1 DEF MarkerInv, MarkedIsDue, StillDue, Messages
  <2>3. \A m \in marker.msgs : StillDue(s, m)'
    BY <1>1, <2>1, <2>2 DEF StillDue
  <2> QED
    BY <1>3, <1>4, <2>1, <2>2, <2>3, RowsUnchanged, SettlementKeeps
<1>8. CASE InterruptAccepted(s) \/ StopWrapper(s) \/ DeleteCaptured(s)
  <2>1. settle[s].pc \in {"accepted", "delete"}
    BY <1>8 DEF InterruptAccepted, StopWrapper, DeleteCaptured
  <2>2. \A m \in marker.msgs : Settled(m)
    BY <2>1 DEF MarkerInv, MarkedIsDue, StillDue
  <2>3. /\ \A t \in Settler : t # s => settle'[t] = settle[t]
        /\ settle'[s].pc \in {"idle", "accepted", "delete"}
        /\ UNCHANGED <<marker, cancel, interrupts>>
        /\ \/ UNCHANGED drain
           \/ s = "alarm" /\ drain' = IdleDrain /\ settle'[s] = IdleSettle
    <3>1. CASE InterruptAccepted(s)
      <4>1. PICK m \in settle[s].live : \/ SettleThrows(s, m)
                                       \/ /\ UNCHANGED drain
                                          /\ settle' = [settle EXCEPT ![s].live = settle[s].live \ {m}]
        BY <3>1 DEF InterruptAccepted, Interrupts
      <4>2. UNCHANGED <<marker, cancel, interrupts>> /\ settle[s].pc = "accepted"
        BY <3>1 DEF InterruptAccepted, bounds
      <4>3. CASE SettleThrows(s, m)
        BY <1>0, <4>2, <4>3 DEF SettleThrows, IdleSettle
      <4>4. CASE /\ UNCHANGED drain
                 /\ settle' = [settle EXCEPT ![s].live = settle[s].live \ {m}]
        BY <1>0, <4>2, <4>4 DEF SettleType
      <4> QED
        BY <4>1, <4>3, <4>4
    <3>2. CASE StopWrapper(s)
      BY <1>0, <3>2 DEF StopWrapper, SettleType, bounds
    <3>3. CASE DeleteCaptured(s)
      BY <1>0, <3>3 DEF DeleteCaptured, SettleType, bounds
    <3> QED
      BY <1>8, <3>1, <3>2, <3>3
  <2>4. MarkedRowsStay
    BY <2>2 DEF MarkedRowsStay
  <2>5. \A m \in marker.msgs : StillDue(s, m)'
    BY <1>1, <2>2, <2>3 DEF StillDue
  <2> QED
    BY <1>3, <1>4, <2>1, <2>2, <2>3, <2>4, <2>5, SettlementKeeps
<1>9. CASE ClearMarker(s)
  <2>1. /\ marker'.msgs = {} /\ ~ marker'.set /\ UNCHANGED <<rows, cancel, interrupts>>
        /\ settle' = [settle EXCEPT ![s] = IdleSettle] /\ settle[s].pc = "delete"
        /\ drain' = IF s = "alarm" THEN [ pc |-> "flush", row |-> NoRow ] ELSE drain
    BY <1>9 DEF ClearMarker, NoMarker, bounds
  <2>2. MarkedRows' = {}
    BY <2>1 DEF MarkedRows
  <2>3. MarkedIsDue' /\ HeadIsHandled'
    BY <2>1, <2>2 DEF MarkedIsDue, HeadIsHandled, Oldest
  <2>4. drain.pc \notin {"accepted", "remove"} /\ cancel.pc # "remove"
    BY <1>3, <2>1 DEF MarkerInv, DrainKeepsMarked, RecoveryIsAlone, CancelKeepsHead, Settler
  <2>5. DrainKeepsMarked' /\ CancelKeepsHead'
    BY <2>1, <2>4 DEF DrainKeepsMarked, CancelKeepsHead
  <2>6. RecoveryIsAlone'
    BY <1>0, <2>1 DEF MarkerInv, RecoveryIsAlone, IdleSettle, Settler
  <2>7. InterruptedByCall'
    BY <2>1 DEF MarkerInv, InterruptedByCall
  <2> QED
    BY <2>3, <2>5, <2>6, <2>7 DEF MarkerInv
<1> QED
  BY <1>5, <1>6, <1>7, <1>8, <1>9 DEF Settlement

(* A first call finds no marker and marks what has rows. *)
LEMMA InterruptStartsMarks ==
  ASSUME MaxInterrupts \leq 1, QueueInv, OrderInv, MarkerInv, InterruptStarts
  PROVE  MarkerInv'
<1>1. interrupts = 0 /\ interrupts' # 0
  BY QueueAssumption DEF InterruptStarts, QueueInv, TypeOK, HistoryType
<1>2. ~ marker.set /\ \A s \in Settler : settle[s].pc = "idle"
  BY <1>1 DEF MarkerInv, InterruptedByCall
<1>3. settle \in [Settler -> SettleType]
  BY DEF QueueInv, TypeOK, HandlerType
<1>4. /\ marker'.msgs = Messages(rows) /\ UNCHANGED <<rows, drain, cancel>>
      /\ settle'["interrupt"].pc = "pending" /\ settle'["interrupt"].todo = rows
      /\ settle'["alarm"].pc = "idle"
      /\ gate = "open" /\ gate' = "interrupt"
  BY <1>2, <1>3 DEF InterruptStarts, Settler
<1>5. MarkedIsDue'
  BY <1>4 DEF MarkedIsDue, StillDue, Settler, Messages
<1>6. HeadIsHandled'
  <2> SUFFICES ASSUME NEW r \in Oldest(MarkedRows)' PROVE Handles("interrupt", r.msg)'
    BY DEF HeadIsHandled, Settler
  <2>1. r \in rows /\ \A q \in rows : r.at <= q.at
    BY <1>4 DEF Oldest, MarkedRows, Messages
  <2>2. ASSUME NEW q \in Oldest(rows) PROVE q.msg = r.msg
    <3>1. q \in rows /\ q.at = r.at
      BY <2>1 DEF Oldest, QueueInv, TypeOK, StorageType, Row
    <3> QED
      BY <2>1, <3>1 DEF OrderInv, RowsAreDated
  <2> QED
    BY <1>4, <2>2 DEF Handles, Pending
<1>7. DrainKeepsMarked' /\ RecoveryIsAlone' /\ CancelKeepsHead'
  BY <1>4 DEF MarkerInv, DrainKeepsMarked, RecoveryIsAlone, CancelKeepsHead
<1> QED
  BY <1>1, <1>5, <1>6, <1>7 DEF MarkerInv, InterruptedByCall

LEMMA RecoveryKeepsMarker ==
  ASSUME QueueInv, OrderInv, StepHolds, MarkerInv, RecoverInterruption
  PROVE  MarkerInv'
<1>1. /\ settle \in [Settler -> SettleType]
      /\ marker.msgs \subseteq Message
  BY MarkerType DEF QueueInv, TypeOK, HandlerType
<1>2. /\ settle'["alarm"].pc = "pending" /\ settle'["alarm"].todo = MarkedRows
      /\ \A t \in Settler : t # "alarm" => settle'[t] = settle[t]
      /\ UNCHANGED <<rows, marker, interrupts, cancel>>
      /\ gate = "open" /\ gate' = "alarm" /\ drain'.pc = "recover" /\ marker.set
  BY <1>1 DEF RecoverInterruption, MarkedRows, DrainGoesTo, Settler, storage, bounds
<1>3. ASSUME NEW m \in marker.msgs PROVE StillDue("alarm", m)'
  <2>1. Settled(m)' \/ m \in Messages(MarkedRows)
    BY <1>2, <1>3, RowsUnchanged, MarkedStays DEF MarkedRows, Messages
  <2> QED
    BY <1>2, <2>1 DEF StillDue, Messages
<1>4. \A s \in Settler, m \in marker.msgs : StillDue(s, m)'
  BY <1>2, <1>3, RowsUnchanged, MarkedStays
<1>5. MarkedIsDue'
  BY <1>2, <1>4, RowsUnchanged, MarkedStays DEF MarkedIsDue
<1>6. HeadIsHandled'
  <2> SUFFICES ASSUME NEW r \in Oldest(MarkedRows) PROVE Handles("alarm", r.msg)'
    BY <1>2 DEF HeadIsHandled, Settler, MarkedRows, Oldest
  <2>1. ASSUME NEW q \in Oldest(MarkedRows) PROVE q.msg = r.msg
    <3>1. q \in rows /\ r \in rows /\ q.at = r.at
      BY DEF Oldest, MarkedRows, QueueInv, TypeOK, StorageType, Row
    <3> QED
      BY <3>1 DEF OrderInv, RowsAreDated
  <2>2. Oldest(settle["alarm"].todo)' = Oldest(MarkedRows)
    BY <1>2 DEF Oldest
  <2> QED
    BY <1>2, <2>1, <2>2 DEF Handles, Pending
<1>7. DrainKeepsMarked' /\ RecoveryIsAlone' /\ CancelKeepsHead'
  BY <1>2 DEF MarkerInv, DrainKeepsMarked, RecoveryIsAlone, CancelKeepsHead
<1>8. InterruptedByCall'
  BY <1>2 DEF RecoverInterruption, MarkerInv, InterruptedByCall
<1> QED
  BY <1>5, <1>6, <1>7, <1>8 DEF MarkerInv

LEMMA CrashKeepsMarker ==
  ASSUME QueueInv, StepHolds, MarkerInv, Crash
  PROVE  MarkerInv'
<1>1. /\ UNCHANGED <<rows, marker, interrupts>>
      /\ \A s \in Settler : settle'[s] = IdleSettle
      /\ drain'.pc = "idle" /\ cancel'.pc = "idle"
  BY DEF Crash, storage, IdleDrain, IdleCall
<1>2. MarkedIsDue'
  BY <1>1, RowsUnchanged, MarkedStays DEF MarkedIsDue
<1>3. HeadIsHandled' /\ DrainKeepsMarked' /\ RecoveryIsAlone' /\ CancelKeepsHead'
  BY <1>1 DEF HeadIsHandled, BetweenFlushes, DrainKeepsMarked, RecoveryIsAlone, CancelKeepsHead,
              IdleSettle, Settler
<1>4. InterruptedByCall'
  BY <1>1 DEF MarkerInv, InterruptedByCall, IdleSettle
<1> QED
  BY <1>2, <1>3, <1>4 DEF MarkerInv

LEMMA MarkerInvInit == Init => MarkerInv
  BY DEF Init, MarkerInv, MarkedIsDue, HeadIsHandled, BetweenFlushes, DrainKeepsMarked,
         RecoveryIsAlone, CancelKeepsHead, InterruptedByCall, NoMarker, IdleDrain, IdleCall,
         IdleSettle, Settler

LEMMA MarkerInvStep ==
  ASSUME OneAdmission, MaxInterrupts \leq 1, QueueInv, OrderInv, MarkerInv, [Next]_vars
  PROVE  MarkerInv'
<1>1. CASE Next
  <2>1. StepHolds /\ OneRowPerMessage'
    BY <1>1, NextPreserves, QueueInvStep DEF Preserved, QueueInv
  <2> QED
    BY <1>1, <2>1, AdmissionKeepsMarker, AlarmKeepsMarker, RecoveryKeepsMarker,
       InterruptStartsMarks, SettlementKeepsMarker, CancellationKeepsMarker, WrapperKeepsMarker,
       BackoffElapsesKeepsMarker, CrashKeepsMarker DEF Next
<1>2. CASE UNCHANGED vars
  BY <1>2 DEF MarkerInv, MarkedIsDue, StillDue, HeadIsHandled, Handles, Pending, BetweenFlushes,
              DrainKeepsMarked, RecoveryIsAlone, CancelKeepsHead, InterruptedByCall, MarkedRows,
              Oldest, Settled, Status, Messages, vars, storage, handlers, bounds
<1> QED
  BY <1>1, <1>2

(* No other step touches the marker. *)
LEMMA OthersKeepMarker ==
  ASSUME \/ \E c \in Caller : Admission(c)
         \/ Alarm \/ Cancellation \/ Wrapper \/ BackoffElapses
  PROVE  UNCHANGED marker
  BY DEF Admission, AdmitReplay, AdmitRepair, AdmitCheck, BillingDenies, AdmitPutRow, AdmitPutState,
         AdmitClone, AdmitEffects, Alarm, Deliver, AlarmFires, NothingToRecover,
         RecoverInterruption, FlushYields, FlushResidue, FlushExhausted, FlushDelivers,
         WrapperTakes, DeliveryAccepted, AcceptedEffects, DeliveryHeld, DeliverySkipped,
         DeliveryFails, DeliveryGivenUp, DrainRemovesRow, Cancellation, CancelRepairs, CancelMarks,
         CancelRemovesRow, CancelReports, CancelAgain, Wrapper, TerminalEventInfersAccepted,
         TerminalEvent, SettleLost, RunEnds, RunReplaced, BackoffElapses, storage

(* The marker is cleared only when every message it names is settled,       *)
(* whichever of the call and the recovery comes first and wherever the      *)
(* object crashes, as long as a second interruption is not called: the one  *)
(* that ends first would clear the other's.                                 *)
THEOREM MarkersCoverTheirBatch ==
  ASSUME OneAdmission, MaxInterrupts \leq 1
  PROVE  Spec => MarkerCoversBatch
<1> DEFINE Cleared == marker.set /\ ~ marker'.set =>
                        \A m \in marker.msgs : state'[m].status \in Terminal
<1>1. ASSUME QueueInv, MarkerInv, [Next]_vars PROVE [Cleared]_vars
  <2> SUFFICES ASSUME Next, marker.set, ~ marker'.set, NEW m \in marker.msgs
               PROVE  state'[m].status \in Terminal
    BY <1>1
  <2>1. PICK s \in Settler : ClearMarker(s)
    BY OthersKeepMarker
    DEF Next, InterruptStarts, Settlement, RepairCaptured, InterruptPending, CaptureAccepted,
        InterruptAccepted, StopWrapper, DeleteCaptured, Crash, storage
  <2>2. Settled(m)
    BY <1>1, <2>1 DEF ClearMarker, MarkerInv, MarkedIsDue, StillDue
  <2> QED
    BY <2>1, <2>2 DEF ClearMarker, Settled, Status
<1>2. Init => QueueInv /\ OrderInv /\ MarkerInv
  BY QueueInvInit, OrderInvInit, MarkerInvInit
<1>3. QueueInv /\ OrderInv /\ MarkerInv /\ [Next]_vars => (QueueInv /\ OrderInv /\ MarkerInv)'
  BY QueueInvStep, OrderInvStep, MarkerInvStep
<1>4. QueueInv /\ MarkerInv /\ [Next]_vars => [Cleared]_vars
  BY <1>1
<1> QED
  BY <1>2, <1>3, <1>4, PTL DEF Spec, MarkerCoversBatch

================================================================================
