------------------------- MODULE SettlementOutboxProofs -------------------------
(***************************************************************************)
(* The end of a message, for every number of messages, handlers, runs and  *)
(* crashes: no job leaves before the event of its message, no callback is  *)
(* forgotten, and, where no push is awaited, a gate result is kept.        *)
(***************************************************************************)
EXTENDS SettlementOutbox, TLAPS

(* The repair of the alarm finds the callback of this state pending. *)
Owes(s) == Normalized(s).callback = "pending"

(* The messages a callback is or will be sent for. *)
Representatives == finalized \cup (IF batch.open THEN { batch.rep } ELSE {})

(* A message that ended no earlier stands for m. *)
Covered(m) == \E n \in Representatives : msgs[n].at >= msgs[m].at

(* A state of a message that ended, perhaps an older one: its outcome is    *)
(* final, an event it reports is in the history, and its callback is        *)
(* pending unless another message stands for it.                            *)
Genuine(s) ==
  /\ s \in MessageState
  /\ s.status \in Terminal /\ s.status = msgs[s.id].status /\ s.at = msgs[s.id].at
  /\ s.status # "canceled" => s.event # None /\ (s.event = "accounted" => s.id \in events)
  /\ s.id \in Required => Owes(s) \/ Covered(s.id)

(* A message that has not ended owes nothing yet. *)
MessagesAreGenuine ==
  \A m \in Message :
    /\ msgs[m].id = m
    /\ Ended(m) => Genuine(msgs[m])
    /\ ~Ended(m) => msgs[m].event = None /\ ~msgs[m].enqueued

RepresentativesEnded ==
  \A n \in Representatives :
    Ended(n) /\ (msgs[n].status # "canceled" => n \in events)

Effects == { "effects", "emitted", "recorded", "push" }

Jobs == { "job", "send", "sent" }

(* What an activity relies on: it writes back a genuine state, and between  *)
(* two durable writes the first one is done.                                *)
Holds(w) ==
  /\ w.pc \in Effects \cup Jobs => Genuine(w.copy)
  /\ w.pc = "row" => w.kind \in { "cancel", "delivery", "interruptRun" }
  /\ w.pc = "command" => w.kind = "interruptRun"
  /\ w.pc = "row" /\ w.kind = "delivery" => Genuine(w.copy)
  /\ w.pc = "emitted" => w.copy.id \in events
  /\ w.pc = "recorded" => Covered(w.copy.id)
  /\ w.pc \in Jobs => w.copy.id \in finalized
  /\ w.kind \in { "repair", "retry" } => \A s \in w.todo : Genuine(s)
  /\ w.kind = "retry" => \A s \in w.todo : s.id \in finalized

ActivitiesHold == \A h \in Worker : Holds(work[h])

OutboxInv == TypeOK /\ MessagesAreGenuine /\ RepresentativesEnded /\ ActivitiesHold

-----------------------------------------------------------------------------
(* What every step does to the storage. *)

(* An end is final, and nothing that was reported or finalized is taken back. *)
EndsAreFinal ==
  /\ events \subseteq events' /\ finalized \subseteq finalized'
  /\ \A m \in Message :
       Ended(m) => msgs'[m].status = msgs[m].status /\ msgs'[m].at = msgs[m].at

(* What stands for a message is only replaced by what ended no earlier. *)
CoverIsKept == \A m \in Message : Ended(m) /\ Covered(m) => Covered(m)'

RestTyped ==
  /\ rows \subseteq Message
  /\ lastRun \in 0..MaxRuns /\ run \in 0..lastRun
  /\ warm \in BOOLEAN /\ active \in BOOLEAN
  /\ reported \in [Message -> Result \cup { None }] /\ lost \subseteq 1..lastRun
  /\ clock \in Nat /\ crashes \in 0..MaxCrashes

CoreTyped ==
  /\ msgs \in [Message -> MessageState] /\ batch \in Batch
  /\ finalized \subseteq Message /\ events \subseteq Message

StorageStep ==
  /\ EndsAreFinal /\ CoverIsKept
  /\ CoreTyped' /\ MessagesAreGenuine' /\ RepresentativesEnded'

LEMMA TypeParts ==
  TypeOK <=> RestTyped /\ CoreTyped /\ gate \in Worker \cup { "open" } /\ work \in [Worker -> Activity]
  BY DEF TypeOK, RestTyped, CoreTyped

LEMMA OpenBatchType ==
  ASSUME NEW b \in Batch, b.open
  PROVE  b \in [ open : {TRUE}, rep : Message, allow : BOOLEAN,
                 observed : BOOLEAN, released : BOOLEAN ]
<1>1. b # NoBatch
  BY DEF NoBatch
<1> QED
  BY <1>1 DEF Batch

LEMMA RepresentativesType == ASSUME CoreTyped PROVE Representatives \subseteq Message
<1>1. batch.open => batch.rep \in Message
  BY OpenBatchType DEF CoreTyped
<1> QED
  BY <1>1 DEF Representatives, CoreTyped

LEMMA GenuineStays ==
  ASSUME EndsAreFinal, CoverIsKept, NEW s, Genuine(s)
  PROVE  Genuine(s)'
<1>1. s.id \in Message /\ Ended(s.id)
  BY DEF Genuine, MessageState, Ended
<1> QED
  BY <1>1 DEF Genuine, EndsAreFinal, CoverIsKept, Owes, Normalized, NeedsJob

LEMMA HoldsStays ==
  ASSUME EndsAreFinal, CoverIsKept, NEW w, Holds(w)
  PROVE  Holds(w)'
<1>1. \A s : Genuine(s) => Genuine(s)'
  BY GenuineStays
<1>2. w.pc = "recorded" => w.copy.id \in Message /\ Ended(w.copy.id)
  BY DEF Holds, Genuine, MessageState, Ended, Effects
<1> QED
  BY <1>1, <1>2 DEF Holds, EndsAreFinal, CoverIsKept

(* Every other activity holds what it held. *)
LEMMA ActivityStep ==
  ASSUME OutboxInv, StorageStep, RestTyped',
         NEW h \in Worker, NEW w \in Activity, gate' \in { h, "open" },
         work' = [work EXCEPT ![h] = w], Holds(w)'
  PROVE  OutboxInv'
<1>1. TypeOK'
  BY TypeParts DEF OutboxInv, StorageStep, RestTyped, CoreTyped, TypeOK
<1>2. ASSUME NEW g \in Worker PROVE Holds(work[g])'
  <2>1. CASE g = h
    BY <2>1 DEF OutboxInv, TypeOK, Holds
  <2>2. CASE g # h
    <3>1. Holds(work[g])
      BY DEF OutboxInv, ActivitiesHold
    <3>2. work'[g] = work[g]
      BY <2>2 DEF OutboxInv, TypeOK
    <3> QED
      BY <3>1, <3>2, HoldsStays DEF StorageStep, Holds
  <2> QED
    BY <2>1, <2>2
<1> QED
  BY <1>1, <1>2 DEF OutboxInv, StorageStep, ActivitiesHold

-----------------------------------------------------------------------------
(* The shapes of the steps on the storage. *)

LEMMA QuietStorage ==
  ASSUME OutboxInv, UNCHANGED <<msgs, batch, finalized, events>>
  PROVE  StorageStep
<1>1. EndsAreFinal /\ CoverIsKept
  BY DEF EndsAreFinal, CoverIsKept, Covered, Representatives
<1>2. CoreTyped'
  BY TypeParts DEF OutboxInv, CoreTyped
<1>3. MessagesAreGenuine'
  BY <1>1, GenuineStays DEF OutboxInv, MessagesAreGenuine, Ended
<1>4. RepresentativesEnded'
  BY DEF OutboxInv, RepresentativesEnded, Representatives, Ended
<1> QED
  BY <1>1, <1>2, <1>3, <1>4 DEF StorageStep

(* One message is written: a state that has not ended owes nothing; one     *)
(* that has keeps the end it had, and its event and its callback are        *)
(* accounted for.                                                           *)
LEMMA MessageStorage ==
  ASSUME OutboxInv, NEW s \in MessageState, msgs' = [msgs EXCEPT ![s.id] = s],
         UNCHANGED <<batch, finalized, events>>,
         Ended(s.id) => s.status = msgs[s.id].status /\ s.at = msgs[s.id].at,
         s.status \notin Terminal => s.event = None /\ ~s.enqueued,
         s.status \in Terminal \ { "canceled" } =>
           s.event # None /\ (s.event = "accounted" => s.id \in events),
         s.status \in Terminal /\ s.id \in Required =>
           Owes(s) \/ (Ended(s.id) /\ Covered(s.id))
  PROVE  StorageStep
<1>1. s.id \in Message /\ msgs \in [Message -> MessageState]
  BY DEF OutboxInv, TypeOK, MessageState
<1>2. msgs'[s.id] = s /\ \A n \in Message : n # s.id => msgs'[n] = msgs[n]
  BY <1>1
<1>3. Representatives' = Representatives /\ Representatives \subseteq Message
  BY RepresentativesType, TypeParts DEF OutboxInv, Representatives
<1>4. \A n \in Message : Ended(n) => msgs'[n].status = msgs[n].status /\ msgs'[n].at = msgs[n].at
  BY <1>1, <1>2
<1>5. EndsAreFinal
  BY <1>4 DEF EndsAreFinal
<1>6. \A n \in Representatives : msgs'[n].at = msgs[n].at /\ Ended(n)
  BY <1>3, <1>4 DEF OutboxInv, RepresentativesEnded
<1>7. CoverIsKept
  BY <1>3, <1>4, <1>6 DEF CoverIsKept, Covered
<1>8. CoreTyped'
  BY <1>1, TypeParts DEF OutboxInv, CoreTyped
<1>9. ASSUME NEW n \in Message
      PROVE  /\ msgs'[n].id = n
             /\ Ended(n)' => Genuine(msgs[n])'
             /\ ~Ended(n)' => msgs'[n].event = None /\ ~msgs'[n].enqueued
  <2>1. CASE n = s.id
    <3>1. msgs'[n] = s
      BY <1>2, <2>1
    <3>2. Ended(n)' <=> s.status \in Terminal
      BY <3>1 DEF Ended
    <3>3. s.status \in Terminal => Genuine(s)'
      <4> SUFFICES ASSUME s.status \in Terminal PROVE Genuine(s)'
        OBVIOUS
      <4>1. s.id \in Required => Owes(s) \/ Covered(s.id)'
        BY <1>1, <1>7 DEF CoverIsKept
      <4> QED
        BY <1>2, <4>1 DEF Genuine, Owes, Normalized, NeedsJob
    <3> QED
      BY <2>1, <3>1, <3>2, <3>3 DEF Genuine
  <2>2. CASE n # s.id
    <3>1. msgs'[n] = msgs[n]
      BY <1>2, <2>2
    <3>2. Genuine(msgs[n]) => Genuine(msgs[n])'
      BY <1>5, <1>7, <3>1, GenuineStays DEF Genuine
    <3> QED
      BY <3>1, <3>2 DEF OutboxInv, MessagesAreGenuine, Ended
  <2> QED
    BY <2>1, <2>2
<1>10. RepresentativesEnded'
  BY <1>3, <1>4 DEF OutboxInv, RepresentativesEnded, Ended
<1> QED
  BY <1>5, <1>7, <1>8, <1>9, <1>10 DEF StorageStep, MessagesAreGenuine

(* The event of a message is inserted. *)
LEMMA EventStorage ==
  ASSUME OutboxInv, NEW m \in Message, events' = events \cup { m },
         UNCHANGED <<msgs, batch, finalized>>
  PROVE  StorageStep
<1>1. EndsAreFinal /\ CoverIsKept
  BY DEF EndsAreFinal, CoverIsKept, Covered, Representatives
<1>2. CoreTyped'
  BY TypeParts DEF OutboxInv, CoreTyped
<1>3. MessagesAreGenuine'
  BY <1>1, GenuineStays DEF OutboxInv, MessagesAreGenuine, Ended
<1>4. RepresentativesEnded'
  BY DEF OutboxInv, RepresentativesEnded, Representatives, Ended
<1> QED
  BY <1>1, <1>2, <1>3, <1>4 DEF StorageStep

(* A batch is opened, changed or closed: what stood for a message goes only *)
(* when something else does, and that has ended and been reported.          *)
LEMMA BatchStorage ==
  ASSUME OutboxInv, UNCHANGED <<msgs, events>>,
         batch' \in Batch, finalized' \subseteq Message, finalized \subseteq finalized',
         \A n \in Representatives :
           \E k \in Representatives' : msgs[k].at >= msgs[n].at,
         \A k \in Representatives' :
           \/ k \in Representatives
           \/ Ended(k) /\ (msgs[k].status # "canceled" => k \in events)
  PROVE  StorageStep
<1>1. EndsAreFinal
  BY DEF EndsAreFinal
<1>2. CoreTyped'
  BY TypeParts DEF OutboxInv, CoreTyped
<1>3. Representatives \subseteq Message /\ Representatives' \subseteq Message
  <2>1. Representatives \subseteq Message
    BY RepresentativesType, TypeParts DEF OutboxInv
  <2>2. batch'.open => batch'.rep \in Message
    BY OpenBatchType
  <2> QED
    BY <2>1, <2>2 DEF Representatives
<1>4. \A m \in Message : msgs[m].at \in Nat
  BY DEF OutboxInv, TypeOK, MessageState
<1>5. CoverIsKept
  <2> SUFFICES ASSUME NEW m \in Message, Covered(m) PROVE Covered(m)'
    BY DEF CoverIsKept
  <2>1. PICK n \in Representatives : msgs[n].at >= msgs[m].at
    BY DEF Covered
  <2>2. PICK k \in Representatives' : msgs[k].at >= msgs[n].at
    OBVIOUS
  <2>3. msgs[k].at >= msgs[m].at
    BY <1>3, <1>4, <2>1, <2>2
  <2> QED
    BY <2>3 DEF Covered
<1>6. MessagesAreGenuine'
  BY <1>1, <1>5, GenuineStays DEF OutboxInv, MessagesAreGenuine, Ended
<1>7. RepresentativesEnded'
  BY DEF OutboxInv, RepresentativesEnded, Ended
<1> QED
  BY <1>1, <1>2, <1>5, <1>6, <1>7 DEF StorageStep

-----------------------------------------------------------------------------
(* Types of the activities. *)

LEMMA IdleType == Idle \in Activity
  BY OutboxAssumption DEF Idle, Activity, MessageState

LEMMA StatesType ==
  ASSUME OutboxInv, NEW S \in SUBSET Message
  PROVE  States(S) \subseteq MessageState
  BY DEF OutboxInv, TypeOK, States

LEMMA WorkType ==
  ASSUME OutboxInv, NEW h \in Worker
  PROVE  work[h] \in Activity /\ Holds(work[h])
  BY DEF OutboxInv, TypeOK, ActivitiesHold

(* The writes to a message. *)
LEMMA EditType ==
  ASSUME NEW s \in MessageState
  PROVE  /\ \A status \in { None, "queued", "accepted" } \cup Terminal :
              /\ [s EXCEPT !.status = status] \in MessageState
              /\ \A r \in 0..MaxRuns : [s EXCEPT !.status = status, !.run = r] \in MessageState
              /\ \A at \in Nat : [s EXCEPT !.status = status, !.at = at] \in MessageState
         /\ \A r \in 0..MaxRuns : [s EXCEPT !.run = r] \in MessageState
         /\ \A gate1 \in Result \cup { None } : [s EXCEPT !.gate = gate1] \in MessageState
         /\ \A callback \in { None, "pending", "accounted" } :
              /\ [s EXCEPT !.callback = callback] \in MessageState
              /\ [s EXCEPT !.event = "accounted", !.callback = callback] \in MessageState
         /\ [s EXCEPT !.push = "settled"] \in MessageState
         /\ [s EXCEPT !.enqueued = TRUE] \in MessageState
         /\ \A b \in BOOLEAN : [s EXCEPT !.retry = b] \in MessageState
<1>1. ASSUME NEW status \in { None, "queued", "accepted" } \cup Terminal
      PROVE  /\ [s EXCEPT !.status = status] \in MessageState
             /\ \A r \in 0..MaxRuns : [s EXCEPT !.status = status, !.run = r] \in MessageState
             /\ \A at \in Nat : [s EXCEPT !.status = status, !.at = at] \in MessageState
  <2>1. [s EXCEPT !.status = status] \in MessageState
    BY DEF MessageState
  <2>2. \A r \in 0..MaxRuns : [s EXCEPT !.status = status, !.run = r] \in MessageState
    BY DEF MessageState
  <2>3. \A at \in Nat : [s EXCEPT !.status = status, !.at = at] \in MessageState
    BY DEF MessageState
  <2> QED
    BY <2>1, <2>2, <2>3
<1>2. \A r \in 0..MaxRuns : [s EXCEPT !.run = r] \in MessageState
  BY DEF MessageState
<1>3. \A gate1 \in Result \cup { None } : [s EXCEPT !.gate = gate1] \in MessageState
  BY DEF MessageState
<1>4. \A callback \in { None, "pending", "accounted" } :
        [s EXCEPT !.callback = callback] \in MessageState
  BY DEF MessageState
<1>5. \A callback \in { None, "pending", "accounted" } :
        [s EXCEPT !.event = "accounted", !.callback = callback] \in MessageState
  BY DEF MessageState
<1>6. [s EXCEPT !.push = "settled"] \in MessageState
  BY DEF MessageState
<1>7. [s EXCEPT !.enqueued = TRUE] \in MessageState
  BY DEF MessageState
<1>8. \A b \in BOOLEAN : [s EXCEPT !.retry = b] \in MessageState
  BY DEF MessageState
<1> QED
  BY <1>1, <1>2, <1>3, <1>4, <1>5, <1>6, <1>7, <1>8

LEMMA MessageType ==
  ASSUME OutboxInv, NEW m \in Message
  PROVE  msgs[m] \in MessageState /\ msgs[m].id = m /\ (Ended(m) => Genuine(msgs[m]))
  BY DEF OutboxInv, TypeOK, MessagesAreGenuine

(* What a state owes depends on its effects only. *)
LEMMA SameEffects ==
  ASSUME NEW s \in MessageState, NEW t \in MessageState, s.id = t.id,
         s.event = t.event, s.callback = t.callback, s.enqueued = t.enqueued
  PROVE  Owes(s) <=> Owes(t)
  BY DEF Owes, Normalized, NeedsJob, MessageState

(* An activity that goes on. *)
LEMMA PcType ==
  ASSUME NEW w \in Activity,
         NEW pc \in { "idle", "settle", "row", "effects", "emitted", "recorded", "push", "tail",
                      "result", "observe", "release", "command", "close", "job", "send", "sent" },
         NEW copy \in MessageState \cup { NoCopy }, NEW todo \in SUBSET w.todo
  PROVE  /\ [ w EXCEPT !.pc = pc ] \in Activity
         /\ [ w EXCEPT !.pc = pc, !.copy = copy ] \in Activity
         /\ [ w EXCEPT !.pc = pc, !.copy = copy, !.todo = todo ] \in Activity
<1>1. [ w EXCEPT !.pc = pc ] \in Activity
  BY DEF Activity
<1>2. [ w EXCEPT !.pc = pc, !.copy = copy ] \in Activity
  BY DEF Activity
<1>3. todo \in SUBSET MessageState
  BY DEF Activity
<1>4. [ w EXCEPT !.pc = pc, !.copy = copy, !.todo = todo ] \in Activity
  BY <1>3 DEF Activity
<1> QED
  BY <1>1, <1>2, <1>4

(* An activity that is between two messages holds nothing but its list. *)
LEMMA PlainStep ==
  ASSUME OutboxInv, StorageStep, RestTyped',
         NEW h \in Worker, NEW w \in Activity, gate' \in { h, "open" },
         work' = [work EXCEPT ![h] = w],
         w.pc \notin Effects \cup Jobs \cup { "row" },
         w.pc = "command" => w.kind = "interruptRun",
         w.kind \in { "repair", "retry" } =>
           w.kind = work[h].kind /\ w.todo \subseteq work[h].todo
  PROVE  OutboxInv'
<1>1. Holds(w)'
  <2>1. \A x : Genuine(x) => Genuine(x)'
    BY GenuineStays DEF StorageStep
  <2>2. Holds(work[h])
    BY WorkType
  <2>3. ASSUME w.kind \in { "repair", "retry" } PROVE \A x \in w.todo : Genuine(x)'
    <3>1. \A x \in work[h].todo : Genuine(x)
      BY <2>2, <2>3 DEF Holds
    <3> QED
      BY <2>1, <2>3, <3>1
  <2>4. ASSUME w.kind = "retry" PROVE \A x \in w.todo : x.id \in finalized'
    BY <2>2, <2>4 DEF Holds, StorageStep, EndsAreFinal
  <2> QED
    BY <2>3, <2>4 DEF Holds, Effects, Jobs
<1> QED
  BY <1>1, ActivityStep

(* An activity that holds a state. *)
LEMMA EffectStep ==
  ASSUME OutboxInv, StorageStep, RestTyped',
         NEW h \in Worker, NEW w \in Activity, gate' \in { h, "open" },
         work' = [work EXCEPT ![h] = w],
         w.kind = work[h].kind, w.todo \subseteq work[h].todo,
         w.pc \in Effects \cup Jobs, Genuine(w.copy)',
         w.pc = "emitted" => w.copy.id \in events',
         w.pc = "recorded" => Covered(w.copy.id)',
         w.pc \in Jobs => w.copy.id \in finalized'
  PROVE  OutboxInv'
<1>1. \A x : Genuine(x) => Genuine(x)'
  BY GenuineStays DEF StorageStep
<1>2. Holds(work[h])
  BY WorkType
<1>3. ASSUME w.kind \in { "repair", "retry" } PROVE \A x \in w.todo : Genuine(x)'
  BY <1>1, <1>2, <1>3 DEF Holds
<1>4. ASSUME w.kind = "retry" PROVE \A x \in w.todo : x.id \in finalized'
  BY <1>2, <1>4 DEF Holds, StorageStep, EndsAreFinal
<1>5. w.pc \notin { "row", "command" }
  BY DEF Effects, Jobs
<1>6. Holds(w)'
  BY <1>3, <1>4, <1>5 DEF Holds
<1> QED
  BY <1>6, ActivityStep

LEMMA RestKept ==
  ASSUME OutboxInv, UNCHANGED <<rows, run, warm, lastRun, active, reported, lost, clock, crashes>>
  PROVE  RestTyped'
  BY DEF OutboxInv, TypeOK, RestTyped

LEMMA SameWorkStep ==
  ASSUME OutboxInv, StorageStep, RestTyped', UNCHANGED <<gate, work>>
  PROVE  OutboxInv'
<1>1. TypeOK'
  BY TypeParts DEF OutboxInv, StorageStep, RestTyped, CoreTyped, TypeOK
<1>2. ASSUME NEW g \in Worker PROVE Holds(work[g])'
  BY HoldsStays, WorkType DEF StorageStep, Holds
<1> QED
  BY <1>1, <1>2 DEF OutboxInv, StorageStep, ActivitiesHold

(* On to the next message, or past the last. *)
LEMMA ProceedStep ==
  ASSUME OutboxInv, StorageStep, RestTyped', NEW h \in Worker, Proceed(h, work[h])
  PROVE  OutboxInv'
<1>1. CASE work' = [work EXCEPT ![h] = Idle] /\ gate' = "open"
  BY <1>1, IdleType, PlainStep DEF Idle, Effects, Jobs
<1>2. CASE \E pc \in { "settle", "close", "tail" } :
             work' = [work EXCEPT ![h] = [ work[h] EXCEPT !.pc = pc ]] /\ gate' = h
  <2>1. PICK pc \in { "settle", "close", "tail" } :
          work' = [work EXCEPT ![h] = [ work[h] EXCEPT !.pc = pc ]] /\ gate' = h
    BY <1>2
  <2>2. PICK w \in Activity : w = [ work[h] EXCEPT !.pc = pc ]
    BY WorkType, PcType
  <2>3. w.kind = work[h].kind /\ w.todo = work[h].todo /\ w.pc = pc
    BY <2>2, WorkType DEF Activity
  <2> QED
    BY <2>1, <2>2, <2>3, PlainStep DEF Effects, Jobs
<1> QED
  BY <1>1, <1>2 DEF Proceed, Continue, Await

-----------------------------------------------------------------------------
(* The steps of the queue's side. *)

LEMMA SubmitStep ==
  ASSUME OutboxInv, NEW m \in Message, Submit(m)
  PROVE  OutboxInv'
<1>1. PICK s \in MessageState : s = [msgs[m] EXCEPT !.status = "queued"]
  BY EditType DEF OutboxInv, TypeOK
<1>2. msgs[m].id = m /\ ~Ended(m) /\ msgs[m].event = None /\ ~msgs[m].enqueued
  BY DEF Submit, Ended, None, Terminal, OutboxInv, MessagesAreGenuine
<1>3. s.id = m /\ s.status = "queued" /\ s.event = None /\ ~s.enqueued
  BY <1>1, <1>2 DEF OutboxInv, TypeOK, MessageState
<1>4. StorageStep
  BY <1>1, <1>2, <1>3, MessageStorage DEF Submit, Terminal
<1>5. RestTyped'
  BY DEF Submit, RestTyped, history, bounds, OutboxInv, TypeOK
<1> QED
  BY <1>4, <1>5, SameWorkStep DEF Submit

LEMMA AcceptWrites ==
  ASSUME OutboxInv, NEW m \in Message, Accept(m)
  PROVE  \E r \in 1..MaxRuns :
           /\ msgs' = [msgs EXCEPT ![m] = [@ EXCEPT !.status = "accepted", !.run = r]]
           /\ run' = r /\ lastRun' = Newest(r)
<1>1. run # 0 => run \in 1..MaxRuns
  BY OutboxAssumption DEF OutboxInv, TypeOK
<1>2. lastRun + 1 <= MaxRuns => lastRun + 1 \in 1..MaxRuns
  BY OutboxAssumption DEF OutboxInv, TypeOK
<1> QED
  BY <1>1, <1>2 DEF Accept

LEMMA AcceptStep ==
  ASSUME OutboxInv, NEW m \in Message, Accept(m)
  PROVE  OutboxInv'
<1>1. PICK r \in 1..MaxRuns :
        /\ msgs' = [msgs EXCEPT ![m] = [@ EXCEPT !.status = "accepted", !.run = r]]
        /\ run' = r /\ lastRun' = Newest(r)
  BY AcceptWrites
<1>2. PICK s \in MessageState : s = [msgs[m] EXCEPT !.status = "accepted", !.run = r]
  <2>1. [msgs[m] EXCEPT !.status = "accepted", !.run = r] \in MessageState
    <3>1. r \in 0..MaxRuns
      OBVIOUS
    <3> QED
      BY <3>1, MessageType, EditType
  <2> QED
    BY <2>1
<1>3. msgs[m].id = m /\ ~Ended(m) /\ msgs[m].event = None /\ ~msgs[m].enqueued
  BY DEF Accept, Ended, Terminal, OutboxInv, MessagesAreGenuine
<1>4. s.id = m /\ s.status = "accepted" /\ s.event = None /\ ~s.enqueued
  BY <1>2, <1>3 DEF OutboxInv, TypeOK, MessageState
<1>5. StorageStep
  <2>1. msgs' = [msgs EXCEPT ![s.id] = s]
    BY <1>1, <1>2, <1>4
  <2>2. UNCHANGED <<batch, finalized, events>>
    BY DEF Accept
  <2> QED
    BY <1>3, <1>4, <2>1, <2>2, MessageStorage DEF Terminal
<1>6. RestTyped'
  <2>1. lastRun' \in 0..MaxRuns /\ run' \in 0..lastRun' /\ lastRun <= lastRun'
    BY <1>1, OutboxAssumption DEF Newest, OutboxInv, TypeOK
  <2>2. lost \subseteq 1..lastRun'
    BY <2>1, OutboxAssumption DEF OutboxInv, TypeOK
  <2> QED
    BY <2>1, <2>2 DEF Accept, RestTyped, history, bounds, OutboxInv, TypeOK
<1> QED
  BY <1>5, <1>6, SameWorkStep DEF Accept

LEMMA DropResidueStep ==
  ASSUME OutboxInv, NEW m \in Message, DropResidue(m)
  PROVE  OutboxInv'
<1>1. StorageStep
  BY QuietStorage DEF DropResidue
<1>2. RestTyped'
  BY DEF DropResidue, RestTyped, history, bounds, OutboxInv, TypeOK
<1> QED
  BY <1>1, <1>2, SameWorkStep DEF DropResidue

LEMMA RetryElapsesStep ==
  ASSUME OutboxInv, NEW m \in Message, RetryElapses(m)
  PROVE  OutboxInv'
<1>1. PICK s \in MessageState : s = [msgs[m] EXCEPT !.retry = FALSE]
  BY EditType DEF OutboxInv, TypeOK
<1>2. msgs[m] \in MessageState /\ msgs[m].id = m
  BY MessageType
<1>3. /\ s.id = m /\ s.status = msgs[m].status /\ s.at = msgs[m].at
      /\ s.event = msgs[m].event /\ s.callback = msgs[m].callback
      /\ s.enqueued = msgs[m].enqueued
  BY <1>1, <1>2 DEF MessageState
<1>4. Ended(m) => Genuine(msgs[m])
  BY MessageType
<1>5. StorageStep
  <2>1. Owes(s) <=> Owes(msgs[m])
    BY <1>2, <1>3, SameEffects
  <2>2. ~Ended(m) => s.event = None /\ ~s.enqueued
    BY <1>3 DEF OutboxInv, MessagesAreGenuine
  <2>3. msgs' = [msgs EXCEPT ![s.id] = s]
    BY <1>1, <1>3 DEF RetryElapses
  <2>4. Ended(m) <=> s.status \in Terminal
    BY <1>3 DEF Ended
  <2>5. UNCHANGED <<batch, finalized, events>>
    BY DEF RetryElapses
  <2>6. CASE Ended(m)
    <3>1. m \in Required => Owes(s) \/ Covered(m)
      BY <1>2, <1>4, <2>1, <2>6 DEF Genuine
    <3>2. s.status # "canceled" => s.event # None /\ (s.event = "accounted" => m \in events)
      BY <1>2, <1>3, <1>4, <2>6 DEF Genuine
    <3> QED
      BY <1>3, <2>3, <2>4, <2>5, <2>6, <3>1, <3>2, MessageStorage
  <2>7. CASE ~Ended(m)
    BY <1>3, <2>2, <2>3, <2>4, <2>5, <2>7, MessageStorage
  <2> QED
    BY <2>6, <2>7
<1>6. RestTyped'
  BY DEF RetryElapses, RestTyped, history, bounds, OutboxInv, TypeOK
<1> QED
  BY <1>5, <1>6, SameWorkStep DEF RetryElapses

LEMMA CancelWrites ==
  ASSUME OutboxInv, NEW h \in Worker, NEW m \in Message, Cancel(h, m)
  PROVE  \E at \in Nat :
           /\ msgs' = [msgs EXCEPT ![m] = [@ EXCEPT !.status = "canceled", !.at = at]]
           /\ clock' = at
<1>1. Ticks \subseteq Nat
  BY DEF Ticks, OutboxInv, TypeOK
<1> QED
  BY <1>1 DEF Cancel

LEMMA CancelStep ==
  ASSUME OutboxInv, NEW h \in Worker, NEW m \in Message, Cancel(h, m)
  PROVE  OutboxInv'
<1>1. PICK at \in Nat :
        /\ msgs' = [msgs EXCEPT ![m] = [@ EXCEPT !.status = "canceled", !.at = at]]
        /\ clock' = at
  BY CancelWrites
<1>2. PICK s \in MessageState : s = [msgs[m] EXCEPT !.status = "canceled", !.at = at]
  <2>1. [msgs[m] EXCEPT !.status = "canceled", !.at = at] \in MessageState
    BY MessageType, EditType DEF Terminal
  <2> QED
    BY <2>1
<1>3. msgs[m].id = m /\ ~Ended(m) /\ msgs[m].event = None /\ ~msgs[m].enqueued
  BY DEF Cancel, Ended, Terminal, OutboxInv, MessagesAreGenuine
<1>4. s.id = m /\ s.status = "canceled" /\ s.event = None /\ ~s.enqueued
  BY <1>2, <1>3 DEF OutboxInv, TypeOK, MessageState
<1>5. m \in Required => Owes(s)
  BY <1>4 DEF Owes, Normalized, NeedsJob, MessageState
<1>6. StorageStep
  <2>1. msgs' = [msgs EXCEPT ![s.id] = s]
    BY <1>1, <1>2, <1>4
  <2>2. UNCHANGED <<batch, finalized, events>>
    BY DEF Cancel
  <2> QED
    BY <1>3, <1>4, <1>5, <2>1, <2>2, MessageStorage DEF Terminal
<1>7. RestTyped'
  BY <1>1 DEF Cancel, RestTyped, history, bounds, OutboxInv, TypeOK
<1>8. PICK w \in Activity :
        w = [ Idle EXCEPT !.kind = "cancel", !.pc = "row", !.captured = {m} ]
  <2>1. [ Idle EXCEPT !.kind = "cancel", !.pc = "row", !.captured = {m} ] \in Activity
    BY IdleType DEF Activity
  <2> QED
    BY <2>1
<1>9. gate' = h /\ work' = [work EXCEPT ![h] = w]
  BY <1>8 DEF Cancel, Start, Continue
<1>10. w.kind = "cancel" /\ w.pc = "row"
  BY <1>8 DEF Idle
<1>11. Holds(w)'
  BY <1>10 DEF Holds, Effects, Jobs
<1> QED
  BY <1>6, <1>7, <1>9, <1>11, ActivityStep

-----------------------------------------------------------------------------
(* The steps that begin an activity. *)

LEMMA RunType ==
  ASSUME OutboxInv
  PROVE  /\ run \in 0..MaxRuns /\ rows \in SUBSET Message
         /\ \A r : Accepted(r) \in SUBSET Message
         /\ \A r \in 1..lastRun : r \in 0..MaxRuns
<1>1. run \in 0..MaxRuns /\ \A r \in 1..lastRun : r \in 0..MaxRuns
  BY OutboxAssumption DEF OutboxInv, TypeOK
<1> QED
  BY <1>1 DEF OutboxInv, TypeOK, Accepted

(* An activity other than a repair begins. *)
LEMMA BeginStep ==
  ASSUME OutboxInv, UNCHANGED <<msgs, batch, finalized, events>>, RestTyped',
         NEW h \in Worker, NEW w \in Activity, Start(h, w),
         w.kind \notin { "repair", "retry" }, w.pc \in { "tail", "settle", "release" }
  PROVE  OutboxInv'
<1>1. gate' = h /\ work' = [work EXCEPT ![h] = w]
  BY DEF Start, Continue
<1> QED
  BY <1>1, QuietStorage, PlainStep DEF Effects, Jobs

LEMMA MessageEventStep ==
  ASSUME OutboxInv, NEW h \in Worker, NEW m \in Message, MessageEvent(h, m)
  PROVE  OutboxInv'
<1> DEFINE w == [ Idle EXCEPT !.kind = "event", !.pc = "settle", !.run = run,
                           !.todo = States({m}) ]
<1>1. RestTyped' /\ UNCHANGED <<msgs, batch, finalized, events>>
  BY RestKept DEF MessageEvent, storage, history, bounds
<1>2. w \in Activity
  BY IdleType, RunType, StatesType DEF Activity
<1>3. w.kind \notin { "repair", "retry" } /\ w.pc \in { "tail", "settle", "release" }
  BY DEF Idle
<1>5. Start(h, w)
  BY DEF MessageEvent
<1> QED
  BY <1>1, <1>2, <1>3, <1>5, BeginStep

LEMMA RunReportsStep ==
  ASSUME OutboxInv, NEW h \in Worker, NEW result \in Result \cup { None },
         RunReports(h, result)
  PROVE  OutboxInv'
<1> DEFINE w == [ Idle EXCEPT !.kind = "report", !.run = run, !.result = result,
                  !.pc = IF Accepted(run) = {} THEN "tail" ELSE "settle",
                  !.todo = States(Accepted(run)) ]
<1>1. RestTyped' /\ UNCHANGED <<msgs, batch, finalized, events>>
  BY RestKept DEF RunReports, storage, history, bounds
<1>2. w \in Activity
  BY IdleType, RunType, StatesType DEF Activity
<1>3. w.kind \notin { "repair", "retry" } /\ w.pc \in { "tail", "settle", "release" }
  BY DEF Idle
<1>5. Start(h, w)
  BY DEF RunReports
<1> QED
  BY <1>1, <1>2, <1>3, <1>5, BeginStep

LEMMA InterruptStep ==
  ASSUME OutboxInv, NEW h \in Worker, Interrupt(h)
  PROVE  OutboxInv'
<1> DEFINE w == [ Idle EXCEPT !.kind = "interrupt", !.captured = rows,
                  !.pc = IF rows = {} THEN "tail" ELSE "settle",
                  !.todo = States(rows) ]
<1>1. RestTyped' /\ UNCHANGED <<msgs, batch, finalized, events>>
  BY RestKept DEF Interrupt, storage, history, bounds
<1>2. w \in Activity
  BY IdleType, RunType, StatesType DEF Activity, Interrupting
<1>3. w.kind \notin { "repair", "retry" } /\ w.pc \in { "tail", "settle", "release" }
  BY DEF Idle, Interrupting
<1>5. Start(h, w)
  BY DEF Interrupt
<1> QED
  BY <1>1, <1>2, <1>3, <1>5, BeginStep

LEMMA LoseRunStep ==
  ASSUME OutboxInv, NEW kind \in Losing, LoseRun(kind)
  PROVE  OutboxInv'
<1> DEFINE w == [ Idle EXCEPT !.kind = kind, !.run = run,
                  !.pc = IF Accepted(run) = {} THEN "tail" ELSE "settle",
                  !.todo = States(Accepted(run)) ]
<1>1. RestTyped' /\ UNCHANGED <<msgs, batch, finalized, events>>
  <2>1. lost' \subseteq 1..lastRun
    BY DEF LoseRun, OutboxInv, TypeOK
  <2> QED
    BY <2>1 DEF LoseRun, RestTyped, storage, bounds, OutboxInv, TypeOK
<1>2. w \in Activity
  BY IdleType, RunType, StatesType DEF Activity
<1>3. w.kind \notin { "repair", "retry" } /\ w.pc \in { "tail", "settle", "release" }
  BY DEF Idle, Losing
<1>4. "alarm" \in Worker
  BY DEF Worker
<1>5. Start("alarm", w)
  BY DEF LoseRun
<1> QED
  BY <1>1, <1>2, <1>3, <1>4, <1>5, BeginStep

LEMMA StaleGraceStep ==
  ASSUME OutboxInv, NEW r \in 1..lastRun, StaleGrace(r)
  PROVE  OutboxInv'
<1> DEFINE w == [ Idle EXCEPT !.kind = "stale", !.pc = "release", !.run = r ]
<1>1. RestTyped' /\ UNCHANGED <<msgs, batch, finalized, events>>
  BY RestKept DEF StaleGrace, storage, history, bounds
<1>2. w \in Activity
  BY IdleType, RunType, StatesType DEF Activity
<1>3. w.kind \notin { "repair", "retry" } /\ w.pc \in { "tail", "settle", "release" }
  BY DEF Idle
<1>4. "alarm" \in Worker
  BY DEF Worker
<1>5. Start("alarm", w)
  BY DEF StaleGrace
<1> QED
  BY <1>1, <1>2, <1>3, <1>4, <1>5, BeginStep

LEMMA KeepWarmEndsStep ==
  ASSUME OutboxInv, KeepWarmEnds
  PROVE  OutboxInv'
<1> DEFINE w == [ Idle EXCEPT !.kind = "keepWarm", !.pc = "tail", !.run = run ]
<1>1. RestTyped' /\ UNCHANGED <<msgs, batch, finalized, events>>
  BY RestKept DEF KeepWarmEnds, storage, history, bounds
<1>2. w \in Activity
  BY IdleType, RunType, StatesType DEF Activity
<1>3. w.kind \notin { "repair", "retry" } /\ w.pc \in { "tail", "settle", "release" }
  BY DEF Idle
<1>4. "alarm" \in Worker
  BY DEF Worker
<1>5. Start("alarm", w)
  BY DEF KeepWarmEnds
<1> QED
  BY <1>1, <1>2, <1>3, <1>4, <1>5, BeginStep

LEMMA ServerIdleStep ==
  ASSUME OutboxInv, ServerIdle
  PROVE  OutboxInv'
<1> DEFINE w == [ Idle EXCEPT !.kind = "serverIdle", !.pc = "tail" ]
<1>1. RestTyped' /\ UNCHANGED <<msgs, batch, finalized, events>>
  BY RestKept DEF ServerIdle, storage, history, bounds
<1>2. w \in Activity
  BY IdleType, RunType, StatesType DEF Activity
<1>3. w.kind \notin { "repair", "retry" } /\ w.pc \in { "tail", "settle", "release" }
  BY DEF Idle
<1>4. "alarm" \in Worker
  BY DEF Worker
<1>5. Start("alarm", w)
  BY DEF ServerIdle
<1> QED
  BY <1>1, <1>2, <1>3, <1>4, <1>5, BeginStep

LEMMA DeliveryFailsStep ==
  ASSUME OutboxInv, NEW m \in Message, DeliveryFails(m)
  PROVE  OutboxInv'
<1> DEFINE w == [ Idle EXCEPT !.kind = "delivery", !.pc = "settle",
                           !.todo = States({m}), !.captured = {m} ]
<1>1. RestTyped' /\ UNCHANGED <<msgs, batch, finalized, events>>
  BY RestKept DEF DeliveryFails, storage, history, bounds
<1>2. w \in Activity
  BY IdleType, RunType, StatesType DEF Activity
<1>3. w.kind \notin { "repair", "retry" } /\ w.pc \in { "tail", "settle", "release" }
  BY DEF Idle
<1>4. "alarm" \in Worker
  BY DEF Worker
<1>5. Start("alarm", w)
  BY DEF DeliveryFails
<1> QED
  BY <1>1, <1>2, <1>3, <1>4, <1>5, BeginStep

-----------------------------------------------------------------------------
(* The alarm's repair and its retries list genuine states. *)

LEMMA NormalizedGenuine ==
  ASSUME NEW s, Genuine(s)
  PROVE  Genuine(Normalized(s)) /\ Normalized(s).id = s.id
<1>1. CASE s.event = None /\ NeedsJob(s)
  <2> DEFINE t == [ s EXCEPT !.event = "accounted", !.callback = "pending" ]
  <2>1. t = Normalized(s)
    BY <1>1 DEF Normalized
  <2>2. t \in MessageState
    BY EditType DEF Genuine
  <2>3. /\ t.id = s.id /\ t.status = s.status /\ t.at = s.at
        /\ t.event = "accounted" /\ t.callback = "pending" /\ s.status = "canceled"
    BY <1>1 DEF Genuine, MessageState
  <2>4. Owes(t)
    BY <2>3 DEF Owes, Normalized, None
  <2>5. Genuine(t)
    BY <2>2, <2>3, <2>4 DEF Genuine
  <2> HIDE DEF t
  <2> QED
    BY <2>1, <2>3, <2>5
<1>2. CASE ~(s.event = None /\ NeedsJob(s))
  BY <1>2 DEF Normalized
<1> QED
  BY <1>1, <1>2

LEMMA PendingEffectsGenuine ==
  ASSUME OutboxInv
  PROVE  \A s \in PendingEffects : Genuine(s)
  BY MessageType, NormalizedGenuine DEF PendingEffects

LEMMA PendingCallbacksGenuine ==
  ASSUME OutboxInv
  PROVE  \A s \in PendingCallbacks : Genuine(s) /\ s.id \in finalized
<1>1. ASSUME NEW m \in finalized PROVE m \in Message /\ Ended(m)
  BY <1>1 DEF OutboxInv, TypeOK, RepresentativesEnded, Representatives
<1> QED
  BY <1>1, MessageType DEF PendingCallbacks, States

LEMMA RepairStep ==
  ASSUME OutboxInv, Repair
  PROVE  OutboxInv'
<1> DEFINE w0 == [ Idle EXCEPT !.kind = "repair", !.todo = PendingEffects,
                     !.pc = IF PendingEffects = {} THEN "close" ELSE "settle" ]
<1>1. RestTyped' /\ StorageStep
  BY RestKept, QuietStorage DEF Repair, storage, history, bounds
<1>2. w0 \in Activity
  <2>1. PendingEffects \subseteq MessageState
    BY PendingEffectsGenuine DEF Genuine
  <2> QED
    BY <2>1, IdleType DEF Activity
<1>3. PICK w \in Activity : w = w0
  BY <1>2
<1>4. gate' = "alarm" /\ work' = [work EXCEPT !["alarm"] = w]
  BY <1>3 DEF Repair, Start, Continue
<1>5. w.kind = "repair" /\ w.pc \in { "close", "settle" } /\ w.todo = PendingEffects
  BY <1>3 DEF Idle
<1>6. \A x \in w.todo : Genuine(x)'
  BY <1>1, <1>5, PendingEffectsGenuine, GenuineStays DEF StorageStep
<1>7. Holds(w)'
  BY <1>5, <1>6 DEF Holds, Effects, Jobs
<1>8. "alarm" \in Worker
  BY DEF Worker
<1> QED
  BY <1>1, <1>4, <1>7, <1>8, ActivityStep

LEMMA RetryStep ==
  ASSUME OutboxInv, Retry
  PROVE  OutboxInv'
<1> DEFINE listed == { s \in PendingCallbacks : ~s.retry }
           w0 == [ Idle EXCEPT !.kind = "retry", !.pc = "settle", !.todo = listed ]
<1>1. RestTyped' /\ StorageStep
  BY RestKept, QuietStorage DEF Retry, storage, history, bounds
<1>2. w0 \in Activity
  <2>1. listed \subseteq MessageState
    BY PendingCallbacksGenuine DEF Genuine
  <2> QED
    BY <2>1, IdleType DEF Activity
<1>3. PICK w \in Activity : w = w0
  BY <1>2
<1>4. gate' = "alarm" /\ work' = [work EXCEPT !["alarm"] = w]
  BY <1>3 DEF Retry, Start, Continue
<1>5. w.kind = "retry" /\ w.pc = "settle" /\ w.todo = listed
  BY <1>3 DEF Idle
<1>6. \A x \in w.todo : Genuine(x)' /\ x.id \in finalized'
  BY <1>1, <1>5, PendingCallbacksGenuine, GenuineStays DEF StorageStep, EndsAreFinal
<1>7. Holds(w)'
  BY <1>5, <1>6 DEF Holds, Effects, Jobs
<1>8. "alarm" \in Worker
  BY DEF Worker
<1> QED
  BY <1>1, <1>4, <1>7, <1>8, ActivityStep

-----------------------------------------------------------------------------
(* The steps that settle a message. *)

LEMMA NextType ==
  ASSUME OutboxInv, NEW h \in Worker, NEW s \in Next1(h)
  PROVE  s \in work[h].todo /\ s \in MessageState /\ s.id \in Message
<1>1. work[h].todo \subseteq MessageState
  BY WorkType DEF Activity
<1> QED
  BY <1>1 DEF Next1, MessageState

(* The activity takes the state copy of s. *)
Holding(w, s, copy, pc) == [ Without(w, s) EXCEPT !.copy = copy, !.pc = pc ]

LEMMA WithoutType ==
  ASSUME OutboxInv, NEW h \in Worker, NEW s \in Next1(h), NEW copy \in MessageState,
         NEW pc \in { "settle", "row", "effects", "job" }
  PROVE  \E w \in Activity :
           /\ w = Holding(work[h], s, copy, pc)
           /\ w.kind = work[h].kind /\ w.todo \subseteq work[h].todo
           /\ w.copy = copy /\ w.pc = pc
<1>1. work[h] \in Activity
  BY WorkType
<1>2. PICK w1 : w1 = Without(work[h], s)
  OBVIOUS
<1>3. w1 \in Activity /\ w1.kind = work[h].kind /\ w1.todo \subseteq work[h].todo
  BY <1>1, <1>2 DEF Without, Activity
<1>4. PICK w : w = [ w1 EXCEPT !.copy = copy, !.pc = pc ]
  OBVIOUS
<1>5. w \in Activity
  BY <1>3, <1>4 DEF Activity
<1>6. w.kind = w1.kind /\ w.todo = w1.todo /\ w.copy = copy /\ w.pc = pc
  BY <1>3, <1>4 DEF Activity
<1> QED
  BY <1>2, <1>3, <1>4, <1>5, <1>6 DEF Holding

(* The end of a message. *)
LEMMA SettledType ==
  ASSUME NEW s \in MessageState, NEW outcome \in Terminal, NEW at \in Nat,
         NEW allow \in BOOLEAN, NEW push \in { None, "pending" }
  PROVE  /\ Settled(s, outcome, at, allow, push) \in MessageState
         /\ Settled(s, outcome, at, allow, push).id = s.id
         /\ Settled(s, outcome, at, allow, push).status = outcome
         /\ Settled(s, outcome, at, allow, push).event = "pending"
         /\ s.id \in Required => Settled(s, outcome, at, allow, push).callback = "pending"
<1>1. PICK callback \in { None, "pending" }, allowed \in BOOLEAN :
        /\ callback = (IF s.id \in Required THEN "pending" ELSE None)
        /\ allowed = (allow /\ s.id \in Required)
  OBVIOUS
<1>2. PICK t \in MessageState :
        t = [ s EXCEPT !.status = outcome, !.at = at, !.gate = None, !.event = "pending" ]
  <2>1. [ s EXCEPT !.status = outcome, !.at = at, !.gate = None, !.event = "pending" ]
          \in MessageState
    BY DEF MessageState
  <2> QED
    BY <2>1
<1>3. [ t EXCEPT !.callback = callback, !.allow = allowed, !.push = push ] \in MessageState
  BY DEF MessageState
<1>4. Settled(s, outcome, at, allow, push)
        = [ t EXCEPT !.callback = callback, !.allow = allowed, !.push = push ]
  BY <1>1, <1>2 DEF Settled
<1> QED
  BY <1>1, <1>2, <1>3, <1>4 DEF MessageState

LEMMA SettledResult ==
  ASSUME NEW s \in MessageState, NEW outcome \in Terminal, NEW at \in Nat,
         NEW allow \in BOOLEAN, NEW push \in { None, "pending" }
  PROVE  /\ Settled(s, outcome, at, allow, push).gate = None
         /\ Settled(s, outcome, at, allow, push).callback # "accounted"
<1> DEFINE callback == IF s.id \in Required THEN "pending" ELSE None
           t == [ s EXCEPT !.status = outcome, !.at = at, !.gate = None, !.event = "pending" ]
           u == [ t EXCEPT !.callback = callback ]
<1>1. t \in MessageState /\ t.gate = None
  BY DEF MessageState
<1>2. callback \in { None, "pending" }
  OBVIOUS
<1>3. Settled(s, outcome, at, allow, push)
        = [ u EXCEPT !.allow = allow /\ s.id \in Required, !.push = push ]
  BY DEF Settled
<1>4. u \in MessageState /\ u.gate = None /\ u.callback # "accounted"
  <2> HIDE DEF t, callback
  <2> QED
    BY <1>1, <1>2 DEF MessageState, None
<1> HIDE DEF u
<1> QED
  BY <1>3, <1>4 DEF MessageState

LEMMA SettleStep ==
  ASSUME OutboxInv, NEW h \in Worker, Settle(h)
  PROVE  OutboxInv'
<1> DEFINE kind == work[h].kind
<1>1. PICK s \in Next1(h), outcome \in Outcomes(kind), at \in Ticks,
           push \in { None, "pending" } :
        LET live == IF kind = "event" /\ msgs[s.id].status = "queued"
                    THEN [ msgs[s.id] EXCEPT !.run = work[h].run ] ELSE msgs[s.id]
            new == Settled(live, outcome, at, Allows(kind), push)
        IN  /\ ~Ended(s.id)
            /\ msgs' = [msgs EXCEPT ![s.id] = new]
            /\ clock' = at
            /\ Continue(h, [ Without(work[h], s) EXCEPT !.copy = new,
                  !.pc = IF kind = "delivery" THEN "row" ELSE "effects" ])
  <2>1. \A outcome : Pushes(kind, outcome) \subseteq { None, "pending" }
    BY DEF Pushes
  <2>2. PICK s \in Next1(h) :
          /\ ~Ended(s.id)
          /\ \E outcome \in Outcomes(kind), at \in Ticks :
               \E push \in Pushes(kind, outcome) :
                 LET live == IF kind = "event" /\ msgs[s.id].status = "queued"
                             THEN [ msgs[s.id] EXCEPT !.run = work[h].run ] ELSE msgs[s.id]
                     new == Settled(live, outcome, at, Allows(kind), push)
                 IN  /\ msgs' = [msgs EXCEPT ![s.id] = new]
                     /\ clock' = at
                     /\ Continue(h, [ Without(work[h], s) EXCEPT !.copy = new,
                           !.pc = IF kind = "delivery" THEN "row" ELSE "effects" ])
    BY DEF Settle
  <2> QED
    BY <2>1, <2>2
<1> DEFINE live == IF kind = "event" /\ msgs[s.id].status = "queued"
                   THEN [ msgs[s.id] EXCEPT !.run = work[h].run ] ELSE msgs[s.id]
<1>2. s.id \in Message
  BY NextType
<1>3. live \in MessageState /\ live.id = s.id
  <2>1. work[h].run \in 0..MaxRuns
    BY WorkType DEF Activity
  <2>2. msgs[s.id] \in MessageState /\ msgs[s.id].id = s.id
    BY <1>2, MessageType
  <2>3. [ msgs[s.id] EXCEPT !.run = work[h].run ] \in MessageState
    BY <2>1, <2>2, EditType
  <2>4. [ msgs[s.id] EXCEPT !.run = work[h].run ].id = s.id
    BY <2>2 DEF MessageState
  <2> QED
    BY <2>2, <2>3, <2>4
<1>4. outcome \in Terminal \ { "canceled" } /\ at \in Nat /\ Allows(kind) \in BOOLEAN
  <2>1. Outcomes(kind) \subseteq Terminal \ { "canceled" }
    BY DEF Outcomes, Terminal
  <2>2. Ticks \subseteq Nat
    BY DEF Ticks, OutboxInv, TypeOK
  <2> QED
    BY <2>1, <2>2 DEF Allows
<1>5. PICK new : new = Settled(live, outcome, at, Allows(kind), push)
  OBVIOUS
<1>6. new \in MessageState
  BY <1>3, <1>4, <1>5, SettledType
<1>7. /\ new.id = s.id /\ new.status = outcome /\ new.event = "pending"
      /\ new.id \in Required => new.callback = "pending"
  <2>1. outcome \in Terminal
    BY <1>4
  <2> HIDE DEF live
  <2> QED
    BY <1>3, <1>4, <1>5, <2>1, SettledType
<1>8. ~Ended(s.id) /\ msgs' = [msgs EXCEPT ![new.id] = new] /\ clock' = at
  BY <1>1, <1>5, <1>7
<1>9. StorageStep
  <2>1. new.id \in Required => Owes(new)
    BY <1>7 DEF Owes, Normalized, None
  <2>2. UNCHANGED <<batch, finalized, events>>
    BY DEF Settle
  <2> QED
    BY <1>4, <1>6, <1>7, <1>8, <2>1, <2>2, MessageStorage DEF None
<1>10. RestTyped'
  BY <1>4, <1>8 DEF Settle, RestTyped, history, OutboxInv, TypeOK
<1>11. Genuine(new)'
  <2>1. msgs'[s.id] = new
    BY <1>2, <1>7, <1>8 DEF OutboxInv, TypeOK
  <2>2. Ended(s.id)'
    BY <1>4, <1>7, <2>1 DEF Ended
  <2> QED
    BY <1>2, <1>9, <2>1, <2>2 DEF StorageStep, MessagesAreGenuine, Genuine
<1>12. PICK w \in Activity :
         /\ w = Holding(work[h], s, new, IF kind = "delivery" THEN "row" ELSE "effects")
         /\ w.kind = kind /\ w.todo \subseteq work[h].todo
         /\ w.copy = new /\ w.pc = IF kind = "delivery" THEN "row" ELSE "effects"
  <2>1. PICK pc \in { "settle", "row", "effects", "job" } :
          pc = IF kind = "delivery" THEN "row" ELSE "effects"
    OBVIOUS
  <2> QED
    BY <1>6, <2>1, WithoutType
<1>13. gate' = h /\ work' = [work EXCEPT ![h] = w]
  BY <1>1, <1>5, <1>12 DEF Continue, Holding
<1>14. kind \notin { "repair", "retry" }
  BY DEF Settle
<1>15. Holds(w)'
  BY <1>11, <1>12, <1>14 DEF Holds, Effects, Jobs
<1> QED
  BY <1>9, <1>10, <1>13, <1>15, ActivityStep

LEMMA AlreadySettledStep ==
  ASSUME OutboxInv, NEW h \in Worker, AlreadySettled(h)
  PROVE  OutboxInv'
<1>1. RestTyped' /\ StorageStep
  BY RestKept, QuietStorage DEF AlreadySettled, storage, history, bounds
<1>2. CASE Await(h, Idle)
  BY <1>1, <1>2, IdleType, PlainStep DEF Await, Idle, Effects, Jobs
<1>3. CASE \E s \in Next1(h) :
             /\ Ended(s.id)
             /\ Continue(h, [ Without(work[h], s) EXCEPT !.pc = "effects", !.copy = msgs[s.id] ])
  <2>1. PICK s \in Next1(h) :
          /\ Ended(s.id)
          /\ Continue(h, [ Without(work[h], s) EXCEPT !.pc = "effects", !.copy = msgs[s.id] ])
    BY <1>3
  <2>2. msgs[s.id] \in MessageState /\ Genuine(msgs[s.id])
    BY <2>1, NextType, MessageType
  <2>3. PICK copy \in MessageState : copy = msgs[s.id]
    BY <2>2
  <2>4. [ Without(work[h], s) EXCEPT !.pc = "effects", !.copy = copy ]
          = [ Without(work[h], s) EXCEPT !.copy = copy, !.pc = "effects" ]
    OBVIOUS
  <2>5. PICK w \in Activity :
          /\ w = Holding(work[h], s, copy, "effects")
          /\ w.kind = work[h].kind /\ w.todo \subseteq work[h].todo
          /\ w.copy = copy /\ w.pc = "effects"
    <3>1. PICK pc \in { "settle", "row", "effects", "job" } : pc = "effects"
      OBVIOUS
    <3> QED
      BY <3>1, WithoutType
  <2>6. gate' = h /\ work' = [work EXCEPT ![h] = w]
    BY <2>1, <2>3, <2>4, <2>5 DEF Continue, Holding
  <2>7. Genuine(copy)'
    BY <1>1, <2>2, <2>3, GenuineStays DEF StorageStep
  <2> QED
    BY <1>1, <2>5, <2>6, <2>7, EffectStep DEF Effects, Jobs
<1> QED
  BY <1>2, <1>3 DEF AlreadySettled

LEMMA TakeCopyStep ==
  ASSUME OutboxInv, NEW h \in Worker, TakeCopy(h)
  PROVE  OutboxInv'
<1>1. PICK pc \in { "settle", "row", "effects", "job" } :
        /\ pc = IF work[h].kind = "repair" THEN "effects" ELSE "job"
        /\ pc \in { "effects", "job" }
  OBVIOUS
<1>2. RestTyped' /\ StorageStep
  BY RestKept, QuietStorage DEF TakeCopy, storage, history, bounds
<1>3. PICK s \in Next1(h) :
        Continue(h, [ Without(work[h], s) EXCEPT !.copy = s, !.pc = pc ])
  BY <1>1 DEF TakeCopy
<1>4. s \in MessageState /\ s \in work[h].todo
  BY NextType
<1>5. Genuine(s) /\ (pc = "job" => s.id \in finalized)
  BY <1>4, <1>1, WorkType DEF Holds, TakeCopy
<1>6. PICK w \in Activity :
        /\ w = Holding(work[h], s, s, pc)
        /\ w.kind = work[h].kind /\ w.todo \subseteq work[h].todo
        /\ w.copy = s /\ w.pc = pc
  <2>1. PICK copy \in MessageState : copy = s
    BY <1>4
  <2>2. PICK w \in Activity :
          /\ w = Holding(work[h], s, copy, pc)
          /\ w.kind = work[h].kind /\ w.todo \subseteq work[h].todo
          /\ w.copy = copy /\ w.pc = pc
    BY WithoutType
  <2> QED
    BY <2>1, <2>2
<1>7. gate' = h /\ work' = [work EXCEPT ![h] = w]
  BY <1>3, <1>6 DEF Continue, Holding
<1>8. Genuine(s)'
  BY <1>2, <1>5, GenuineStays DEF StorageStep
<1>9. pc = "job" => s.id \in finalized'
  BY <1>2, <1>5 DEF StorageStep, EndsAreFinal
<1> QED
  BY <1>2, <1>6, <1>7, <1>8, <1>9, <1>1, EffectStep DEF Effects, Jobs

LEMMA RemoveRowsStep ==
  ASSUME OutboxInv, NEW h \in Worker, RemoveRows(h)
  PROVE  OutboxInv'
<1>1. StorageStep
  BY QuietStorage DEF RemoveRows
<1>2. RestTyped'
  BY DEF RemoveRows, RestTyped, history, bounds, OutboxInv, TypeOK
<1>3. work[h].pc = "row" /\ work[h].kind \in { "cancel", "delivery", "interruptRun" }
  BY WorkType DEF RemoveRows, In, Holds
<1>4. CASE work[h].kind = "cancel"
  BY <1>1, <1>2, <1>4, IdleType, PlainStep DEF RemoveRows, Await, Idle, Effects, Jobs
<1>5. CASE work[h].kind = "delivery"
  <2>1. PICK w \in Activity : w = [ work[h] EXCEPT !.pc = "effects" ]
    BY WorkType, PcType
  <2>2. /\ w.kind = work[h].kind /\ w.todo = work[h].todo
        /\ w.copy = work[h].copy /\ w.pc = "effects"
    BY <2>1, WorkType DEF Activity
  <2>3. gate' = h /\ work' = [work EXCEPT ![h] = w]
    BY <1>5, <2>1 DEF RemoveRows, Continue
  <2>4. Genuine(w.copy)
    BY <1>3, <1>5, <2>2, WorkType DEF Holds
  <2>5. Genuine(w.copy)'
    BY <1>1, <2>4, GenuineStays DEF StorageStep
  <2> QED
    BY <1>1, <1>2, <2>2, <2>3, <2>5, EffectStep DEF Effects, Jobs
<1>6. CASE work[h].kind = "interruptRun"
  <2>1. PICK w \in Activity : w = [ work[h] EXCEPT !.pc = "close" ]
    BY WorkType, PcType
  <2>2. w.kind = work[h].kind /\ w.todo = work[h].todo /\ w.pc = "close"
    BY <2>1, WorkType DEF Activity
  <2>3. gate' = h /\ work' = [work EXCEPT ![h] = w]
    BY <1>6, <2>1 DEF RemoveRows, Continue
  <2> QED
    BY <1>1, <1>2, <2>2, <2>3, PlainStep DEF Effects, Jobs
<1> QED
  BY <1>3, <1>4, <1>5, <1>6

-----------------------------------------------------------------------------
(* The steps of the terminal effects. *)

Pc == { "idle", "settle", "row", "effects", "emitted", "recorded", "push", "tail",
        "result", "observe", "release", "command", "close", "job", "send", "sent" }

LEMMA PcWork ==
  ASSUME OutboxInv, NEW h \in Worker, NEW pc \in Pc
  PROVE  \E w \in Activity :
           /\ w = [ work[h] EXCEPT !.pc = pc ]
           /\ w.kind = work[h].kind /\ w.todo = work[h].todo
           /\ w.copy = work[h].copy /\ w.pc = pc
<1>1. work[h] \in Activity
  BY WorkType
<1>2. [ work[h] EXCEPT !.pc = pc ] \in Activity
  BY <1>1, PcType DEF Pc
<1> QED
  BY <1>1, <1>2 DEF Activity

(* The activity goes on at pc with this state. *)
With(w, pc, s) == [ w EXCEPT !.pc = pc, !.copy = s ]

LEMMA CopyWork ==
  ASSUME OutboxInv, NEW h \in Worker, NEW pc \in Pc, NEW s \in MessageState
  PROVE  \E w \in Activity :
           /\ w = With(work[h], pc, s)
           /\ w.kind = work[h].kind /\ w.todo = work[h].todo
           /\ w.copy = s /\ w.pc = pc
<1>1. work[h] \in Activity
  BY WorkType
<1>2. [ work[h] EXCEPT !.pc = pc, !.copy = s ] \in Activity
  BY <1>1, PcType DEF Pc
<1> QED
  BY <1>1, <1>2 DEF Activity, With

LEMMA HeldCopy ==
  ASSUME OutboxInv, NEW h \in Worker, work[h].pc \in Effects \cup Jobs
  PROVE  /\ Genuine(Copy(h)) /\ Copy(h) \in MessageState
         /\ Copy(h).id \in Message /\ Ended(Copy(h).id)
<1>1. Genuine(Copy(h))
  BY WorkType DEF Holds, Copy
<1> QED
  BY <1>1 DEF Genuine, MessageState, Ended

LEMMA SaveStorage ==
  ASSUME OutboxInv, NEW s, Genuine(s), Save(s), UNCHANGED <<batch, finalized, events>>
  PROVE  StorageStep /\ Genuine(s)'
<1>1. s \in MessageState /\ s.id \in Message /\ Ended(s.id)
  BY DEF Genuine, MessageState, Ended
<1>2. s.status = msgs[s.id].status /\ s.at = msgs[s.id].at /\ s.status \in Terminal
  BY DEF Genuine
<1>3. s.status # "canceled" => s.event # None /\ (s.event = "accounted" => s.id \in events)
  BY DEF Genuine
<1>4. s.id \in Required => Owes(s) \/ Covered(s.id)
  BY DEF Genuine
<1>5. StorageStep
  BY <1>1, <1>2, <1>3, <1>4, MessageStorage DEF Save
<1> QED
  BY <1>5, GenuineStays DEF StorageStep

LEMMA EmitEventStep ==
  ASSUME OutboxInv, NEW h \in Worker, EmitEvent(h)
  PROVE  OutboxInv'
<1>1. /\ Genuine(Copy(h)) /\ Copy(h).id \in Message
  BY HeldCopy DEF EmitEvent, In, Effects
<1>2. events' = events \cup { Copy(h).id }
  BY DEF EmitEvent, InsertEvent
<1>3. StorageStep
  BY <1>1, <1>2, EventStorage DEF EmitEvent
<1>4. RestTyped'
  BY RestKept DEF EmitEvent, history, bounds
<1>5. PICK w \in Activity :
        /\ w = [ work[h] EXCEPT !.pc = "emitted" ]
        /\ w.kind = work[h].kind /\ w.todo = work[h].todo
        /\ w.copy = work[h].copy /\ w.pc = "emitted"
  BY PcWork DEF Pc
<1>6. gate' = h /\ work' = [work EXCEPT ![h] = w]
  BY <1>5 DEF EmitEvent, Continue
<1>7. Genuine(w.copy)' /\ w.copy.id \in events'
  BY <1>1, <1>2, <1>3, <1>5, GenuineStays DEF StorageStep, Copy
<1> QED
  BY <1>3, <1>4, <1>5, <1>6, <1>7, EffectStep DEF Effects, Jobs

(* A state that is written back keeps the activity going. *)
LEMMA WriteBackStep ==
  ASSUME OutboxInv, NEW h \in Worker, NEW s, Genuine(s), Save(s),
         UNCHANGED <<batch, finalized, events>>, RestTyped',
         Continue(h, With(work[h], "effects", s))
  PROVE  OutboxInv'
<1>1. StorageStep /\ Genuine(s)'
  BY SaveStorage
<1>2. PICK copy \in MessageState : copy = s
  BY DEF Genuine
<1>3. PICK pc \in Pc : pc = "effects"
  BY DEF Pc
<1>4. PICK w \in Activity :
        /\ w = With(work[h], pc, copy)
        /\ w.kind = work[h].kind /\ w.todo = work[h].todo
        /\ w.copy = copy /\ w.pc = pc
  BY CopyWork
<1>5. gate' = h /\ work' = [work EXCEPT ![h] = w]
  BY <1>2, <1>3, <1>4 DEF Continue
<1> QED
  BY <1>1, <1>2, <1>3, <1>4, <1>5, EffectStep DEF Effects, Jobs

LEMMA MarkEmittedStep ==
  ASSUME OutboxInv, NEW h \in Worker, MarkEmitted(h)
  PROVE  OutboxInv'
<1> DEFINE c == Copy(h)
<1>1. work[h].pc = "emitted" /\ Genuine(c) /\ c \in MessageState
  BY HeldCopy DEF MarkEmitted, In, Effects
<1>2. c.id \in events
  BY <1>1, WorkType DEF Holds, Copy
<1>3. PICK callback \in { None, "pending", "accounted" } :
        callback = IF c.event = None /\ c.id \in Required THEN "pending" ELSE c.callback
  BY <1>1 DEF MessageState
<1>4. PICK s \in MessageState : s = [ c EXCEPT !.event = "accounted", !.callback = callback ]
  BY <1>1, EditType
<1>5. Save(s) /\ Continue(h, With(work[h], "effects", s))
  BY <1>3, <1>4 DEF MarkEmitted, With
<1>6. /\ s.id = c.id /\ s.status = c.status /\ s.at = c.at
      /\ s.event = "accounted" /\ s.callback = callback
  BY <1>1, <1>4 DEF MessageState
<1>7. c.id \in Required => Owes(s) \/ Covered(s.id)
  <2>1. CASE c.event = None
    BY <1>3, <1>6, <2>1 DEF Owes, Normalized, None
  <2>2. CASE c.event # None
    <3>1. c.id \in Required => c.callback = "pending" \/ Covered(c.id)
      BY <1>1, <2>2 DEF Genuine, Owes, Normalized
    <3> QED
      BY <1>3, <1>6, <2>2, <3>1 DEF Owes, Normalized, None
  <2> QED
    BY <2>1, <2>2
<1>8. Genuine(s)
  BY <1>1, <1>2, <1>6, <1>7 DEF Genuine, None
<1>9. RestTyped' /\ UNCHANGED <<batch, finalized, events>>
  BY RestKept DEF MarkEmitted, history, bounds
<1> QED
  BY <1>5, <1>8, <1>9, WriteBackStep

LEMMA MarkRecordedStep ==
  ASSUME OutboxInv, NEW h \in Worker, MarkRecorded(h)
  PROVE  OutboxInv'
<1> DEFINE c == Copy(h)
<1>1. work[h].pc = "recorded" /\ Genuine(c) /\ c \in MessageState
  BY HeldCopy DEF MarkRecorded, In, Effects
<1>2. Covered(c.id)
  BY <1>1, WorkType DEF Holds, Copy
<1>3. PICK s \in MessageState : s = [ c EXCEPT !.callback = "accounted" ]
  BY <1>1, EditType
<1>4. Save(s) /\ Continue(h, With(work[h], "effects", s))
  BY <1>3 DEF MarkRecorded, With
<1>5. /\ s.id = c.id /\ s.status = c.status /\ s.at = c.at /\ s.event = c.event
  BY <1>1, <1>3 DEF MessageState
<1>6. Genuine(s)
  BY <1>1, <1>2, <1>5 DEF Genuine
<1>7. RestTyped' /\ UNCHANGED <<batch, finalized, events>>
  BY RestKept DEF MarkRecorded, history, bounds
<1> QED
  BY <1>4, <1>6, <1>7, WriteBackStep

LEMMA RecordCandidateStep ==
  ASSUME OutboxInv, NEW h \in Worker, RecordCandidate(h)
  PROVE  OutboxInv'
<1> DEFINE c == Copy(h)
<1>1. Genuine(c) /\ c \in MessageState /\ c.id \in Message /\ Ended(c.id)
  BY HeldCopy DEF RecordCandidate, In, Effects
<1>2. c.at = msgs[c.id].at /\ (msgs[c.id].status # "canceled" => c.id \in events)
  BY <1>1 DEF Genuine, RecordCandidate
<1>3. /\ batch' \in Batch /\ batch'.open
      /\ batch'.rep = IF batch.open /\ ~(c.at >= msgs[batch.rep].at) THEN batch.rep ELSE c.id
  <2>1. c.allow \in BOOLEAN
    BY <1>1 DEF MessageState
  <2>2. CASE batch.open
    <3>1. PICK b : b = batch
      OBVIOUS
    <3>2. b \in [ open : {TRUE}, rep : Message, allow : BOOLEAN,
                  observed : BOOLEAN, released : BOOLEAN ]
      BY <2>2, <3>1, OpenBatchType DEF OutboxInv, TypeOK
    <3>3. PICK rep \in Message, allow \in BOOLEAN :
            /\ rep = IF c.at >= msgs[b.rep].at THEN c.id ELSE b.rep
            /\ allow = (b.allow \/ c.allow)
      BY <1>1, <2>1, <3>2
    <3>4. batch' = [ b EXCEPT !.rep = rep, !.allow = allow ]
      BY <2>2, <3>1, <3>3 DEF RecordCandidate, WithCandidate
    <3> QED
      BY <2>2, <3>1, <3>2, <3>3, <3>4 DEF Batch
  <2>3. CASE ~batch.open
    BY <1>1, <2>1, <2>3 DEF RecordCandidate, WithCandidate, NewBatch, Batch
  <2> QED
    BY <2>2, <2>3
<1>4. \A m \in Message : msgs[m].at \in Nat
  BY DEF OutboxInv, TypeOK, MessageState
<1>5. Representatives \subseteq Message
  BY RepresentativesType, TypeParts DEF OutboxInv
<1>6. /\ Representatives' = finalized \cup { batch'.rep }
      /\ finalized' = finalized
  BY <1>3 DEF Representatives, RecordCandidate
<1>7. ASSUME NEW n \in Representatives
      PROVE  \E k \in Representatives' : msgs[k].at >= msgs[n].at
  <2>1. CASE n \in finalized
    BY <1>4, <1>5, <1>6, <2>1
  <2>2. CASE batch.open /\ n = batch.rep
    BY <1>1, <1>2, <1>3, <1>4, <1>5, <1>6, <2>2
  <2> QED
    BY <2>1, <2>2 DEF Representatives
<1>8. \A k \in Representatives' :
        k \in Representatives \/ (Ended(k) /\ (msgs[k].status # "canceled" => k \in events))
  BY <1>1, <1>2, <1>3, <1>6 DEF Representatives
<1>9. StorageStep
  <2>1. finalized' \subseteq Message /\ finalized \subseteq finalized'
    BY <1>5, <1>6 DEF Representatives
  <2>2. UNCHANGED <<msgs, events>>
    BY DEF RecordCandidate
  <2> QED
    BY <1>3, <1>7, <1>8, <2>1, <2>2, BatchStorage
<1>10. RestTyped'
  BY RestKept DEF RecordCandidate, history, bounds
<1>11. PICK w \in Activity :
         /\ w = [ work[h] EXCEPT !.pc = "recorded" ]
         /\ w.kind = work[h].kind /\ w.todo = work[h].todo
         /\ w.copy = work[h].copy /\ w.pc = "recorded"
  BY PcWork DEF Pc
<1>12. gate' = h /\ work' = [work EXCEPT ![h] = w]
  BY <1>11 DEF RecordCandidate, Continue
<1>13. Genuine(w.copy)'
  BY <1>1, <1>9, <1>11, GenuineStays DEF StorageStep, Copy
<1>14. Covered(w.copy.id)'
  <2>1. msgs'[batch'.rep].at >= msgs'[c.id].at
    <3>1. UNCHANGED msgs
      BY DEF RecordCandidate
    <3>2. batch.open => batch.rep \in Message
      BY OpenBatchType DEF OutboxInv, TypeOK
    <3> QED
      BY <1>1, <1>2, <1>3, <1>4, <3>1, <3>2
  <2>2. w.copy.id = c.id
    BY <1>11 DEF Copy
  <2> QED
    BY <1>6, <2>1, <2>2 DEF Covered
<1> QED
  BY <1>9, <1>10, <1>11, <1>12, <1>13, <1>14, EffectStep DEF Effects, Jobs

(* An activity that goes on without writing a state. *)
LEMMA GoesOn ==
  ASSUME OutboxInv, StorageStep, RestTyped', NEW h \in Worker,
         NEW pc \in { "settle", "tail", "result", "observe", "release", "command", "close" },
         pc = "command" => work[h].kind = "interruptRun",
         gate' \in { h, "open" }, work' = [work EXCEPT ![h] = [ work[h] EXCEPT !.pc = pc ]]
  PROVE  OutboxInv'
<1>1. PICK w \in Activity : w = [ work[h] EXCEPT !.pc = pc ]
  BY WorkType, PcType
<1>2. w.kind = work[h].kind /\ w.todo = work[h].todo /\ w.pc = pc
  BY <1>1, WorkType DEF Activity
<1> QED
  BY <1>1, <1>2, PlainStep DEF Effects, Jobs

(* An activity that waits with the state it holds. *)
LEMMA WaitsWith ==
  ASSUME OutboxInv, UNCHANGED <<storage, history, bounds>>, NEW h \in Worker,
         NEW pc \in { "push", "send", "sent" },
         work[h].pc \in Effects \cup Jobs, pc \in Jobs => work[h].pc \in Jobs,
         gate' \in { h, "open" }, work' = [work EXCEPT ![h] = [ work[h] EXCEPT !.pc = pc ]]
  PROVE  OutboxInv'
<1>1. RestTyped' /\ StorageStep
  BY RestKept, QuietStorage DEF storage, history, bounds
<1>2. PICK w \in Activity : w = [ work[h] EXCEPT !.pc = pc ]
  BY WorkType, PcType
<1>3. w.kind = work[h].kind /\ w.todo = work[h].todo /\ w.pc = pc /\ w.copy = work[h].copy
  BY <1>2, WorkType DEF Activity
<1>4. Genuine(w.copy)'
  BY <1>1, <1>3, HeldCopy, GenuineStays DEF StorageStep, Copy
<1>5. pc \in Jobs => w.copy.id \in finalized'
  BY <1>1, <1>3, WorkType DEF Holds, StorageStep, EndsAreFinal
<1> QED
  BY <1>1, <1>2, <1>3, <1>4, <1>5, EffectStep DEF Effects, Jobs

LEMMA SavePushedStep ==
  ASSUME OutboxInv, NEW h \in Worker, work[h].pc \in Effects, SavePushed(h),
         UNCHANGED <<rows, batch, finalized, run, warm, lastRun, active, events, history, bounds>>
  PROVE  OutboxInv'
<1> DEFINE c == Copy(h)
<1>1. Genuine(c) /\ c \in MessageState
  BY HeldCopy
<1>2. PICK s \in MessageState : s = [ c EXCEPT !.push = "settled" ]
  BY <1>1, EditType
<1>3. /\ s.id = c.id /\ s.status = c.status /\ s.at = c.at
      /\ s.event = c.event /\ s.callback = c.callback /\ s.enqueued = c.enqueued
  BY <1>1, <1>2 DEF MessageState
<1>4. Owes(s) <=> Owes(c)
  BY <1>1, <1>3, SameEffects
<1>5. Genuine(s)
  BY <1>1, <1>3, <1>4 DEF Genuine
<1>6. Save(s) /\ Proceed(h, work[h])
  BY <1>2 DEF SavePushed
<1>7. RestTyped' /\ StorageStep
  BY <1>5, <1>6, RestKept, SaveStorage DEF history, bounds
<1> QED
  BY <1>6, <1>7, ProceedStep

LEMMA SuppressPushStep ==
  ASSUME OutboxInv, NEW h \in Worker, SuppressPush(h)
  PROVE  OutboxInv'
  BY SavePushedStep DEF SuppressPush, OwesPush, In, Effects

LEMMA SendPushStep ==
  ASSUME OutboxInv, NEW h \in Worker, SendPush(h)
  PROVE  OutboxInv'
  BY WaitsWith DEF SendPush, OwesPush, In, Await, Effects, Jobs

LEMMA PushAccountedStep ==
  ASSUME OutboxInv, NEW h \in Worker, PushAccounted(h)
  PROVE  OutboxInv'
  BY SavePushedStep DEF PushAccounted, Effects

LEMMA PushFailsStep ==
  ASSUME OutboxInv, NEW h \in Worker, PushFails(h)
  PROVE  OutboxInv'
<1>1. RestTyped' /\ StorageStep
  BY RestKept, QuietStorage DEF PushFails, storage, history, bounds
<1> QED
  BY <1>1, ProceedStep DEF PushFails

LEMMA NothingOwedStep ==
  ASSUME OutboxInv, NEW h \in Worker, NothingOwed(h)
  PROVE  OutboxInv'
<1>1. RestTyped' /\ StorageStep
  BY RestKept, QuietStorage DEF NothingOwed, storage, history, bounds
<1> QED
  BY <1>1, ProceedStep DEF NothingOwed

-----------------------------------------------------------------------------
(* The steps once the messages of an activity are settled. *)

LEMMA RunKept ==
  ASSUME OutboxInv, UNCHANGED <<rows, lastRun, history, bounds>>,
         run' \in { 0, run }, warm' \in BOOLEAN, active' \in BOOLEAN
  PROVE  RestTyped'
  BY OutboxAssumption DEF OutboxInv, TypeOK, RestTyped, history, bounds

LEMMA ClearRunType ==
  ASSUME OutboxInv, NEW h \in Worker, ClearRun(h) \/ UNCHANGED <<run, warm>>
  PROVE  run' \in { 0, run } /\ warm' \in BOOLEAN
  BY DEF ClearRun, OutboxInv, TypeOK

LEMMA EndsStep ==
  ASSUME OutboxInv, StorageStep, NEW h \in Worker, Ends(h),
         UNCHANGED <<rows, lastRun, active, history, bounds>>
  PROVE  OutboxInv'
<1>1. RestTyped'
  <2>1. run' \in { 0, run } /\ warm' \in BOOLEAN
    BY ClearRunType DEF Ends
  <2> QED
    BY <2>1, RunKept DEF OutboxInv, TypeOK
<1>2. work' = [work EXCEPT ![h] = Idle] /\ gate' = "open"
  BY DEF Ends, Await
<1> QED
  BY <1>1, <1>2, IdleType, PlainStep DEF Idle, Effects, Jobs

LEMMA ReportTailStep ==
  ASSUME OutboxInv, NEW h \in Worker, ReportTail(h)
  PROVE  OutboxInv'
<1>1. run' \in { 0, run } /\ warm' \in BOOLEAN /\ active' \in BOOLEAN
  BY DEF ReportTail, OutboxInv, TypeOK
<1>2. RestTyped' /\ StorageStep
  BY <1>1, RunKept, QuietStorage DEF ReportTail
<1> QED
  BY <1>2, GoesOn DEF ReportTail, Continue

LEMMA RecordResultStep ==
  ASSUME OutboxInv, NEW h \in Worker, RecordResult(h)
  PROVE  OutboxInv'
<1>1. RestTyped' /\ StorageStep
  <2>1. CASE TakesResult(h)
    <3>1. PICK n \in Message : n = batch.rep
      BY <2>1, OpenBatchType DEF TakesResult, OutboxInv, TypeOK
    <3>2. PICK result \in Result \cup { None } : result = work[h].result
      BY WorkType DEF Activity
    <3>3. msgs[n] \in MessageState /\ msgs[n].id = n /\ (Ended(n) => Genuine(msgs[n]))
      BY MessageType
    <3>4. PICK s \in MessageState : s = [ msgs[n] EXCEPT !.gate = result ]
      BY <3>3, EditType
    <3>5. /\ s.id = n /\ s.status = msgs[n].status /\ s.at = msgs[n].at
          /\ s.event = msgs[n].event /\ s.callback = msgs[n].callback
          /\ s.enqueued = msgs[n].enqueued
      BY <3>3, <3>4 DEF MessageState
    <3>6. Owes(s) <=> Owes(msgs[n])
      BY <3>3, <3>5, SameEffects
    <3>7. Ended(n) /\ Genuine(msgs[n])
      BY <2>1, <3>1, <3>3 DEF OutboxInv, RepresentativesEnded, Representatives, TakesResult
    <3>8. Genuine(s)
      BY <3>5, <3>6, <3>7, <3>3 DEF Genuine
    <3>9. Save(s)
      BY <2>1, <3>1, <3>2, <3>4, <3>5 DEF RecordResult, Save
    <3>10. StorageStep
      BY <3>8, <3>9, SaveStorage DEF RecordResult
    <3>11. reported' \in [Message -> Result \cup { None }]
      <4>1. PICK value \in Result \cup { None } :
              value = IF reported[n] = None THEN result ELSE reported[n]
        BY DEF OutboxInv, TypeOK
      <4>2. reported' = [reported EXCEPT ![n] = value]
        BY <2>1, <3>1, <3>2, <4>1 DEF RecordResult
      <4> QED
        BY <4>1, <4>2 DEF OutboxInv, TypeOK
    <3> QED
      BY <3>10, <3>11 DEF RecordResult, RestTyped, bounds, OutboxInv, TypeOK
  <2>2. CASE ~TakesResult(h)
    BY <2>2, RestKept, QuietStorage DEF RecordResult, bounds
  <2> QED
    BY <2>1, <2>2
<1> QED
  BY <1>1, GoesOn DEF RecordResult, Continue

(* The marks on a batch. *)
LEMMA MarkedBatchStorage ==
  ASSUME OutboxInv, UNCHANGED <<msgs, finalized, events>>,
         \/ UNCHANGED batch
         \/ batch.open /\ batch' = [ batch EXCEPT !.observed = TRUE ]
         \/ batch.open /\ batch' = [ batch EXCEPT !.released = TRUE ]
  PROVE  StorageStep
<1>1. CASE UNCHANGED batch
  BY <1>1, QuietStorage
<1>2. CASE /\ batch.open
           /\ \/ batch' = [ batch EXCEPT !.observed = TRUE ]
              \/ batch' = [ batch EXCEPT !.released = TRUE ]
  <2>1. batch \in [ open : {TRUE}, rep : Message, allow : BOOLEAN,
                    observed : BOOLEAN, released : BOOLEAN ]
    BY <1>2, OpenBatchType DEF OutboxInv, TypeOK
  <2>2. batch' \in [ open : {TRUE}, rep : Message, allow : BOOLEAN,
                     observed : BOOLEAN, released : BOOLEAN ]
    BY <1>2, <2>1
  <2>3. batch'.open /\ batch'.rep = batch.rep
    BY <1>2, <2>1, <2>2
  <2>4. Representatives' = Representatives
    BY <1>2, <2>3 DEF Representatives
  <2>5. \A n \in Representatives : msgs[n].at >= msgs[n].at
    BY RepresentativesType, TypeParts DEF OutboxInv, CoreTyped, MessageState
  <2>6. batch' \in Batch /\ finalized' \subseteq Message /\ finalized \subseteq finalized'
    BY <2>2 DEF Batch, OutboxInv, TypeOK
  <2> QED
    BY <2>4, <2>5, <2>6, BatchStorage
<1> QED
  BY <1>1, <1>2

LEMMA ObserveStep ==
  ASSUME OutboxInv, NEW h \in Worker, Observe(h)
  PROVE  OutboxInv'
<1>1. RestTyped' /\ StorageStep
  BY RestKept, MarkedBatchStorage DEF Observe, history, bounds
<1> QED
  BY <1>1, GoesOn DEF Observe, Continue

LEMMA ForgetStep ==
  ASSUME OutboxInv, NEW h \in Worker, Forget(h)
  PROVE  OutboxInv'
<1>1. run' \in { 0, run } /\ warm' \in BOOLEAN
  BY ClearRunType DEF Forget
<1>2. active' \in BOOLEAN
  BY DEF Forget, OutboxInv, TypeOK
<1>3. RestTyped' /\ StorageStep
  BY <1>1, <1>2, RunKept, QuietStorage DEF Forget
<1> QED
  BY <1>3, GoesOn DEF Forget, Continue

LEMMA ReleaseStep ==
  ASSUME OutboxInv, NEW h \in Worker, Release(h)
  PROVE  OutboxInv'
<1>1. RestTyped' /\ StorageStep
  BY RestKept, MarkedBatchStorage DEF Release, history, bounds
<1>2. CASE Await(h, Idle)
  BY <1>1, <1>2, IdleType, PlainStep DEF Await, Idle, Effects, Jobs
<1>3. CASE Continue(h, [ work[h] EXCEPT !.pc = "close" ])
  BY <1>1, <1>3, GoesOn DEF Continue
<1> QED
  BY <1>2, <1>3 DEF Release

LEMMA InterruptRunStep ==
  ASSUME OutboxInv, NEW h \in Worker, InterruptRun(h)
  PROVE  OutboxInv'
<1>1. RestTyped' /\ StorageStep
  BY RestKept, QuietStorage DEF InterruptRun, storage, history, bounds
<1>2. Accepted(run) \in SUBSET Message
  BY DEF Accepted
<1>3. PICK todo \in SUBSET MessageState : todo = States(Accepted(run))
  BY <1>2, StatesType
<1>4. PICK pc \in Pc \ Jobs : pc \in { "tail", "settle" } /\ pc = IF Accepted(run) = {} THEN "tail" ELSE "settle"
  BY DEF Pc, Jobs
<1>5. PICK r \in 0..MaxRuns : r = run
  BY RunType
<1>6. PICK w : w = [ work[h] EXCEPT !.kind = "interruptRun", !.run = r, !.todo = todo, !.pc = pc ]
  OBVIOUS
<1>7. w \in Activity /\ w.kind = "interruptRun" /\ w.pc = pc
  BY <1>6, WorkType DEF Activity, Pc, Interrupting
<1>8. gate' = h /\ work' = [work EXCEPT ![h] = w]
  BY <1>3, <1>4, <1>5, <1>6 DEF InterruptRun, Continue
<1> QED
  BY <1>1, <1>4, <1>7, <1>8, PlainStep DEF Effects, Jobs

LEMMA InterruptCommandStep ==
  ASSUME OutboxInv, NEW h \in Worker, InterruptCommand(h)
  PROVE  OutboxInv'
<1>1. RestTyped' /\ StorageStep
  BY RestKept, QuietStorage DEF InterruptCommand, storage, history, bounds
<1> QED
  BY <1>1, GoesOn DEF InterruptCommand, Await, Tail

(* The rows of the captured messages go next. *)
LEMMA InterruptTailStep ==
  ASSUME OutboxInv, NEW h \in Worker, InterruptTail(h)
  PROVE  OutboxInv'
<1>1. run' \in { 0, run } /\ warm' \in BOOLEAN
  BY ClearRunType DEF InterruptTail
<1>2. RestTyped' /\ StorageStep
  BY <1>1, RunKept, QuietStorage DEF InterruptTail, OutboxInv, TypeOK
<1>3. PICK w \in Activity : w = [ work[h] EXCEPT !.pc = "row" ]
  BY WorkType, PcType
<1>4. w.kind = work[h].kind /\ w.pc = "row"
  BY <1>3, WorkType DEF Activity
<1>5. w.kind = "interruptRun"
  BY <1>4, WorkType DEF InterruptTail, Holds
<1>6. Holds(w)'
  BY <1>4, <1>5 DEF Holds, Effects, Jobs
<1> QED
  BY <1>2, <1>3, <1>6, ActivityStep DEF InterruptTail, Continue

(* A batch is closed: its last message now stands for the others as the     *)
(* representative of a finalized batch.                                     *)
LEMMA CloseStep ==
  ASSUME OutboxInv, NEW h \in Worker, Close(h)
  PROVE  OutboxInv'
<1>1. MayClose(h) => batch.open
  BY DEF MayClose, RunReady, IdleReady
<1>2. StorageStep /\ (MayClose(h) => batch.rep \in finalized' /\ batch.rep \in Message)
  <2>1. CASE MayClose(h)
    <3>1. PICK n \in Message : n = batch.rep
      BY <1>1, <2>1, OpenBatchType DEF OutboxInv, TypeOK
    <3>2. finalized' = finalized \cup { n } /\ batch' = NoBatch
      BY <2>1, <3>1 DEF Close
    <3>3. Representatives' = Representatives
      BY <1>1, <2>1, <3>1, <3>2 DEF Representatives, NoBatch
    <3>4. \A k \in Representatives : msgs[k].at >= msgs[k].at
      BY RepresentativesType, TypeParts DEF OutboxInv, CoreTyped, MessageState
    <3>5. batch' \in Batch /\ finalized' \subseteq Message /\ finalized \subseteq finalized'
      BY <3>1, <3>2 DEF Batch, OutboxInv, TypeOK
    <3>6. UNCHANGED <<msgs, events>>
      BY DEF Close
    <3>7. StorageStep
      BY <3>3, <3>4, <3>5, <3>6, BatchStorage
    <3> QED
      BY <3>1, <3>2, <3>7
  <2>2. CASE ~MayClose(h)
    BY <2>2, QuietStorage DEF Close
  <2> QED
    BY <2>1, <2>2
<1>3. CASE MayClose(h) /\ NeedsJob(msgs[batch.rep])
  <2>1. PICK n \in Message : n = batch.rep /\ n \in finalized'
    BY <1>2, <1>3
  <2>2. msgs[n] \in MessageState /\ msgs[n].id = n /\ Genuine(msgs[n])
    BY <1>1, <1>3, <2>1, MessageType DEF OutboxInv, RepresentativesEnded, Representatives
  <2>3. PICK copy \in MessageState : copy = msgs[n]
    BY <2>2
  <2>4. PICK pc \in Pc : pc = "job"
    BY DEF Pc
  <2>5. PICK w \in Activity :
          /\ w = With(work[h], pc, copy)
          /\ w.kind = work[h].kind /\ w.todo = work[h].todo
          /\ w.copy = copy /\ w.pc = pc
    BY CopyWork
  <2>6. gate' = h /\ work' = [work EXCEPT ![h] = w]
    BY <1>3, <2>1, <2>3, <2>4, <2>5 DEF Close, Continue, With
  <2>7. Genuine(w.copy)' /\ w.copy.id \in finalized'
    BY <1>2, <2>1, <2>2, <2>3, <2>5, GenuineStays DEF StorageStep
  <2>8. RestTyped'
    BY <1>3, RestKept DEF Close, history, bounds
  <2> QED
    BY <1>2, <2>4, <2>5, <2>6, <2>7, <2>8, EffectStep DEF Effects, Jobs
<1>4. CASE ~(MayClose(h) /\ NeedsJob(msgs[batch.rep]))
  BY <1>2, <1>4, EndsStep DEF Close
<1> QED
  BY <1>3, <1>4

-----------------------------------------------------------------------------
(* The steps of a job. *)

LEMMA AfterJobStep ==
  ASSUME OutboxInv, StorageStep, NEW h \in Worker, AfterJob(h),
         UNCHANGED <<rows, lastRun, active, history, bounds>>
  PROVE  OutboxInv'
<1>1. CASE Ends(h)
  BY <1>1, EndsStep
<1>2. CASE Continue(h, [ work[h] EXCEPT !.pc = "settle" ]) /\ UNCHANGED <<run, warm>>
  <2>1. RestTyped'
    BY <1>2, RestKept DEF history, bounds
  <2> QED
    BY <1>2, <2>1, GoesOn DEF Continue
<1> QED
  BY <1>1, <1>2 DEF AfterJob

(* What a job writes back: a message of a finalized batch needs no other    *)
(* cover, so its own callback may count as sent.                            *)
LEMMA JobStorage ==
  ASSUME OutboxInv, NEW h \in Worker, work[h].pc \in Jobs,
         \/ Save([ Copy(h) EXCEPT !.enqueued = TRUE ])
         \/ Save([ Copy(h) EXCEPT !.retry = TRUE ]),
         UNCHANGED <<batch, finalized, events>>
  PROVE  StorageStep
<1> DEFINE c == Copy(h)
<1>1. Genuine(c) /\ c \in MessageState
  BY HeldCopy
<1>2. Covered(c.id)
  <2>1. c.id \in finalized
    BY WorkType DEF Holds, Copy
  <2>2. msgs[c.id].at >= msgs[c.id].at
    BY <1>1 DEF OutboxInv, TypeOK, MessageState
  <2> QED
    BY <2>1, <2>2 DEF Covered, Representatives
<1>3. PICK s \in MessageState :
        s \in { [ c EXCEPT !.enqueued = TRUE ], [ c EXCEPT !.retry = TRUE ] } /\ Save(s)
  <2>1. [ c EXCEPT !.enqueued = TRUE ] \in MessageState /\ [ c EXCEPT !.retry = TRUE ] \in MessageState
    BY <1>1, EditType
  <2> QED
    BY <2>1
<1>4. s.id = c.id /\ s.status = c.status /\ s.at = c.at /\ s.event = c.event
  BY <1>1, <1>3 DEF MessageState
<1>5. Genuine(s)
  BY <1>1, <1>2, <1>4 DEF Genuine
<1> QED
  BY <1>3, <1>5, SaveStorage

LEMMA AbandonJobStep ==
  ASSUME OutboxInv, NEW h \in Worker, AbandonJob(h)
  PROVE  OutboxInv'
<1>1. StorageStep
  BY JobStorage DEF AbandonJob, In, Jobs
<1> QED
  BY <1>1, AfterJobStep DEF AbandonJob

LEMMA SendJobStep ==
  ASSUME OutboxInv, NEW h \in Worker, SendJob(h)
  PROVE  OutboxInv'
  BY WaitsWith DEF SendJob, In, Await, Jobs

LEMMA JobFailsStep ==
  ASSUME OutboxInv, NEW h \in Worker, JobFails(h)
  PROVE  OutboxInv'
<1>1. StorageStep
  BY JobStorage DEF JobFails, Jobs
<1> QED
  BY <1>1, AfterJobStep DEF JobFails

LEMMA JobSentStep ==
  ASSUME OutboxInv, NEW h \in Worker, JobSent(h)
  PROVE  OutboxInv'
  BY WaitsWith DEF JobSent, Await, Jobs

LEMMA JobRecordedStep ==
  ASSUME OutboxInv, NEW h \in Worker, JobRecorded(h)
  PROVE  OutboxInv'
<1>1. StorageStep
  BY JobStorage DEF JobRecorded, Jobs
<1> QED
  BY <1>1, AfterJobStep DEF JobRecorded

(* What the activities held is lost; what they had written is enough. *)
LEMMA CrashStep ==
  ASSUME OutboxInv, Crash
  PROVE  OutboxInv'
<1>1. StorageStep
  BY QuietStorage DEF Crash, storage
<1>2. RestTyped'
  BY OutboxAssumption DEF Crash, storage, history, RestTyped, OutboxInv, TypeOK
<1>3. work' \in [Worker -> Activity] /\ gate' \in Worker \cup { "open" }
  BY IdleType DEF Crash
<1>4. ActivitiesHold'
  BY DEF Crash, ActivitiesHold, Holds, Idle, Effects, Jobs
<1>5. TypeOK'
  BY <1>1, <1>2, <1>3 DEF StorageStep, CoreTyped, RestTyped, TypeOK
<1> QED
  BY <1>1, <1>4, <1>5 DEF OutboxInv, StorageStep

-----------------------------------------------------------------------------
LEMMA OutboxInit == Init => OutboxInv
<1> SUFFICES ASSUME Init PROVE OutboxInv
  OBVIOUS
<1>1. \A m \in Message : NewMessage(m) \in MessageState
  BY OutboxAssumption DEF NewMessage, MessageState
<1>2. TypeOK
  <2>1. 0 \in 0..MaxRuns /\ 0 \in 0..0 /\ 0 \in 0..MaxCrashes
    BY OutboxAssumption
  <2>2. msgs \in [Message -> MessageState] /\ work \in [Worker -> Activity]
    BY <1>1, IdleType DEF Init
  <2>3. batch \in Batch /\ gate \in Worker \cup { "open" }
    BY DEF Init, Batch
  <2>4. reported \in [Message -> Result \cup { None }]
    BY DEF Init
  <2> QED
    BY <2>1, <2>2, <2>3, <2>4 DEF Init, TypeOK
<1>3. MessagesAreGenuine
  BY DEF Init, MessagesAreGenuine, Ended, Terminal, NewMessage, None
<1>4. RepresentativesEnded
  BY DEF Init, RepresentativesEnded, Representatives, NoBatch
<1>5. ActivitiesHold
  BY DEF Init, ActivitiesHold, Holds, Idle, Effects, Jobs
<1> QED
  BY <1>2, <1>3, <1>4, <1>5 DEF OutboxInv

LEMMA GoesStep ==
  ASSUME OutboxInv, NEW h \in Worker, Goes(h)
  PROVE  OutboxInv'
<1>1. CASE Settle(h) \/ AlreadySettled(h) \/ TakeCopy(h) \/ RemoveRows(h)
  BY <1>1, SettleStep, AlreadySettledStep, TakeCopyStep, RemoveRowsStep
<1>2. CASE EmitEvent(h) \/ MarkEmitted(h) \/ RecordCandidate(h) \/ MarkRecorded(h)
  BY <1>2, EmitEventStep, MarkEmittedStep, RecordCandidateStep, MarkRecordedStep
<1>3. CASE \/ SuppressPush(h) \/ SendPush(h) \/ PushAccounted(h) \/ PushFails(h)
           \/ NothingOwed(h)
  BY <1>3, SuppressPushStep, SendPushStep, PushAccountedStep, PushFailsStep, NothingOwedStep
<1>4. CASE \/ ReportTail(h) \/ RecordResult(h) \/ Observe(h) \/ Forget(h) \/ Release(h)
  BY <1>4, ReportTailStep, RecordResultStep, ObserveStep, ForgetStep, ReleaseStep
<1>5. CASE InterruptRun(h) \/ InterruptCommand(h) \/ InterruptTail(h) \/ Close(h)
  BY <1>5, InterruptRunStep, InterruptCommandStep, InterruptTailStep, CloseStep
<1>6. CASE \/ AbandonJob(h) \/ SendJob(h) \/ JobFails(h) \/ JobSent(h) \/ JobRecorded(h)
  BY <1>6, AbandonJobStep, SendJobStep, JobFailsStep, JobSentStep, JobRecordedStep
<1> QED
  BY <1>1, <1>2, <1>3, <1>4, <1>5, <1>6 DEF Goes

LEMMA AlarmRunsStep ==
  ASSUME OutboxInv, AlarmRuns
  PROVE  OutboxInv'
<1>1. CASE \E kind \in Losing : LoseRun(kind)
  BY <1>1, LoseRunStep
<1>2. CASE \E r \in 1..lastRun : StaleGrace(r)
  BY <1>2, StaleGraceStep
<1>3. CASE KeepWarmEnds \/ ServerIdle \/ Repair \/ Retry
  BY <1>3, KeepWarmEndsStep, ServerIdleStep, RepairStep, RetryStep
<1>4. CASE \E m \in Message : DeliveryFails(m)
  BY <1>4, DeliveryFailsStep
<1> QED
  BY <1>1, <1>2, <1>3, <1>4 DEF AlarmRuns

LEMMA OutboxStep == OutboxInv /\ [Next]_vars => OutboxInv'
<1> SUFFICES ASSUME OutboxInv, [Next]_vars PROVE OutboxInv'
  OBVIOUS
<1>1. CASE \E m \in Message : Submit(m) \/ Accept(m) \/ DropResidue(m) \/ RetryElapses(m)
  BY <1>1, SubmitStep, AcceptStep, DropResidueStep, RetryElapsesStep
<1>2. CASE \E h \in Handler : \E m \in Message : MessageEvent(h, m) \/ Cancel(h, m)
  BY <1>2, MessageEventStep, CancelStep DEF Worker
<1>3. CASE \E h \in Handler : \E result \in Result \cup { None } : RunReports(h, result)
  BY <1>3, RunReportsStep DEF Worker
<1>4. CASE \E h \in Handler : Interrupt(h)
  BY <1>4, InterruptStep DEF Worker
<1>5. CASE AlarmRuns
  BY <1>5, AlarmRunsStep
<1>6. CASE \E h \in Worker : Goes(h)
  BY <1>6, GoesStep
<1>7. CASE Crash
  BY <1>7, CrashStep
<1>8. CASE UNCHANGED vars
  <2>1. RestTyped' /\ StorageStep
    BY <1>8, RestKept, QuietStorage DEF vars, storage, history, bounds
  <2> QED
    BY <1>8, <2>1, SameWorkStep DEF vars
<1> QED
  BY <1>1, <1>2, <1>3, <1>4, <1>5, <1>6, <1>7, <1>8 DEF Next

LEMMA OutboxIsInductive == Spec => []OutboxInv
  BY OutboxInit, OutboxStep, PTL DEF Spec

(* The storage, the queue and the handlers of the outbox are well formed,   *)
(* for any number of messages, handlers, runs and crashes.                  *)
THEOREM TypeCorrect == Spec => []TypeOK
<1>1. OutboxInv => TypeOK
  BY DEF OutboxInv
<1> QED
  BY <1>1, OutboxIsInductive, PTL

(* A receiver of a callback finds the terminal event of its message: every  *)
(* job is that of a finalized batch, whose representative was recorded only *)
(* after its event was inserted.                                            *)
THEOREM EventsPrecedeCallbacks == Spec => []EventBeforeCallback
<1>1. OutboxInv => EventBeforeCallback
  <2> SUFFICES ASSUME OutboxInv, NEW h \in Worker,
                      work[h].pc = "job", work[h].copy.status # "canceled"
               PROVE  work[h].copy.id \in events
    BY DEF EventBeforeCallback
  <2>1. Genuine(work[h].copy) /\ work[h].copy.id \in finalized
    BY WorkType DEF Holds, Jobs
  <2> QED
    BY <2>1 DEF Genuine, OutboxInv, RepresentativesEnded, Representatives
<1> QED
  BY <1>1, OutboxIsInductive, PTL

(* No message that owes a callback is forgotten, whatever repairs, crashes  *)
(* and late answers did: its callback is pending, or a message that ended   *)
(* no earlier stands for it in a batch.                                     *)
THEOREM CallbacksAreCovered == Spec => []CallbackCovered
<1>1. OutboxInv => CallbackCovered
  <2> SUFFICES ASSUME OutboxInv, NEW m \in Required, Ended(m)
               PROVE  Owes(msgs[m]) \/ Covered(m)
    BY DEF CallbackCovered, Owes, Covered, Representatives
  <2>1. m \in Message
    BY OutboxAssumption
  <2>2. Genuine(msgs[m]) /\ msgs[m].id = m
    BY <2>1, MessageType
  <2> QED
    BY <2>2 DEF Genuine
<1> QED
  BY <1>1, OutboxIsInductive, PTL

-----------------------------------------------------------------------------
(* The gate result of a run.  Without pushes, which only web sessions send, *)
(* and unless the object stops between a record and its mark, a message is  *)
(* recorded in one batch only: a copy held over an await is that of a       *)
(* finalized batch, whose result can no longer change.                      *)

(* Where an activity waits for something outside the object. *)
Waits == { "idle", "send", "sent", "command" }

SegmentsAreHeld == \A h \in Worker : work[h].pc \notin Waits => gate = h

(* The callback of this state was recorded in a batch. *)
Recorded(s) == s.callback = "accounted"

RecordedAfterEvent ==
  \A m \in Message : Recorded(msgs[m]) => msgs[m].event = "accounted"

ResultsAreStored ==
  \A m \in Message :
    reported[m] # None => Recorded(msgs[m]) /\ msgs[m].gate = reported[m]

(* The activity between the record of a message and its mark. *)
Recording(m) ==
  gate # "open" /\ work[gate].pc = "recorded" /\ work[gate].copy.id = m

FinalizedOnce ==
  /\ \A m \in finalized : Recorded(msgs[m])
  /\ batch.open =>
       batch.rep \notin finalized /\ (Recorded(msgs[batch.rep]) \/ Recording(batch.rep))

ResultStorage == RecordedAfterEvent /\ ResultsAreStored /\ FinalizedOnce

(* A copy of the segment under way, and one of a finalized batch. *)
Current(s) ==
  /\ s.gate = msgs[s.id].gate
  /\ Recorded(s) <=> Recorded(msgs[s.id])
  /\ Recorded(s) => s.event = "accounted"

Final(s) == Recorded(s) /\ s.event = "accounted" /\ s.gate = msgs[s.id].gate

CopyKept(w) ==
  /\ w.pc \in Effects \/ (w.pc = "row" /\ w.kind = "delivery") => Current(w.copy)
  /\ w.pc = "recorded" => w.copy.event = "accounted"
  /\ w.pc \in Jobs => Final(w.copy)

(* What a repair and a retry have listed. *)
ListKept(w) ==
  /\ w.kind = "retry" => \A s \in w.todo : Final(s)
  /\ w.kind = "repair" =>
       /\ w.pc \in { "settle" } \cup Effects \/ w.todo = {}
       /\ \A s \in w.todo :
            /\ Current(s)
            /\ \A q \in w.todo : q.id = s.id => q = s
            /\ w.pc \in Effects => s.id # w.copy.id

ResultInv ==
  /\ SegmentsAreHeld /\ ResultStorage
  /\ \A h \in Worker : CopyKept(work[h]) /\ ListKept(work[h])

LEMMA OpenIsNoWorker == "open" \notin Worker
  BY OutboxAssumption DEF Worker

(* The results of finalized batches stand. *)
FinalResultsStay == \A m \in finalized : msgs'[m].gate = msgs[m].gate

(* Every other activity waits and holds what it held. *)
LEMMA OthersKeepCopies ==
  ASSUME OutboxInv, ResultInv, FinalResultsStay, NEW g \in Worker, gate # g,
         NEW w \in Activity, w = work[g]
  PROVE  w.pc \in Waits /\ CopyKept(w)' /\ ListKept(w)'
<1>1. w.pc \in Waits /\ CopyKept(w) /\ ListKept(w) /\ Holds(w)
  BY WorkType DEF ResultInv, SegmentsAreHeld
<1>2. w.pc \notin Effects \cup { "settle", "row", "recorded" }
  BY <1>1 DEF Waits, Effects
<1>3. w.pc \in Jobs => Final(w.copy)'
  BY <1>1 DEF CopyKept, Holds, FinalResultsStay, Final, Recorded
<1>4. w.kind = "retry" => \A s \in w.todo : Final(s)'
  BY <1>1 DEF ListKept, Holds, FinalResultsStay, Final, Recorded
<1>5. w.kind = "repair" => w.todo = {}
  BY <1>1, <1>2 DEF ListKept
<1>6. CopyKept(w)'
  BY <1>2, <1>3 DEF CopyKept
<1>7. ListKept(w)'
  BY <1>4, <1>5 DEF ListKept
<1> QED
  BY <1>1, <1>6, <1>7

LEMMA ResultStep ==
  ASSUME OutboxInv, ResultInv, ResultStorage', FinalResultsStay,
         NEW h \in Worker, NEW w \in Activity, gate \in { h, "open" }, gate' \in { h, "open" },
         work' = [work EXCEPT ![h] = w],
         w.pc \notin Waits => gate' = h, CopyKept(w)', ListKept(w)'
  PROVE  ResultInv'
<1>1. work'[h] = w
  BY DEF OutboxInv, TypeOK
<1>2. ASSUME NEW g \in Worker, g # h
      PROVE  work'[g].pc \in Waits /\ CopyKept(work[g])' /\ ListKept(work[g])'
  <2>1. PICK v \in Activity : v = work[g]
    BY WorkType
  <2>2. work'[g] = v
    BY <1>2, <2>1 DEF OutboxInv, TypeOK
  <2>3. gate # g
    BY <1>2, OpenIsNoWorker
  <2>4. v.pc \in Waits /\ CopyKept(v)' /\ ListKept(v)'
    BY <2>1, <2>3, OthersKeepCopies
  <2> QED
    BY <2>2, <2>4 DEF CopyKept, ListKept
<1>3. SegmentsAreHeld'
  BY <1>1, <1>2 DEF SegmentsAreHeld
<1>4. CopyKept(work[h])' /\ ListKept(work[h])'
  BY <1>1 DEF CopyKept, ListKept
<1> QED
  BY <1>2, <1>3, <1>4 DEF ResultInv

(* An activity goes on: it keeps its kind and takes from its list. *)
LEMMA GoingResultStep ==
  ASSUME OutboxInv, ResultInv, ResultStorage', FinalResultsStay,
         NEW h \in Worker, NEW w \in Activity, gate \in { h, "open" }, gate' \in { h, "open" },
         work' = [work EXCEPT ![h] = w],
         w.pc \notin Waits => gate' = h, CopyKept(w)',
         w.kind \in { "repair", "retry" } =>
           w.kind = work[h].kind /\ w.todo \subseteq work[h].todo,
         w.kind = "repair" =>
           /\ w.pc \in { "settle" } \cup Effects \/ w.todo = {}
           /\ \A s \in w.todo : /\ msgs'[s.id] = msgs[s.id]
                                /\ w.pc \in Effects => s.id # w.copy.id
  PROVE  ResultInv'
<1>1. ListKept(work[h]) /\ Holds(work[h])
  BY WorkType DEF ResultInv
<1>2. ASSUME w.kind = "retry", NEW s \in w.todo PROVE Final(s)'
  BY <1>1, <1>2 DEF ListKept, Holds, FinalResultsStay, Final, Recorded
<1>3. ASSUME w.kind = "repair", NEW s \in w.todo
      PROVE  Current(s)' /\ \A q \in w.todo : q.id = s.id => q = s
  BY <1>1, <1>3 DEF ListKept, Current, Recorded
<1>4. ListKept(w)'
  BY <1>2, <1>3 DEF ListKept
<1> QED
  BY <1>4, ResultStep

-----------------------------------------------------------------------------
(* What a step may do to the results. *)

(* No gate result, no event and no callback of a message changes. *)
ResultsUntouched ==
  /\ \A m \in Message : /\ msgs'[m].gate = msgs[m].gate
                        /\ msgs'[m].event = msgs[m].event
                        /\ msgs'[m].callback = msgs[m].callback
  /\ UNCHANGED <<finalized, reported>>

(* Unless its activity is between a record and its mark, the current batch  *)
(* stands for a recorded message.                                           *)
LEMMA OpenIsRecorded ==
  ASSUME OutboxInv, ResultInv, NEW h \in Worker, gate \in { h, "open" }, work[h].pc # "recorded"
  PROVE  batch.open => Recorded(msgs[batch.rep])
  BY DEF ResultInv, ResultStorage, FinalizedOnce, Recording

LEMMA UntouchedResults ==
  ASSUME OutboxInv, ResultInv, ResultsUntouched,
         NEW h \in Worker, gate \in { h, "open" }, work[h].pc # "recorded",
         batch'.open => batch.open /\ batch'.rep = batch.rep
  PROVE  ResultStorage' /\ FinalResultsStay
<1>1. batch.open => batch.rep \in Message
  BY OpenBatchType DEF OutboxInv, TypeOK
<1>2. finalized \subseteq Message
  BY DEF OutboxInv, TypeOK
<1>3. FinalizedOnce'
  BY <1>1, <1>2, OpenIsRecorded
  DEF ResultInv, ResultStorage, FinalizedOnce, ResultsUntouched, Recorded
<1>4. RecordedAfterEvent' /\ ResultsAreStored'
  BY DEF ResultInv, ResultStorage, RecordedAfterEvent, ResultsAreStored, ResultsUntouched, Recorded
<1> QED
  BY <1>2, <1>3, <1>4 DEF ResultStorage, FinalResultsStay, ResultsUntouched

(* The message of a state is written back with its result. *)
LEMMA SavedResults ==
  ASSUME OutboxInv, ResultInv, NEW s \in MessageState, Save(s),
         s.gate = msgs[s.id].gate, Recorded(s) => s.event = "accounted",
         Recorded(msgs[s.id]) => Recorded(s), UNCHANGED <<batch, finalized, reported>>
  PROVE  /\ RecordedAfterEvent' /\ ResultsAreStored' /\ FinalResultsStay
         /\ \A m \in Message : Recorded(msgs[m]) => Recorded(msgs'[m])
         /\ \A m \in Message : m # s.id => msgs'[m] = msgs[m]
         /\ msgs'[s.id] = s
<1>1. s.id \in Message /\ finalized \subseteq Message
  BY DEF MessageState, OutboxInv, TypeOK
<1>2. \A m \in Message : msgs'[m] = IF m = s.id THEN s ELSE msgs[m]
  BY DEF Save, OutboxInv, TypeOK
<1>3. RecordedAfterEvent' /\ ResultsAreStored'
  BY <1>2 DEF ResultInv, ResultStorage, RecordedAfterEvent, ResultsAreStored, Recorded
<1> QED
  BY <1>1, <1>2, <1>3 DEF FinalResultsStay

LEMMA SavedBatch ==
  ASSUME OutboxInv, ResultInv, UNCHANGED <<batch, finalized>>,
         RecordedAfterEvent', ResultsAreStored',
         \A m \in Message : Recorded(msgs[m]) => Recorded(msgs'[m]),
         batch.open => Recorded(msgs'[batch.rep])
  PROVE  ResultStorage'
<1>1. finalized \subseteq Message
  BY DEF OutboxInv, TypeOK
<1> QED
  BY <1>1 DEF ResultInv, ResultStorage, FinalizedOnce, Recorded

-----------------------------------------------------------------------------
(* The steps.  First those that begin an activity or none. *)

LEMMA SameActivities ==
  ASSUME OutboxInv, ResultInv, ResultsUntouched, UNCHANGED <<batch, gate, work>>
  PROVE  ResultInv'
<1>1. finalized \subseteq Message /\ (batch.open => batch.rep \in Message)
  BY OpenBatchType DEF OutboxInv, TypeOK
<1>2. ResultStorage'
  BY <1>1 DEF ResultInv, ResultStorage, RecordedAfterEvent, ResultsAreStored, FinalizedOnce,
              Recording, ResultsUntouched, Recorded
<1>3. ASSUME NEW h \in Worker PROVE CopyKept(work[h])' /\ ListKept(work[h])'
  <2>1. CopyKept(work[h]) /\ ListKept(work[h]) /\ Holds(work[h]) /\ work[h] \in Activity
    BY WorkType DEF ResultInv
  <2>2. ASSUME NEW s \in MessageState PROVE Current(s)' = Current(s) /\ Final(s)' = Final(s)
    BY <2>2 DEF Current, Final, Recorded, ResultsUntouched, MessageState
  <2>3. work[h].todo \subseteq MessageState
    BY <2>1 DEF Activity
  <2>4. \/ work[h].pc \in Effects \cup Jobs
        \/ work[h].pc = "row" /\ work[h].kind = "delivery"
        => work[h].copy \in MessageState
    BY <2>1 DEF Holds, Genuine
  <2> QED
    BY <2>1, <2>2, <2>3, <2>4 DEF CopyKept, ListKept
<1> QED
  BY <1>2, <1>3 DEF ResultInv, SegmentsAreHeld

(* An activity begins; repairs and retries have a list to account for. *)
Begun(h) ==
  /\ Free(h) /\ gate' = h
  /\ \A g \in Worker : g # h => work'[g] = work[g]
  /\ work'[h].pc \in { "tail", "settle", "release", "row" }
  /\ \/ work'[h].kind \notin { "repair", "retry", "delivery" }
     \/ work'[h].kind = "delivery" /\ work'[h].pc = "settle"

LEMMA BeginResult ==
  ASSUME OutboxInv, OutboxInv', ResultInv, ResultsUntouched, UNCHANGED batch,
         NEW h \in Worker, Begun(h)
  PROVE  ResultInv'
<1>1. ResultStorage' /\ FinalResultsStay
  BY UntouchedResults DEF Begun, Free
<1>2. PICK w \in Activity : w = work'[h]
  BY DEF OutboxInv, TypeOK
<1>3. CopyKept(w)' /\ ListKept(w)'
  BY <1>2 DEF Begun, CopyKept, ListKept, Effects, Jobs
<1>4. gate = "open" /\ gate' = h
  BY DEF Begun, Free
<1>5. work' = [work EXCEPT ![h] = w]
  BY <1>2 DEF Begun, OutboxInv, TypeOK
<1> QED
  BY <1>1, <1>3, <1>4, <1>5, ResultStep

LEMMA QueueSideKeepsResults ==
  ASSUME OutboxInv, ResultInv, NEW m \in Message,
         Submit(m) \/ Accept(m) \/ DropResidue(m) \/ RetryElapses(m)
  PROVE  ResultInv'
<1>1. msgs[m] \in MessageState
  BY MessageType
<1>2. ASSUME NEW n \in Message
      PROVE  /\ msgs'[n].gate = msgs[n].gate
             /\ msgs'[n].event = msgs[n].event
             /\ msgs'[n].callback = msgs[n].callback
  <2>0. msgs \in [Message -> MessageState]
    BY DEF OutboxInv, TypeOK
  <2>1. CASE Submit(m)
    BY <1>1, <2>0, <2>1 DEF Submit, MessageState
  <2>2. CASE Accept(m)
    <3>1. PICK r \in 1..MaxRuns :
            /\ msgs' = [msgs EXCEPT ![m] = [@ EXCEPT !.status = "accepted", !.run = r]]
            /\ run' = r /\ lastRun' = Newest(r)
      BY <2>2, AcceptWrites
    <3> QED
      BY <1>1, <2>0, <3>1 DEF MessageState
  <2>3. CASE DropResidue(m)
    BY <2>3 DEF DropResidue
  <2>4. CASE RetryElapses(m)
    BY <1>1, <2>0, <2>4 DEF RetryElapses, MessageState
  <2> QED
    BY <2>1, <2>2, <2>3, <2>4
<1>3. UNCHANGED <<batch, gate, work, finalized, reported>>
  BY DEF Submit, Accept, DropResidue, RetryElapses, history
<1> QED
  BY <1>2, <1>3, SameActivities DEF ResultsUntouched

LEMMA CancelKeepsResults ==
  ASSUME OutboxInv, OutboxInv', ResultInv, NEW h \in Worker, NEW m \in Message, Cancel(h, m)
  PROVE  ResultInv'
<1>0. work \in [Worker -> Activity]
  BY DEF OutboxInv, TypeOK
<1>1. msgs[m] \in MessageState /\ msgs \in [Message -> MessageState]
  BY MessageType DEF OutboxInv, TypeOK
<1>2. PICK at \in Nat :
        /\ msgs' = [msgs EXCEPT ![m] = [@ EXCEPT !.status = "canceled", !.at = at]]
        /\ clock' = at
  BY CancelWrites
<1>3. ASSUME NEW n \in Message
      PROVE  /\ msgs'[n].gate = msgs[n].gate
             /\ msgs'[n].event = msgs[n].event
             /\ msgs'[n].callback = msgs[n].callback
  BY <1>1, <1>2 DEF MessageState
<1>4. UNCHANGED <<batch, finalized, reported>>
  BY DEF Cancel, history
<1>5. Begun(h)
  BY <1>0 DEF Cancel, Start, Continue, Begun, Idle
<1> QED
  BY <1>3, <1>4, <1>5, BeginResult DEF ResultsUntouched

(* An activity other than a repair begins. *)
Begins(h) ==
  \/ \E m \in Message : MessageEvent(h, m)
  \/ \E result \in Result \cup { None } : RunReports(h, result)
  \/ Interrupt(h)
  \/ h = "alarm" /\ \/ \E kind \in Losing : LoseRun(kind)
                    \/ \E r \in 1..lastRun : StaleGrace(r)
                    \/ KeepWarmEnds \/ ServerIdle
                    \/ \E m \in Message : DeliveryFails(m)

LEMMA BeginsKeepsResults ==
  ASSUME OutboxInv, OutboxInv', ResultInv, NEW h \in Worker, Begins(h)
  PROVE  ResultInv'
<1>0. work \in [Worker -> Activity]
  BY DEF OutboxInv, TypeOK
<1>1. UNCHANGED <<msgs, batch, finalized, reported>> /\ Begun(h)
  <2>1. ASSUME NEW m \in Message, MessageEvent(h, m)
        PROVE  UNCHANGED <<msgs, batch, finalized, reported>> /\ Begun(h)
    BY <1>0, <2>1 DEF MessageEvent, Begun, Idle, storage, history, Start, Continue
  <2>2. ASSUME NEW result \in Result \cup { None }, RunReports(h, result)
        PROVE  UNCHANGED <<msgs, batch, finalized, reported>> /\ Begun(h)
    BY <1>0, <2>2 DEF RunReports, Begun, Idle, storage, history, Start, Continue
  <2>3. CASE Interrupt(h)
    BY <1>0, <2>3 DEF Interrupt, Begun, Idle, storage, history, Start, Continue
  <2>4. ASSUME NEW kind \in Losing, h = "alarm", LoseRun(kind)
        PROVE  UNCHANGED <<msgs, batch, finalized, reported>> /\ Begun(h)
    BY <1>0, <2>4 DEF LoseRun, Begun, Idle, Losing, storage, Start, Continue
  <2>5. ASSUME NEW r \in 1..lastRun, h = "alarm", StaleGrace(r)
        PROVE  UNCHANGED <<msgs, batch, finalized, reported>> /\ Begun(h)
    BY <1>0, <2>5 DEF StaleGrace, Begun, Idle, storage, history, Start, Continue
  <2>6. CASE h = "alarm" /\ KeepWarmEnds
    BY <1>0, <2>6 DEF KeepWarmEnds, Begun, Idle, storage, history, Start, Continue
  <2>7. CASE h = "alarm" /\ ServerIdle
    BY <1>0, <2>7 DEF ServerIdle, Begun, Idle, storage, history, Start, Continue
  <2>8. ASSUME NEW m \in Message, h = "alarm", DeliveryFails(m)
        PROVE  UNCHANGED <<msgs, batch, finalized, reported>> /\ Begun(h)
    BY <1>0, <2>8 DEF DeliveryFails, Begun, Idle, storage, history, Start, Continue
  <2> QED
    BY <2>1, <2>2, <2>3, <2>4, <2>5, <2>6, <2>7, <2>8 DEF Begins
<1> QED
  BY <1>1, BeginResult DEF ResultsUntouched

(* The alarm lists the messages as they are, ... *)
LEMMA NormalizedCurrent ==
  ASSUME OutboxInv, ResultInv, NEW m \in Message
  PROVE  Current(Normalized(msgs[m])) /\ Normalized(msgs[m]).id = m
<1>1. msgs[m] \in MessageState /\ msgs[m].id = m
  BY MessageType
<1>2. Recorded(msgs[m]) => msgs[m].event = "accounted"
  BY DEF ResultInv, ResultStorage, RecordedAfterEvent
<1>3. CASE msgs[m].event = None /\ NeedsJob(msgs[m])
  <2> DEFINE t == [ msgs[m] EXCEPT !.event = "accounted", !.callback = "pending" ]
  <2>1. t = Normalized(msgs[m])
    BY <1>3 DEF Normalized
  <2>2. t.id = m /\ t.gate = msgs[m].gate /\ ~Recorded(t)
    BY <1>1 DEF MessageState, Recorded
  <2>3. ~Recorded(msgs[m])
    BY <1>2, <1>3 DEF None
  <2> HIDE DEF t
  <2> QED
    BY <2>1, <2>2, <2>3 DEF Current
<1>4. CASE ~(msgs[m].event = None /\ NeedsJob(msgs[m]))
  BY <1>1, <1>2, <1>4 DEF Normalized, Current
<1> QED
  BY <1>3, <1>4

LEMMA RepairKeepsResults ==
  ASSUME OutboxInv, OutboxInv', ResultInv, Repair
  PROVE  ResultInv'
<1>0. "alarm" \in Worker
  BY DEF Worker
<1>1. UNCHANGED <<msgs, batch, finalized, reported>>
  BY DEF Repair, storage, history
<1>2. ResultsUntouched /\ gate = "open" /\ gate' = "alarm" /\ work["alarm"].pc = "idle"
  BY <1>1 DEF Repair, Start, Free, Continue, ResultsUntouched
<1>3. ResultStorage' /\ FinalResultsStay
  BY <1>0, <1>1, <1>2, UntouchedResults
<1>4. PICK w \in Activity : w = work'["alarm"]
  BY <1>0 DEF OutboxInv, TypeOK
<1>5. /\ w.kind = "repair" /\ w.todo = PendingEffects
      /\ w.pc = IF PendingEffects = {} THEN "close" ELSE "settle"
  BY <1>0, <1>4 DEF Repair, Start, Continue, Idle, OutboxInv, TypeOK
<1>6. work' = [work EXCEPT !["alarm"] = w]
  BY <1>0, <1>4 DEF Repair, Start, Continue, OutboxInv, TypeOK
<1>7. \A s \in PendingEffects : \E m \in Message : s = Normalized(msgs[m])
  BY DEF PendingEffects
<1>8. ASSUME NEW s \in PendingEffects
      PROVE  Current(s) /\ \A q \in PendingEffects : q.id = s.id => q = s
  BY <1>7, NormalizedCurrent
<1>9. CopyKept(w)'
  BY <1>5 DEF CopyKept, Effects, Jobs
<1>10. ListKept(w)'
  BY <1>1, <1>5, <1>8 DEF ListKept, Current, Effects
<1> QED
  BY <1>0, <1>2, <1>3, <1>6, <1>9, <1>10, ResultStep

(* ... and those of the finalized batches. *)
LEMMA RetryKeepsResults ==
  ASSUME OutboxInv, OutboxInv', ResultInv, Retry
  PROVE  ResultInv'
<1>0. "alarm" \in Worker
  BY DEF Worker
<1>1. UNCHANGED <<msgs, batch, finalized, reported>>
  BY DEF Retry, storage, history
<1>2. ResultsUntouched /\ gate = "open" /\ gate' = "alarm" /\ work["alarm"].pc = "idle"
  BY <1>1 DEF Retry, Start, Free, Continue, ResultsUntouched
<1>3. ResultStorage' /\ FinalResultsStay
  BY <1>0, <1>1, <1>2, UntouchedResults
<1>4. PICK w \in Activity : w = work'["alarm"]
  BY <1>0 DEF OutboxInv, TypeOK
<1>5. w.kind = "retry" /\ w.todo \subseteq PendingCallbacks /\ w.pc = "settle"
  BY <1>0, <1>4 DEF Retry, Start, Continue, Idle, OutboxInv, TypeOK
<1>6. work' = [work EXCEPT !["alarm"] = w]
  BY <1>0, <1>4 DEF Retry, Start, Continue, OutboxInv, TypeOK
<1>7. ASSUME NEW s \in PendingCallbacks PROVE Final(s)
  <2>1. PICK m \in finalized : s = msgs[m]
    BY DEF PendingCallbacks, States
  <2>2. m \in Message /\ msgs[m].id = m
    BY MessageType DEF OutboxInv, TypeOK
  <2> QED
    BY <2>1, <2>2 DEF ResultInv, ResultStorage, FinalizedOnce, RecordedAfterEvent, Final
<1>8. CopyKept(w)'
  BY <1>5 DEF CopyKept, Effects, Jobs
<1>9. ListKept(w)'
  BY <1>1, <1>5, <1>7 DEF ListKept, Final
<1> QED
  BY <1>0, <1>2, <1>3, <1>6, <1>8, <1>9, ResultStep

-----------------------------------------------------------------------------
(* An activity goes on without a state, ... *)
LEMMA PlainResultStep ==
  ASSUME OutboxInv, ResultInv, ResultStorage', FinalResultsStay,
         NEW h \in Worker, NEW w \in Activity, gate \in { h, "open" }, gate' \in { h, "open" },
         work' = [work EXCEPT ![h] = w],
         w.pc \notin Waits => gate' = h,
         w.pc \notin Effects \cup Jobs, w.pc = "row" => w.kind # "delivery",
         w.kind \in { "repair", "retry" } =>
           w.kind = work[h].kind /\ w.todo \subseteq work[h].todo,
         w.kind = "repair" =>
           \/ w.todo = {}
           \/ w.pc = "settle" /\ \A s \in w.todo : msgs'[s.id] = msgs[s.id]
  PROVE  ResultInv'
<1>1. CopyKept(w)'
  BY DEF CopyKept, Effects
<1> QED
  BY <1>1, GoingResultStep

LEMMA IdleResultStep ==
  ASSUME OutboxInv, ResultInv, ResultStorage', FinalResultsStay,
         NEW h \in Worker, gate \in { h, "open" }, Await(h, Idle)
  PROVE  ResultInv'
  BY IdleType, PlainResultStep DEF Await, Idle, Effects, Jobs, Waits

(* ... past its list, ... *)
LEMMA TailResultStep ==
  ASSUME OutboxInv, ResultInv, ResultStorage', FinalResultsStay,
         NEW h \in Worker, gate \in { h, "open" }, gate' \in { h, "open" },
         NEW pc \in { "row", "tail", "result", "observe", "release", "command", "close" },
         pc # "command" => gate' = h, pc = "row" => work[h].kind # "delivery",
         work' = [work EXCEPT ![h] = [ work[h] EXCEPT !.pc = pc ]],
         work[h].pc \notin { "settle" } \cup Effects
  PROVE  ResultInv'
<1>1. PICK p \in Pc : p = pc
  BY DEF Pc
<1>2. PICK w \in Activity :
        /\ w = [ work[h] EXCEPT !.pc = p ]
        /\ w.kind = work[h].kind /\ w.todo = work[h].todo
        /\ w.copy = work[h].copy /\ w.pc = p
  BY PcWork
<1>3. w.kind = "repair" => w.todo = {}
  BY <1>2 DEF ResultInv, ListKept
<1>4. w.pc \notin Effects \cup Jobs /\ (w.pc \notin Waits => w.pc # "command")
  BY <1>1, <1>2 DEF Effects, Jobs, Waits
<1> QED
  BY <1>1, <1>2, <1>3, <1>4, PlainResultStep

(* ... or from one message to the next. *)
LEMMA ProceedResultStep ==
  ASSUME OutboxInv, ResultInv, ResultStorage', FinalResultsStay,
         NEW h \in Worker, gate \in { h, "open" }, Proceed(h, work[h]),
         work[h].kind = "repair" => \A s \in work[h].todo : msgs'[s.id] = msgs[s.id]
  PROVE  ResultInv'
<1>1. CASE Await(h, Idle)
  BY <1>1, IdleResultStep
<1>2. CASE \E pc \in { "settle", "close", "tail" } :
             /\ Continue(h, [ work[h] EXCEPT !.pc = pc ])
             /\ pc = "settle" \/ work[h].todo = {}
  <2>1. PICK pc \in { "settle", "close", "tail" } :
             /\ Continue(h, [ work[h] EXCEPT !.pc = pc ])
             /\ pc = "settle" \/ work[h].todo = {}
    BY <1>2
  <2>2. PICK p \in Pc : p = pc
    BY DEF Pc
  <2>3. PICK w \in Activity :
          /\ w = [ work[h] EXCEPT !.pc = p ]
          /\ w.kind = work[h].kind /\ w.todo = work[h].todo
          /\ w.copy = work[h].copy /\ w.pc = p
    BY PcWork
  <2>4. gate' = h /\ work' = [work EXCEPT ![h] = w]
    BY <2>1, <2>2, <2>3 DEF Continue
  <2>5. w.pc \notin Effects \cup Jobs \cup { "row" }
    BY <2>2, <2>3 DEF Effects, Jobs
  <2> QED
    BY <2>1, <2>2, <2>3, <2>4, <2>5, PlainResultStep
<1> QED
  BY <1>1, <1>2 DEF Proceed

(* An activity goes on with a copy of the current state. *)
LEMMA EffectResultStep ==
  ASSUME OutboxInv, ResultInv, ResultStorage', FinalResultsStay,
         NEW h \in Worker, NEW w \in Activity, gate \in { h, "open" }, gate' = h,
         work' = [work EXCEPT ![h] = w],
         w.pc \in Effects \cup { "row" }, Current(w.copy)',
         w.pc = "recorded" => w.copy.event = "accounted",
         w.kind = work[h].kind, w.todo \subseteq work[h].todo,
         w.kind = "repair" =>
           /\ w.pc \in Effects
           /\ \A s \in w.todo : msgs'[s.id] = msgs[s.id] /\ s.id # w.copy.id
  PROVE  ResultInv'
<1>1. CopyKept(w)'
  <2>1. w.pc \notin Jobs
    BY DEF Jobs, Effects
  <2> QED
    BY <2>1 DEF CopyKept, Current
<1> QED
  BY <1>1, GoingResultStep

-----------------------------------------------------------------------------
(* The steps that settle a message. *)

(* A message that has not ended was not recorded. *)
LEMMA LiveIsNotRecorded ==
  ASSUME OutboxInv, ResultInv, NEW m \in Message, ~Ended(m)
  PROVE  /\ ~Recorded(msgs[m]) /\ reported[m] = None /\ m \notin finalized
         /\ ~(batch.open /\ batch.rep = m)
<1>1. ~Recorded(msgs[m])
  BY DEF OutboxInv, MessagesAreGenuine, ResultInv, ResultStorage, RecordedAfterEvent, None
<1>2. reported[m] = None
  BY <1>1 DEF ResultInv, ResultStorage, ResultsAreStored
<1> QED
  BY <1>1, <1>2 DEF OutboxInv, RepresentativesEnded, Representatives

LEMMA SettleWrites ==
  ASSUME OutboxInv, NEW h \in Worker, Settle(h)
  PROVE  \E s \in Next1(h), new \in MessageState, w \in Activity :
           /\ ~Ended(s.id) /\ new.id = s.id
           /\ new.gate = None /\ new.event = "pending" /\ new.callback # "accounted"
           /\ msgs' = [msgs EXCEPT ![s.id] = new]
           /\ gate' = h /\ work' = [work EXCEPT ![h] = w]
           /\ w.kind = work[h].kind /\ w.todo \subseteq work[h].todo /\ w.copy = new
           /\ w.pc = IF work[h].kind = "delivery" THEN "row" ELSE "effects"
<1> DEFINE kind == work[h].kind
<1>1. PICK s \in Next1(h), outcome \in Outcomes(kind), at \in Ticks,
           push \in { None, "pending" } :
        LET live == IF kind = "event" /\ msgs[s.id].status = "queued"
                    THEN [ msgs[s.id] EXCEPT !.run = work[h].run ] ELSE msgs[s.id]
            new == Settled(live, outcome, at, Allows(kind), push)
        IN  /\ ~Ended(s.id)
            /\ msgs' = [msgs EXCEPT ![s.id] = new]
            /\ clock' = at
            /\ Continue(h, [ Without(work[h], s) EXCEPT !.copy = new,
                  !.pc = IF kind = "delivery" THEN "row" ELSE "effects" ])
  <2>1. \A outcome : Pushes(kind, outcome) \subseteq { None, "pending" }
    BY DEF Pushes
  <2>2. PICK s \in Next1(h) :
          /\ ~Ended(s.id)
          /\ \E outcome \in Outcomes(kind), at \in Ticks :
               \E push \in Pushes(kind, outcome) :
                 LET live == IF kind = "event" /\ msgs[s.id].status = "queued"
                             THEN [ msgs[s.id] EXCEPT !.run = work[h].run ] ELSE msgs[s.id]
                     new == Settled(live, outcome, at, Allows(kind), push)
                 IN  /\ msgs' = [msgs EXCEPT ![s.id] = new]
                     /\ clock' = at
                     /\ Continue(h, [ Without(work[h], s) EXCEPT !.copy = new,
                           !.pc = IF kind = "delivery" THEN "row" ELSE "effects" ])
    BY DEF Settle
  <2> QED
    BY <2>1, <2>2
<1> DEFINE live == IF kind = "event" /\ msgs[s.id].status = "queued"
                   THEN [ msgs[s.id] EXCEPT !.run = work[h].run ] ELSE msgs[s.id]
<1>2. s.id \in Message
  BY NextType
<1>3. live \in MessageState /\ live.id = s.id
  <2>1. work[h].run \in 0..MaxRuns
    BY WorkType DEF Activity
  <2>2. msgs[s.id] \in MessageState /\ msgs[s.id].id = s.id
    BY <1>2, MessageType
  <2>3. [ msgs[s.id] EXCEPT !.run = work[h].run ] \in MessageState
    BY <2>1, <2>2, EditType
  <2>4. [ msgs[s.id] EXCEPT !.run = work[h].run ].id = s.id
    BY <2>2 DEF MessageState
  <2> QED
    BY <2>2, <2>3, <2>4
<1>4. outcome \in Terminal /\ at \in Nat /\ Allows(kind) \in BOOLEAN
  <2>1. Outcomes(kind) \subseteq Terminal
    BY DEF Outcomes, Terminal
  <2>2. Ticks \subseteq Nat
    BY DEF Ticks, OutboxInv, TypeOK
  <2> QED
    BY <2>1, <2>2 DEF Allows
<1>5. PICK new : new = Settled(live, outcome, at, Allows(kind), push)
  OBVIOUS
<1>6. /\ new \in MessageState /\ new.id = s.id /\ new.event = "pending"
      /\ new.gate = None /\ new.callback # "accounted"
  <2> HIDE DEF live
  <2> QED
    BY <1>3, <1>4, <1>5, SettledType, SettledResult
<1>7. ~Ended(s.id) /\ msgs' = [msgs EXCEPT ![s.id] = new]
  BY <1>1, <1>5
<1>8. PICK w \in Activity :
         /\ w = Holding(work[h], s, new, IF kind = "delivery" THEN "row" ELSE "effects")
         /\ w.kind = kind /\ w.todo \subseteq work[h].todo
         /\ w.copy = new /\ w.pc = IF kind = "delivery" THEN "row" ELSE "effects"
  <2>1. PICK pc \in { "settle", "row", "effects", "job" } :
          pc = IF kind = "delivery" THEN "row" ELSE "effects"
    OBVIOUS
  <2> QED
    BY <1>6, <2>1, WithoutType
<1>9. gate' = h /\ work' = [work EXCEPT ![h] = w]
  BY <1>1, <1>5, <1>8 DEF Continue, Holding
<1> QED
  BY <1>6, <1>7, <1>8, <1>9

LEMMA SettleKeepsResults ==
  ASSUME OutboxInv, ResultInv, NEW h \in Worker, Settle(h)
  PROVE  ResultInv'
<1>1. PICK s \in Next1(h), new \in MessageState, w \in Activity :
         /\ ~Ended(s.id) /\ new.id = s.id
         /\ new.gate = None /\ new.event = "pending" /\ new.callback # "accounted"
         /\ msgs' = [msgs EXCEPT ![s.id] = new]
         /\ gate' = h /\ work' = [work EXCEPT ![h] = w]
         /\ w.kind = work[h].kind /\ w.todo \subseteq work[h].todo /\ w.copy = new
         /\ w.pc = IF work[h].kind = "delivery" THEN "row" ELSE "effects"
  BY SettleWrites
<1>2. PICK m \in Message : m = s.id
  BY NextType
<1>3. /\ msgs'[m] = new
      /\ \A n \in Message : n # m => msgs'[n] = msgs[n]
  BY <1>1, <1>2 DEF OutboxInv, TypeOK
<1>4. /\ ~Recorded(msgs[m]) /\ reported[m] = None /\ m \notin finalized
      /\ ~(batch.open /\ batch.rep = m)
  BY <1>1, <1>2, LiveIsNotRecorded
<1>5. UNCHANGED <<batch, finalized, reported>> /\ gate = h /\ work[h].pc = "settle"
      /\ work[h].kind \notin { "repair", "retry" }
  BY DEF Settle, In, history
<1>6. batch.open => Recorded(msgs[batch.rep]) /\ batch.rep \in Message
  BY <1>5, OpenIsRecorded, OpenBatchType DEF OutboxInv, TypeOK
<1>7. finalized \subseteq Message
  BY DEF OutboxInv, TypeOK
<1>8. ResultStorage'
  <2>1. RecordedAfterEvent'
    BY <1>1, <1>3 DEF ResultInv, ResultStorage, RecordedAfterEvent, Recorded
  <2>2. ResultsAreStored'
    BY <1>3, <1>4, <1>5 DEF ResultInv, ResultStorage, ResultsAreStored, Recorded
  <2>3. FinalizedOnce'
    BY <1>3, <1>4, <1>5, <1>6, <1>7 DEF ResultInv, ResultStorage, FinalizedOnce, Recorded
  <2> QED
    BY <2>1, <2>2, <2>3 DEF ResultStorage
<1>9. FinalResultsStay
  BY <1>3, <1>4, <1>7 DEF FinalResultsStay
<1>10. Current(w.copy)' /\ w.pc # "recorded"
  BY <1>1, <1>2, <1>3 DEF Current, Recorded
<1> QED
  BY <1>1, <1>5, <1>8, <1>9, <1>10, EffectResultStep DEF Effects

LEMMA AlreadySettledKeepsResults ==
  ASSUME OutboxInv, ResultInv, NEW h \in Worker, AlreadySettled(h)
  PROVE  ResultInv'
<1>1. UNCHANGED <<msgs, batch, finalized, reported>> /\ gate = h /\ work[h].pc = "settle"
      /\ work[h].kind \notin { "repair", "retry" }
  BY DEF AlreadySettled, In, storage, history
<1>2. ResultStorage' /\ FinalResultsStay
  BY <1>1, UntouchedResults DEF ResultsUntouched
<1>3. CASE Await(h, Idle)
  BY <1>1, <1>2, <1>3, IdleResultStep
<1>4. CASE \E s \in Next1(h) :
             Continue(h, [ Without(work[h], s) EXCEPT !.pc = "effects", !.copy = msgs[s.id] ])
  <2>1. PICK s \in Next1(h) :
          Continue(h, [ Without(work[h], s) EXCEPT !.pc = "effects", !.copy = msgs[s.id] ])
    BY <1>4
  <2>2. PICK m \in Message : m = s.id
    BY NextType
  <2>3. PICK copy \in MessageState : copy = msgs[m]
    BY MessageType
  <2>4. [ Without(work[h], s) EXCEPT !.pc = "effects", !.copy = copy ]
          = [ Without(work[h], s) EXCEPT !.copy = copy, !.pc = "effects" ]
    OBVIOUS
  <2>5. PICK w \in Activity :
          /\ w = Holding(work[h], s, copy, "effects")
          /\ w.kind = work[h].kind /\ w.todo \subseteq work[h].todo
          /\ w.copy = copy /\ w.pc = "effects"
    <3>1. PICK pc \in { "settle", "row", "effects", "job" } : pc = "effects"
      OBVIOUS
    <3> QED
      BY <3>1, WithoutType
  <2>6. gate' = h /\ work' = [work EXCEPT ![h] = w]
    BY <2>1, <2>2, <2>3, <2>4, <2>5 DEF Continue, Holding
  <2>7. Current(w.copy)'
    <3>1. msgs[m].id = m /\ (Recorded(msgs[m]) => msgs[m].event = "accounted")
      BY MessageType DEF ResultInv, ResultStorage, RecordedAfterEvent
    <3> QED
      BY <1>1, <2>3, <2>5, <3>1 DEF Current, Recorded
  <2> QED
    BY <1>1, <1>2, <2>5, <2>6, <2>7, EffectResultStep DEF Effects
<1> QED
  BY <1>3, <1>4 DEF AlreadySettled

(* The list of a repair holds another entry for no message. *)
LEMMA TakeCopyKeepsResults ==
  ASSUME OutboxInv, ResultInv, NEW h \in Worker, TakeCopy(h)
  PROVE  ResultInv'
<1>1. UNCHANGED <<msgs, batch, finalized, reported>> /\ gate = h /\ work[h].pc = "settle"
      /\ work[h].kind \in { "repair", "retry" }
  BY DEF TakeCopy, In, storage, history
<1>2. ResultStorage' /\ FinalResultsStay
  BY <1>1, UntouchedResults DEF ResultsUntouched
<1>3. PICK pc \in { "settle", "row", "effects", "job" } :
        /\ pc = IF work[h].kind = "repair" THEN "effects" ELSE "job"
        /\ pc \in { "effects", "job" }
  OBVIOUS
<1>4. PICK s \in Next1(h) :
        Continue(h, [ Without(work[h], s) EXCEPT !.copy = s, !.pc = pc ])
  BY <1>3 DEF TakeCopy
<1>5. s \in work[h].todo
  BY NextType
<1>6. PICK copy \in MessageState : copy = s
  BY NextType
<1>7. PICK w \in Activity :
        /\ w = Holding(work[h], s, copy, pc)
        /\ w.kind = work[h].kind /\ w.todo \subseteq work[h].todo
        /\ w.copy = copy /\ w.pc = pc
  BY WithoutType
<1>8. w.todo = work[h].todo \ {s}
  BY <1>7, WorkType DEF Holding, Without, Activity
<1>9. gate' = h /\ work' = [work EXCEPT ![h] = w]
  BY <1>4, <1>6, <1>7 DEF Continue, Holding
<1>10. CASE work[h].kind = "repair"
  <2>1. Current(s) /\ \A t \in w.todo : t.id # s.id
    BY <1>5, <1>8, <1>10 DEF ResultInv, ListKept
  <2>2. Current(w.copy)'
    BY <1>1, <1>6, <1>7, <2>1 DEF Current
  <2>3. w.kind = "repair" => \A t \in w.todo : msgs'[t.id] = msgs[t.id] /\ t.id # w.copy.id
    BY <1>1, <1>6, <1>7, <2>1
  <2>4. w.kind = work[h].kind /\ w.todo \subseteq work[h].todo /\ w.pc \in Effects
    BY <1>3, <1>7, <1>10 DEF Effects
  <2>5. w.pc # "recorded"
    BY <1>3, <1>7, <1>10
  <2>6. gate = h
    BY <1>1
  <2> QED
    BY <1>2, <1>9, <2>2, <2>3, <2>4, <2>5, <2>6, EffectResultStep
<1>11. CASE work[h].kind = "retry"
  <2>1. Final(s)
    BY <1>5, <1>11 DEF ResultInv, ListKept
  <2>2. CopyKept(w)'
    BY <1>1, <1>3, <1>6, <1>7, <1>11, <2>1 DEF CopyKept, Final, Effects
  <2> QED
    BY <1>1, <1>2, <1>3, <1>7, <1>9, <1>11, <2>2, GoingResultStep
<1> QED
  BY <1>1, <1>10, <1>11

LEMMA RemoveRowsKeepsResults ==
  ASSUME OutboxInv, ResultInv, NEW h \in Worker, RemoveRows(h)
  PROVE  ResultInv'
<1>1. UNCHANGED <<msgs, batch, finalized, reported>> /\ gate = h /\ work[h].pc = "row"
  BY DEF RemoveRows, In, history
<1>2. ResultStorage' /\ FinalResultsStay
  BY <1>1, UntouchedResults DEF ResultsUntouched
<1>3. work[h].kind \in { "cancel", "delivery", "interruptRun" }
  BY <1>1, WorkType DEF Holds
<1>4. CASE work[h].kind = "cancel"
  BY <1>1, <1>2, <1>4, IdleResultStep DEF RemoveRows
<1>5. CASE work[h].kind = "delivery"
  <2>1. PICK w \in Activity :
          /\ w = [ work[h] EXCEPT !.pc = "effects" ]
          /\ w.kind = work[h].kind /\ w.todo = work[h].todo
          /\ w.copy = work[h].copy /\ w.pc = "effects"
    BY PcWork DEF Pc
  <2>2. gate' = h /\ work' = [work EXCEPT ![h] = w]
    BY <1>5, <2>1 DEF RemoveRows, Continue
  <2>3. Current(w.copy)
    BY <1>1, <1>5, <2>1 DEF ResultInv, CopyKept
  <2>4. Current(w.copy)'
    BY <1>1, <2>3 DEF Current
  <2> QED
    BY <1>1, <1>2, <1>5, <2>1, <2>2, <2>4, EffectResultStep DEF Effects
<1>6. CASE work[h].kind = "interruptRun"
  BY <1>1, <1>2, <1>6, TailResultStep DEF RemoveRows, Continue, Effects
<1> QED
  BY <1>3, <1>4, <1>5, <1>6

-----------------------------------------------------------------------------
(* The steps of the terminal effects. *)

(* The copy of the segment under way. *)
LEMMA EffectCopy ==
  ASSUME OutboxInv, ResultInv, NEW h \in Worker, work[h].pc \in Effects
  PROVE  /\ Copy(h) \in MessageState /\ Copy(h).id \in Message /\ Current(Copy(h))
         /\ Copy(h).gate = msgs[Copy(h).id].gate
         /\ Recorded(Copy(h)) => Copy(h).event = "accounted"
         /\ work[h].pc = "recorded" => Copy(h).event = "accounted"
         /\ work[h].kind = "repair" => \A s \in work[h].todo : s.id # Copy(h).id
<1>1. Copy(h) \in MessageState /\ Copy(h).id \in Message
  BY HeldCopy
<1>2. CopyKept(work[h]) /\ ListKept(work[h])
  BY DEF ResultInv
<1> QED
  BY <1>1, <1>2 DEF CopyKept, ListKept, Current, Copy

LEMMA EmitEventKeepsResults ==
  ASSUME OutboxInv, ResultInv, NEW h \in Worker, EmitEvent(h)
  PROVE  ResultInv'
<1>1. UNCHANGED <<msgs, batch, finalized, reported>> /\ gate = h /\ work[h].pc = "effects"
  BY DEF EmitEvent, In, history
<1>2. ResultStorage' /\ FinalResultsStay
  BY <1>1, UntouchedResults DEF ResultsUntouched
<1>3. PICK w \in Activity :
        /\ w = [ work[h] EXCEPT !.pc = "emitted" ]
        /\ w.kind = work[h].kind /\ w.todo = work[h].todo
        /\ w.copy = work[h].copy /\ w.pc = "emitted"
  BY PcWork DEF Pc
<1>4. gate' = h /\ work' = [work EXCEPT ![h] = w]
  BY <1>3 DEF EmitEvent, Continue
<1>5. Current(Copy(h)) /\ (w.kind = "repair" => \A s \in w.todo : s.id # w.copy.id)
  BY <1>1, <1>3, EffectCopy DEF Effects, Copy
<1>6. Current(w.copy)'
  BY <1>1, <1>3, <1>5 DEF Current, Copy
<1> QED
  BY <1>1, <1>2, <1>3, <1>4, <1>5, <1>6, EffectResultStep DEF Effects

(* A copy of the segment under way is written back. *)
LEMMA WriteBackResult ==
  ASSUME OutboxInv, ResultInv, NEW h \in Worker, gate = h, work[h].pc \in Effects,
         NEW s \in MessageState, s.id = Copy(h).id, s.gate = Copy(h).gate, Save(s),
         Recorded(s) => s.event = "accounted", Recorded(Copy(h)) => Recorded(s),
         UNCHANGED <<batch, finalized, reported>>,
         work[h].pc = "recorded" => Recorded(s)
  PROVE  /\ ResultStorage' /\ FinalResultsStay /\ Current(s)'
         /\ work[h].kind = "repair" => \A t \in work[h].todo : msgs'[t.id] = msgs[t.id]
<1>1. /\ Current(Copy(h)) /\ Copy(h).id \in Message
      /\ work[h].kind = "repair" => \A t \in work[h].todo : t.id # Copy(h).id
  BY EffectCopy
<1>2. /\ RecordedAfterEvent' /\ ResultsAreStored' /\ FinalResultsStay
      /\ \A m \in Message : Recorded(msgs[m]) => Recorded(msgs'[m])
      /\ \A m \in Message : m # s.id => msgs'[m] = msgs[m]
      /\ msgs'[s.id] = s
  BY <1>1, SavedResults DEF Current
<1>3. batch.open => Recorded(msgs'[batch.rep])
  <2> SUFFICES ASSUME batch.open PROVE Recorded(msgs'[batch.rep])
    OBVIOUS
  <2>1. batch.rep \in Message
    BY OpenBatchType DEF OutboxInv, TypeOK
  <2>2. Recorded(msgs[batch.rep]) \/ Recording(batch.rep)
    BY DEF ResultInv, ResultStorage, FinalizedOnce
  <2>3. CASE Recorded(msgs[batch.rep])
    BY <1>2, <2>1, <2>3
  <2>4. CASE Recording(batch.rep)
    BY <1>2, <2>4 DEF Recording, Copy
  <2> QED
    BY <2>2, <2>3, <2>4
<1>4. ResultStorage'
  BY <1>2, <1>3, SavedBatch
<1>5. \A t \in work[h].todo : t.id \in Message
  BY WorkType DEF Activity, MessageState
<1>6. work[h].kind = "repair" => \A t \in work[h].todo : msgs'[t.id] = msgs[t.id]
  BY <1>1, <1>2, <1>5
<1>7. Current(s)'
  BY <1>2 DEF Current
<1> QED
  BY <1>2, <1>4, <1>6, <1>7

LEMMA WrittenBack ==
  ASSUME OutboxInv, ResultInv, NEW h \in Worker, gate = h, work[h].pc \in Effects,
         NEW s \in MessageState, s.id = Copy(h).id, s.gate = Copy(h).gate, Save(s),
         Recorded(s) => s.event = "accounted", Recorded(Copy(h)) => Recorded(s),
         UNCHANGED <<batch, finalized, reported>>,
         work[h].pc = "recorded" => Recorded(s),
         Continue(h, With(work[h], "effects", s))
  PROVE  ResultInv'
<1>1. /\ ResultStorage' /\ FinalResultsStay /\ Current(s)'
      /\ work[h].kind = "repair" => \A t \in work[h].todo : msgs'[t.id] = msgs[t.id]
  BY WriteBackResult
<1>2. PICK pc \in Pc : pc = "effects"
  BY DEF Pc
<1>3. PICK w \in Activity :
        /\ w = With(work[h], pc, s)
        /\ w.kind = work[h].kind /\ w.todo = work[h].todo
        /\ w.copy = s /\ w.pc = pc
  BY CopyWork
<1>4. gate' = h /\ work' = [work EXCEPT ![h] = w]
  BY <1>2, <1>3 DEF Continue
<1>5. w.kind = "repair" => \A t \in w.todo : msgs'[t.id] = msgs[t.id] /\ t.id # w.copy.id
  BY <1>1, <1>3, EffectCopy
<1>6. Current(w.copy)'
  BY <1>1, <1>3
<1> QED
  BY <1>1, <1>2, <1>3, <1>4, <1>5, <1>6, EffectResultStep DEF Effects

LEMMA MarkEmittedKeepsResults ==
  ASSUME OutboxInv, ResultInv, NEW h \in Worker, MarkEmitted(h)
  PROVE  ResultInv'
<1> DEFINE c == Copy(h)
<1>1. gate = h /\ work[h].pc = "emitted" /\ UNCHANGED <<batch, finalized, reported>>
  BY DEF MarkEmitted, In, history
<1>2. c \in MessageState /\ (Recorded(c) => c.event = "accounted")
  BY <1>1, EffectCopy DEF Effects
<1>3. PICK callback \in { None, "pending", "accounted" } :
        callback = IF c.event = None /\ c.id \in Required THEN "pending" ELSE c.callback
  BY <1>2 DEF MessageState
<1>4. PICK s \in MessageState : s = [ c EXCEPT !.event = "accounted", !.callback = callback ]
  BY <1>2, EditType
<1>5. Save(s) /\ Continue(h, With(work[h], "effects", s))
  BY <1>3, <1>4 DEF MarkEmitted, With
<1>6. s.id = c.id /\ s.gate = c.gate /\ s.event = "accounted" /\ s.callback = callback
  BY <1>2, <1>4 DEF MessageState
<1>7. Recorded(c) => Recorded(s)
  BY <1>2, <1>3, <1>6 DEF Recorded, None
<1> QED
  BY <1>1, <1>5, <1>6, <1>7, WrittenBack DEF Effects

LEMMA MarkRecordedKeepsResults ==
  ASSUME OutboxInv, ResultInv, NEW h \in Worker, MarkRecorded(h)
  PROVE  ResultInv'
<1> DEFINE c == Copy(h)
<1>1. gate = h /\ work[h].pc = "recorded" /\ UNCHANGED <<batch, finalized, reported>>
  BY DEF MarkRecorded, In, history
<1>2. c \in MessageState /\ c.event = "accounted"
  BY <1>1, EffectCopy DEF Effects
<1>3. PICK s \in MessageState : s = [ c EXCEPT !.callback = "accounted" ]
  BY <1>2, EditType
<1>4. Save(s) /\ Continue(h, With(work[h], "effects", s))
  BY <1>3 DEF MarkRecorded, With
<1>5. s.id = c.id /\ s.gate = c.gate /\ s.event = "accounted" /\ Recorded(s)
  BY <1>2, <1>3 DEF MessageState, Recorded
<1> QED
  BY <1>1, <1>4, <1>5, WrittenBack DEF Effects

(* A message that a batch stood for is not recorded again. *)
LEMMA RecordCandidateKeepsResults ==
  ASSUME OutboxInv, ResultInv, NEW h \in Worker, RecordCandidate(h)
  PROVE  ResultInv'
<1> DEFINE c == Copy(h)
<1>1. UNCHANGED <<msgs, finalized, reported>> /\ gate = h /\ work[h].pc = "effects"
  BY DEF RecordCandidate, In, history
<1>2. c \in MessageState /\ c.id \in Message /\ Current(c)
  BY <1>1, EffectCopy DEF Effects
<1>3. c.event = "accounted" /\ ~Recorded(c)
  BY DEF RecordCandidate, Recorded
<1>4. ~Recorded(msgs[c.id])
  BY <1>2, <1>3 DEF Current
<1>5. c.id \notin finalized
  BY <1>4 DEF ResultInv, ResultStorage, FinalizedOnce
<1>6. batch'.rep = c.id \/ (batch.open /\ batch'.rep = batch.rep)
  <2>1. CASE batch.open
    <3>1. PICK b : b = batch
      OBVIOUS
    <3>2. b \in [ open : {TRUE}, rep : Message, allow : BOOLEAN,
                  observed : BOOLEAN, released : BOOLEAN ]
      BY <2>1, <3>1, OpenBatchType DEF OutboxInv, TypeOK
    <3>3. PICK rep \in Message, allow \in BOOLEAN :
            /\ rep = IF c.at >= msgs[b.rep].at THEN c.id ELSE b.rep
            /\ allow = (b.allow \/ c.allow)
      BY <1>2, <3>2 DEF MessageState
    <3>4. batch' = [ b EXCEPT !.rep = rep, !.allow = allow ]
      BY <2>1, <3>1, <3>3 DEF RecordCandidate, WithCandidate
    <3> QED
      BY <2>1, <3>1, <3>2, <3>3, <3>4
  <2>2. CASE ~batch.open
    BY <2>2 DEF RecordCandidate, WithCandidate, NewBatch
  <2> QED
    BY <2>1, <2>2
<1>7. PICK w \in Activity :
        /\ w = [ work[h] EXCEPT !.pc = "recorded" ]
        /\ w.kind = work[h].kind /\ w.todo = work[h].todo
        /\ w.copy = work[h].copy /\ w.pc = "recorded"
  BY PcWork DEF Pc
<1>8. gate' = h /\ work' = [work EXCEPT ![h] = w]
  BY <1>7 DEF RecordCandidate, Continue
<1>9. batch.open => Recorded(msgs[batch.rep])
  BY <1>1, OpenIsRecorded
<1>10. FinalizedOnce'
  <2>1. \A m \in finalized' : Recorded(msgs'[m])
    BY <1>1 DEF ResultInv, ResultStorage, FinalizedOnce
  <2>2. CASE batch'.rep = c.id
    <3>1. gate' = h /\ work'[h] = w
      BY <1>8 DEF OutboxInv, TypeOK
    <3>2. batch'.rep \notin finalized'
      BY <1>1, <1>5, <2>2
    <3>3. gate' # "open" /\ work'[gate'].pc = "recorded" /\ work'[gate'].copy.id = batch'.rep
      BY <1>7, <2>2, <3>1, OpenIsNoWorker DEF Copy
    <3> QED
      BY <2>1, <3>2, <3>3 DEF FinalizedOnce, Recording, Recorded
  <2>3. CASE batch.open /\ batch'.rep = batch.rep
    BY <1>1, <1>9, <2>1, <2>3 DEF ResultInv, ResultStorage, FinalizedOnce
  <2> QED
    BY <1>6, <2>2, <2>3
<1>11. ResultStorage' /\ FinalResultsStay
  BY <1>1, <1>10 DEF ResultInv, ResultStorage, RecordedAfterEvent, ResultsAreStored, FinalResultsStay
<1>12. Current(w.copy)' /\ w.copy.event = "accounted"
  BY <1>1, <1>2, <1>3, <1>7 DEF Current, Copy
<1>13. w.kind = "repair" => \A s \in w.todo : s.id # w.copy.id
  BY <1>1, <1>7, EffectCopy DEF Effects, Copy
<1> QED
  BY <1>1, <1>7, <1>8, <1>11, <1>12, <1>13, EffectResultStep DEF Effects

LEMMA SuppressPushKeepsResults ==
  ASSUME OutboxInv, ResultInv, NEW h \in Worker, SuppressPush(h)
  PROVE  ResultInv'
<1> DEFINE c == Copy(h)
<1>1. gate = h /\ work[h].pc = "effects" /\ UNCHANGED <<batch, finalized, reported>>
  BY DEF SuppressPush, OwesPush, In, history
<1>2. c \in MessageState /\ (Recorded(c) => c.event = "accounted")
  BY <1>1, EffectCopy DEF Effects
<1>3. PICK s \in MessageState : s = [ c EXCEPT !.push = "settled" ]
  BY <1>2, EditType
<1>4. Save(s) /\ Proceed(h, work[h])
  BY <1>3 DEF SuppressPush, SavePushed
<1>5. s.id = c.id /\ s.gate = c.gate /\ s.event = c.event /\ s.callback = c.callback
  BY <1>2, <1>3 DEF MessageState
<1>6. /\ ResultStorage' /\ FinalResultsStay
      /\ work[h].kind = "repair" => \A t \in work[h].todo : msgs'[t.id] = msgs[t.id]
  BY <1>1, <1>2, <1>4, <1>5, WriteBackResult DEF Effects, Recorded
<1> QED
  BY <1>1, <1>4, <1>6, ProceedResultStep

LEMMA NothingOwedKeepsResults ==
  ASSUME OutboxInv, ResultInv, NEW h \in Worker, NothingOwed(h)
  PROVE  ResultInv'
<1>1. UNCHANGED <<msgs, batch, finalized, reported>> /\ gate = h /\ work[h].pc = "effects"
  BY DEF NothingOwed, In, storage, history
<1>2. ResultStorage' /\ FinalResultsStay
  BY <1>1, UntouchedResults DEF ResultsUntouched
<1> QED
  BY <1>1, <1>2, ProceedResultStep DEF NothingOwed

(* No push is sent, so none is answered. *)
LEMMA NoPush ==
  ASSUME OutboxInv, ResultInv, ~Push, NEW h \in Worker
  PROVE  ~SendPush(h) /\ ~PushAccounted(h) /\ ~PushFails(h)
<1>1. work[h].pc = "push" => gate = h
  BY DEF ResultInv, SegmentsAreHeld, Waits
<1>2. gate # "open" \/ work[h].pc # "push"
  BY <1>1, OpenIsNoWorker
<1> QED
  BY <1>2 DEF SendPush, PushAccounted, PushFails

-----------------------------------------------------------------------------
(* The steps once the messages of an activity are settled. *)

(* Nothing of a message or a batch is written. *)
LEMMA QuietTail ==
  ASSUME OutboxInv, ResultInv, UNCHANGED <<msgs, batch, finalized, reported>>,
         NEW h \in Worker, gate \in { h, "open" }, gate' \in { h, "open" },
         NEW pc \in { "row", "tail", "result", "observe", "release", "command", "close" },
         pc # "command" => gate' = h, pc = "row" => work[h].kind # "delivery",
         work' = [work EXCEPT ![h] = [ work[h] EXCEPT !.pc = pc ]],
         work[h].pc \notin { "settle" } \cup Effects
  PROVE  ResultInv'
<1>1. ResultStorage' /\ FinalResultsStay
  BY UntouchedResults DEF ResultsUntouched, Effects
<1> QED
  BY <1>1, TailResultStep

LEMMA ReportTailKeepsResults ==
  ASSUME OutboxInv, ResultInv, NEW h \in Worker, ReportTail(h)
  PROVE  ResultInv'
  BY QuietTail DEF ReportTail, Tail, In, Continue, history, Effects

LEMMA ForgetKeepsResults ==
  ASSUME OutboxInv, ResultInv, NEW h \in Worker, Forget(h)
  PROVE  ResultInv'
  BY QuietTail DEF Forget, Tail, In, Continue, history, Effects

LEMMA InterruptCommandKeepsResults ==
  ASSUME OutboxInv, ResultInv, NEW h \in Worker, InterruptCommand(h)
  PROVE  ResultInv'
  BY QuietTail DEF InterruptCommand, Tail, In, Await, storage, history, Effects

LEMMA InterruptTailKeepsResults ==
  ASSUME OutboxInv, ResultInv, NEW h \in Worker, InterruptTail(h)
  PROVE  ResultInv'
<1>1. work[h].kind = "interruptRun"
  BY WorkType DEF InterruptTail, Holds
<1> QED
  BY <1>1, QuietTail DEF InterruptTail, Continue, history, Effects

LEMMA InterruptRunKeepsResults ==
  ASSUME OutboxInv, ResultInv, NEW h \in Worker, InterruptRun(h)
  PROVE  ResultInv'
<1>1. UNCHANGED <<msgs, batch, finalized, reported>> /\ gate = h /\ work[h].pc = "tail"
  BY DEF InterruptRun, Tail, In, storage, history
<1>2. ResultStorage' /\ FinalResultsStay
  BY <1>1, UntouchedResults DEF ResultsUntouched
<1>3. Accepted(run) \in SUBSET Message
  BY DEF Accepted
<1>4. PICK todo \in SUBSET MessageState : todo = States(Accepted(run))
  BY <1>3, StatesType
<1>5. PICK pc \in { "tail", "settle" } : pc = IF Accepted(run) = {} THEN "tail" ELSE "settle"
  OBVIOUS
<1>6. PICK r \in 0..MaxRuns : r = run
  BY RunType
<1>7. PICK w : w = [ work[h] EXCEPT !.kind = "interruptRun", !.run = r, !.todo = todo, !.pc = pc ]
  OBVIOUS
<1>8. w \in Activity /\ w.kind = "interruptRun" /\ w.pc = pc
  BY <1>7, WorkType DEF Activity, Pc, Interrupting
<1>9. gate' = h /\ work' = [work EXCEPT ![h] = w]
  BY <1>4, <1>5, <1>6, <1>7 DEF InterruptRun, Continue
<1> QED
  BY <1>1, <1>2, <1>5, <1>8, <1>9, PlainResultStep DEF Effects, Jobs

(* The mark on an open batch. *)
LEMMA MarkedBatch ==
  ASSUME OutboxInv, batch.open,
         \/ batch' = [ batch EXCEPT !.observed = TRUE ]
         \/ batch' = [ batch EXCEPT !.released = TRUE ]
  PROVE  batch'.rep = batch.rep
<1>1. batch \in [ open : {TRUE}, rep : Message, allow : BOOLEAN,
                  observed : BOOLEAN, released : BOOLEAN ]
  BY OpenBatchType DEF OutboxInv, TypeOK
<1> QED
  BY <1>1

LEMMA ObserveKeepsResults ==
  ASSUME OutboxInv, ResultInv, NEW h \in Worker, Observe(h)
  PROVE  ResultInv'
<1>1. UNCHANGED <<msgs, finalized, reported>> /\ gate = h /\ work[h].pc = "observe"
  BY DEF Observe, In, history
<1>2. batch'.open => batch.open /\ batch'.rep = batch.rep
  BY MarkedBatch DEF Observe
<1>3. ResultStorage' /\ FinalResultsStay
  BY <1>1, <1>2, UntouchedResults DEF ResultsUntouched
<1> QED
  BY <1>1, <1>3, TailResultStep DEF Observe, Continue, Effects

LEMMA ReleaseKeepsResults ==
  ASSUME OutboxInv, ResultInv, NEW h \in Worker, Release(h)
  PROVE  ResultInv'
<1>1. UNCHANGED <<msgs, finalized, reported>> /\ gate = h /\ work[h].pc = "release"
  BY DEF Release, In, history
<1>2. batch'.open => batch.open /\ batch'.rep = batch.rep
  BY MarkedBatch DEF Release
<1>3. ResultStorage' /\ FinalResultsStay
  BY <1>1, <1>2, UntouchedResults DEF ResultsUntouched
<1>4. CASE Await(h, Idle)
  BY <1>1, <1>3, <1>4, IdleResultStep
<1>5. CASE Continue(h, [ work[h] EXCEPT !.pc = "close" ])
  BY <1>1, <1>3, <1>5, TailResultStep DEF Continue, Effects
<1> QED
  BY <1>4, <1>5 DEF Release

(* A result is recorded for the message of an open batch, once. *)
LEMMA RecordResultKeepsResults ==
  ASSUME OutboxInv, ResultInv, NEW h \in Worker, RecordResult(h)
  PROVE  ResultInv'
<1>1. UNCHANGED <<batch, finalized>> /\ gate = h /\ work[h].pc = "result"
  BY DEF RecordResult, In
<1>2. ResultStorage' /\ FinalResultsStay
  <2>1. CASE TakesResult(h)
    <3>1. PICK n \in Message : n = batch.rep
      BY <2>1, OpenBatchType DEF TakesResult, OutboxInv, TypeOK
    <3>2. PICK result \in Result \cup { None } : result = work[h].result
      BY WorkType DEF Activity
    <3>3. Recorded(msgs[n]) /\ n \notin finalized /\ msgs[n].gate = None
      BY <1>1, <2>1, <3>1, OpenIsRecorded
      DEF TakesResult, ResultInv, ResultStorage, FinalizedOnce
    <3>4. reported[n] = None
      BY <3>3 DEF ResultInv, ResultStorage, ResultsAreStored
    <3>5. msgs' = [msgs EXCEPT ![n].gate = result]
      BY <2>1, <3>1, <3>2 DEF RecordResult
    <3>6. reported' = [reported EXCEPT ![n] = result]
      BY <2>1, <3>1, <3>2, <3>4 DEF RecordResult
    <3>7. msgs \in [Message -> MessageState] /\ msgs[n] \in MessageState
      BY MessageType DEF OutboxInv, TypeOK
    <3>8. \A m \in Message : m # n => msgs'[m] = msgs[m] /\ reported'[m] = reported[m]
      BY <3>5, <3>6, <3>7 DEF OutboxInv, TypeOK
    <3>9. /\ msgs'[n].gate = result /\ reported'[n] = result
          /\ msgs'[n].event = msgs[n].event /\ msgs'[n].callback = msgs[n].callback
      BY <3>5, <3>6, <3>7 DEF OutboxInv, TypeOK, MessageState
    <3>10. finalized \subseteq Message
      BY DEF OutboxInv, TypeOK
    <3>11. RecordedAfterEvent' /\ ResultsAreStored'
      BY <3>3, <3>8, <3>9
      DEF ResultInv, ResultStorage, RecordedAfterEvent, ResultsAreStored, Recorded
    <3>12. FinalizedOnce'
      BY <1>1, <3>1, <3>3, <3>8, <3>9, <3>10 DEF ResultInv, ResultStorage, FinalizedOnce, Recorded
    <3> QED
      BY <3>3, <3>8, <3>10, <3>11, <3>12 DEF ResultStorage, FinalResultsStay
  <2>2. CASE ~TakesResult(h)
    BY <1>1, <2>2, UntouchedResults DEF RecordResult, ResultsUntouched
  <2> QED
    BY <2>1, <2>2
<1> QED
  BY <1>1, <1>2, TailResultStep DEF RecordResult, Continue, Effects

(* A batch is closed: the results of its message stand from now on. *)
LEMMA CloseKeepsResults ==
  ASSUME OutboxInv, ResultInv, NEW h \in Worker, Close(h)
  PROVE  ResultInv'
<1>1. UNCHANGED <<msgs, reported>> /\ gate = h /\ work[h].pc = "close"
  BY DEF Close, In, history
<1>2. MayClose(h) => batch.open
  BY DEF MayClose, RunReady, IdleReady
<1>3. batch.open => Recorded(msgs[batch.rep]) /\ batch.rep \in Message
  BY <1>1, OpenIsRecorded, OpenBatchType DEF OutboxInv, TypeOK
<1>4. FinalResultsStay
  BY <1>1 DEF FinalResultsStay
<1>5. FinalizedOnce'
  <2>1. CASE MayClose(h)
    <3>1. finalized' = finalized \cup { batch.rep } /\ ~batch'.open
      BY <2>1 DEF Close, NoBatch
    <3>2. ASSUME NEW m \in finalized' PROVE Recorded(msgs'[m])
      BY <1>1, <1>2, <1>3, <2>1, <3>1 DEF ResultInv, ResultStorage, FinalizedOnce
    <3> QED
      BY <3>1, <3>2 DEF FinalizedOnce, Recorded
  <2>2. CASE ~MayClose(h)
    <3>1. UNCHANGED <<batch, finalized>>
      BY <2>2 DEF Close
    <3> QED
      BY <1>1, <1>3, <3>1 DEF ResultInv, ResultStorage, FinalizedOnce, Recorded
  <2> QED
    BY <2>1, <2>2
<1>6. ResultStorage'
  BY <1>1, <1>5 DEF ResultInv, ResultStorage, RecordedAfterEvent, ResultsAreStored
<1>7. CASE MayClose(h) /\ NeedsJob(msgs[batch.rep])
  <2>1. PICK n \in Message : n = batch.rep
    BY <1>2, <1>3, <1>7
  <2>2. PICK copy \in MessageState : copy = msgs[n]
    BY MessageType
  <2>3. PICK pc \in Pc : pc = "job"
    BY DEF Pc
  <2>4. PICK w \in Activity :
          /\ w = With(work[h], pc, copy)
          /\ w.kind = work[h].kind /\ w.todo = work[h].todo
          /\ w.copy = copy /\ w.pc = pc
    BY CopyWork
  <2>5. gate' = h /\ work' = [work EXCEPT ![h] = w]
    BY <1>7, <2>1, <2>2, <2>3, <2>4 DEF Close, Continue, With
  <2>6. copy.id = n /\ Recorded(copy) /\ copy.event = "accounted"
    BY <1>2, <1>3, <1>7, <2>1, <2>2, MessageType
    DEF ResultInv, ResultStorage, RecordedAfterEvent
  <2>7. CopyKept(w)'
    BY <1>1, <2>2, <2>3, <2>4, <2>6 DEF CopyKept, Final, Effects, Recorded
  <2>8. w.kind = "repair" => w.todo = {}
    BY <1>1, <2>4 DEF ResultInv, ListKept, Effects
  <2> QED
    BY <1>1, <1>4, <1>6, <2>3, <2>4, <2>5, <2>7, <2>8, GoingResultStep
<1>8. CASE Await(h, Idle)
  BY <1>1, <1>4, <1>6, <1>8, IdleResultStep
<1> QED
  BY <1>7, <1>8 DEF Close, Ends

-----------------------------------------------------------------------------
(* The steps of a job. *)

(* A job is on its way with the copy of a finalized batch. *)
LEMMA JobWaits ==
  ASSUME OutboxInv, ResultInv, UNCHANGED <<msgs, batch, finalized, reported>>,
         NEW h \in Worker, gate \in { h, "open" }, work[h].pc \in Jobs,
         NEW pc \in { "send", "sent" }, Await(h, [ work[h] EXCEPT !.pc = pc ])
  PROVE  ResultInv'
<1>1. ResultStorage' /\ FinalResultsStay
  BY UntouchedResults DEF ResultsUntouched, Jobs
<1>2. PICK p \in Pc : p = pc
  BY DEF Pc
<1>3. PICK w \in Activity :
        /\ w = [ work[h] EXCEPT !.pc = p ]
        /\ w.kind = work[h].kind /\ w.todo = work[h].todo
        /\ w.copy = work[h].copy /\ w.pc = p
  BY PcWork
<1>4. gate' = "open" /\ work' = [work EXCEPT ![h] = w]
  BY <1>2, <1>3 DEF Await
<1>5. CopyKept(work[h]) /\ ListKept(work[h])
  BY DEF ResultInv
<1>6. CopyKept(w)'
  BY <1>2, <1>3, <1>5 DEF CopyKept, Final, Effects, Jobs
<1>7. w.kind = "repair" => w.todo = {}
  BY <1>3, <1>5 DEF ListKept, Jobs, Effects
<1>8. w.pc \in Waits
  BY <1>2, <1>3 DEF Waits
<1> QED
  BY <1>1, <1>3, <1>4, <1>6, <1>7, <1>8, GoingResultStep

(* What a job writes back is the result of the finalized batch. *)
LEMMA JobKeepsResults ==
  ASSUME OutboxInv, ResultInv, NEW h \in Worker, gate \in { h, "open" }, work[h].pc \in Jobs,
         \/ Save([ Copy(h) EXCEPT !.enqueued = TRUE ])
         \/ Save([ Copy(h) EXCEPT !.retry = TRUE ]),
         UNCHANGED <<batch, finalized, reported>>, AfterJob(h)
  PROVE  ResultInv'
<1> DEFINE c == Copy(h)
<1>1. c \in MessageState /\ Final(c)
  BY HeldCopy DEF ResultInv, CopyKept, Copy
<1>2. PICK s \in MessageState :
        s \in { [ c EXCEPT !.enqueued = TRUE ], [ c EXCEPT !.retry = TRUE ] } /\ Save(s)
  <2>1. [ c EXCEPT !.enqueued = TRUE ] \in MessageState /\ [ c EXCEPT !.retry = TRUE ] \in MessageState
    BY <1>1, EditType
  <2> QED
    BY <2>1
<1>3. s.id = c.id /\ s.gate = c.gate /\ s.event = c.event /\ s.callback = c.callback
  BY <1>1, <1>2 DEF MessageState
<1>4. s.gate = msgs[s.id].gate /\ Recorded(s) /\ s.event = "accounted"
  BY <1>1, <1>3 DEF Final, Recorded
<1>5. /\ RecordedAfterEvent' /\ ResultsAreStored' /\ FinalResultsStay
      /\ \A m \in Message : Recorded(msgs[m]) => Recorded(msgs'[m])
  BY <1>2, <1>4, SavedResults
<1>6. batch.open => Recorded(msgs'[batch.rep])
  BY <1>5, OpenIsRecorded, OpenBatchType DEF Jobs, OutboxInv, TypeOK
<1>7. ResultStorage'
  BY <1>5, <1>6, SavedBatch
<1>8. work[h].kind = "repair" => work[h].todo = {}
  BY DEF ResultInv, ListKept, Jobs, Effects
<1>9. CASE Await(h, Idle)
  BY <1>5, <1>7, <1>9, IdleResultStep
<1>10. CASE work[h].todo # {} /\ Continue(h, [ work[h] EXCEPT !.pc = "settle" ])
  <2>1. PICK w \in Activity :
          /\ w = [ work[h] EXCEPT !.pc = "settle" ]
          /\ w.kind = work[h].kind /\ w.todo = work[h].todo
          /\ w.copy = work[h].copy /\ w.pc = "settle"
    BY PcWork DEF Pc
  <2>2. gate' = h /\ work' = [work EXCEPT ![h] = w]
    BY <1>10, <2>1 DEF Continue
  <2> QED
    BY <1>5, <1>7, <1>8, <1>10, <2>1, <2>2, PlainResultStep DEF Effects, Jobs
<1> QED
  BY <1>9, <1>10 DEF AfterJob, Ends

LEMMA JobsKeepResults ==
  ASSUME OutboxInv, ResultInv, NEW h \in Worker,
         \/ AbandonJob(h) \/ SendJob(h) \/ JobFails(h) \/ JobSent(h) \/ JobRecorded(h)
  PROVE  ResultInv'
<1>1. CASE AbandonJob(h)
  BY <1>1, JobKeepsResults DEF AbandonJob, In, Jobs, history
<1>2. CASE SendJob(h)
  BY <1>2, JobWaits DEF SendJob, In, Jobs, storage, history
<1>3. CASE JobFails(h)
  BY <1>3, JobKeepsResults DEF JobFails, Jobs, history
<1>4. CASE JobSent(h)
  BY <1>4, JobWaits DEF JobSent, Jobs, storage, history
<1>5. CASE JobRecorded(h)
  BY <1>5, JobKeepsResults DEF JobRecorded, Jobs, history
<1> QED
  BY <1>1, <1>2, <1>3, <1>4, <1>5

-----------------------------------------------------------------------------
LEMMA ResultInit == Init => ResultInv
<1> SUFFICES ASSUME Init PROVE ResultInv
  OBVIOUS
<1>1. SegmentsAreHeld
  BY DEF Init, SegmentsAreHeld, Idle, Waits
<1>2. ResultStorage
  BY DEF Init, ResultStorage, RecordedAfterEvent, ResultsAreStored, FinalizedOnce, NoBatch,
         Recorded, NewMessage, None
<1>3. \A h \in Worker : CopyKept(work[h]) /\ ListKept(work[h])
  BY DEF Init, Idle, CopyKept, ListKept, Effects, Jobs
<1> QED
  BY <1>1, <1>2, <1>3 DEF ResultInv

LEMMA GoesKeepsResults ==
  ASSUME OutboxInv, ResultInv, ~Push, NEW h \in Worker, Goes(h)
  PROVE  ResultInv'
<1>1. CASE Settle(h) \/ AlreadySettled(h) \/ TakeCopy(h) \/ RemoveRows(h)
  BY <1>1, SettleKeepsResults, AlreadySettledKeepsResults, TakeCopyKeepsResults,
     RemoveRowsKeepsResults
<1>2. CASE EmitEvent(h) \/ MarkEmitted(h) \/ RecordCandidate(h) \/ MarkRecorded(h)
  BY <1>2, EmitEventKeepsResults, MarkEmittedKeepsResults, RecordCandidateKeepsResults,
     MarkRecordedKeepsResults
<1>3. CASE SuppressPush(h) \/ NothingOwed(h)
  BY <1>3, SuppressPushKeepsResults, NothingOwedKeepsResults
<1>4. CASE ReportTail(h) \/ RecordResult(h) \/ Observe(h) \/ Forget(h) \/ Release(h)
  BY <1>4, ReportTailKeepsResults, RecordResultKeepsResults, ObserveKeepsResults,
     ForgetKeepsResults, ReleaseKeepsResults
<1>5. CASE InterruptRun(h) \/ InterruptCommand(h) \/ InterruptTail(h) \/ Close(h)
  BY <1>5, InterruptRunKeepsResults, InterruptCommandKeepsResults, InterruptTailKeepsResults,
     CloseKeepsResults
<1>6. CASE \/ AbandonJob(h) \/ SendJob(h) \/ JobFails(h) \/ JobSent(h) \/ JobRecorded(h)
  BY <1>6, JobsKeepResults
<1>7. ~SendPush(h) /\ ~PushAccounted(h) /\ ~PushFails(h)
  BY NoPush
<1> QED
  BY <1>1, <1>2, <1>3, <1>4, <1>5, <1>6, <1>7 DEF Goes

LEMMA AlarmKeepsResults ==
  ASSUME OutboxInv, OutboxInv', ResultInv, AlarmRuns
  PROVE  ResultInv'
<1>1. "alarm" \in Worker
  BY DEF Worker
<1>2. Begins("alarm") \/ Repair \/ Retry
  BY DEF AlarmRuns, Begins
<1> QED
  BY <1>1, <1>2, BeginsKeepsResults, RepairKeepsResults, RetryKeepsResults

(* The object stops between the record of a message in a batch and the mark *)
(* of that record: the message will be recorded again.                      *)
CrashesInRecord == Crash /\ \E h \in Worker : work[h].pc = "recorded"

LEMMA CrashKeepsResults ==
  ASSUME OutboxInv, ResultInv, Crash, ~CrashesInRecord
  PROVE  ResultInv'
<1>1. UNCHANGED <<msgs, batch, finalized, reported>> /\ gate' = "open"
  BY DEF Crash, storage, history
<1>2. work' = [h \in Worker |-> Idle]
  BY DEF Crash
<1>3. \A m : ~Recording(m)
  BY DEF CrashesInRecord, Recording, OutboxInv, TypeOK
<1>4. FinalizedOnce'
  <2>1. batch.open => Recorded(msgs[batch.rep])
    BY <1>3 DEF ResultInv, ResultStorage, FinalizedOnce
  <2> QED
    BY <1>1, <2>1 DEF ResultInv, ResultStorage, FinalizedOnce, Recorded
<1>5. ResultStorage'
  BY <1>1, <1>4 DEF ResultInv, ResultStorage, RecordedAfterEvent, ResultsAreStored
<1>6. SegmentsAreHeld'
  BY <1>2 DEF SegmentsAreHeld, Idle, Waits
<1>7. \A h \in Worker : (CopyKept(work[h]) /\ ListKept(work[h]))'
  BY <1>2 DEF Idle, CopyKept, ListKept, Effects, Jobs
<1> QED
  BY <1>5, <1>6, <1>7 DEF ResultInv

LEMMA ResultsStep ==
  ASSUME ~Push
  PROVE  OutboxInv /\ OutboxInv' /\ ResultInv /\ [Next]_vars /\ [~CrashesInRecord]_vars => ResultInv'
<1> SUFFICES ASSUME OutboxInv, OutboxInv', ResultInv, [Next]_vars, [~CrashesInRecord]_vars
             PROVE  ResultInv'
  OBVIOUS
<1>1. CASE \E m \in Message : Submit(m) \/ Accept(m) \/ DropResidue(m) \/ RetryElapses(m)
  BY <1>1, QueueSideKeepsResults
<1>2. CASE \E h \in Handler : \E m \in Message : Cancel(h, m)
  BY <1>2, CancelKeepsResults DEF Worker
<1>3. CASE \E h \in Handler : \/ \E m \in Message : MessageEvent(h, m)
                              \/ \E result \in Result \cup { None } : RunReports(h, result)
                              \/ Interrupt(h)
  BY <1>3, BeginsKeepsResults DEF Worker, Begins
<1>4. CASE AlarmRuns
  BY <1>4, AlarmKeepsResults
<1>5. CASE \E h \in Worker : Goes(h)
  BY <1>5, GoesKeepsResults
<1>6. CASE UNCHANGED vars
  BY <1>6, SameActivities DEF vars, storage, history, ResultsUntouched
<1>7. CASE Crash /\ ~CrashesInRecord
  BY <1>7, CrashKeepsResults
<1> QED
  BY <1>1, <1>2, <1>3, <1>4, <1>5, <1>6, <1>7 DEF Next

LEMMA KeptResults == OutboxInv /\ ResultInv => GateIsKept
<1> SUFFICES ASSUME OutboxInv, ResultInv, NEW h \in Worker, work[h].pc = "job",
                    reported[work[h].copy.id] # None
             PROVE  work[h].copy.gate = reported[work[h].copy.id]
  BY DEF GateIsKept
<1>1. Final(work[h].copy)
  BY DEF ResultInv, CopyKept, Jobs
<1>2. work[h].copy.id \in Message
  BY HeldCopy DEF Copy, Jobs
<1> QED
  BY <1>1, <1>2 DEF Final, ResultInv, ResultStorage, ResultsAreStored

(* A gate result that was recorded for a message is in every job that is    *)
(* sent for it afterwards, when no push is awaited and the object does not  *)
(* stop between the record of a message in a batch and the mark of that     *)
(* record; it may stop anywhere else.  A late write to the message of a     *)
(* finalized batch then carries the result it has.                          *)
THEOREM ReportedResultsAreKept ==
  ASSUME ~Push
  PROVE  Spec /\ [][~CrashesInRecord]_vars => []GateIsKept
<1>1. Init => OutboxInv /\ ResultInv
  BY OutboxInit, ResultInit
<1>2. OutboxInv /\ ResultInv /\ [Next]_vars /\ [~CrashesInRecord]_vars
        => (OutboxInv /\ ResultInv)'
  BY OutboxStep, ResultsStep
<1> QED
  BY <1>1, <1>2, KeptResults, PTL DEF Spec

(* An object that does not stop keeps them. *)
COROLLARY ResultsAreKeptWithoutCrash ==
  ASSUME ~Push, MaxCrashes = 0
  PROVE  Spec => []GateIsKept
<1>1. OutboxInv /\ [Next]_vars => [~CrashesInRecord]_vars
  BY DEF CrashesInRecord, Crash, OutboxInv, TypeOK
<1> QED
  BY <1>1, OutboxIsInductive, ReportedResultsAreKept, PTL DEF Spec
=============================================================================
