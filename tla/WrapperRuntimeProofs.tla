-------------------------- MODULE WrapperRuntimeProofs --------------------------
(***************************************************************************)
(* The wrapper of a session, for every number of messages, wrappers, runs, *)
(* stop attempts, interrupts and crashes: its lease and its handlers keep  *)
(* their shape, there is one live wrapper, and what a live wrapper works   *)
(* on is watched.                                                          *)
(***************************************************************************)
EXTENDS WrapperRuntime, TLAPS

(* The steps of a delivery: before the prompt is taken, and until its      *)
(* acceptance is recorded.                                                 *)
Executes == { "execute", "launched", "prompt" }

Delivers == Executes \cup { "accepted", "accept", "delivered" }

Sends == { "forced", "forced-join", "send", "observe", "identity" }

Pc == { "idle", "rearm", "cleanup", "probe", "join", "stop", "grace", "liveness", "warm",
        "server", "flush", "settle", "clear", "interrupt", "repair", "batch", "stop-missing",
        "retain" } \cup Sends \cup Delivers

Reason == { "pending", "user", "grace", "unhealthy", "failed", "protocol", "missing",
            "completed" }

Work ==
  [ pc : Pc, kind : Reason \cup { None, "owns_wrapper", "stop_needed", "stopping" },
    run : 0..(MaxRuns + MaxInstances + 1), todo : SUBSET Message,
    msg : Message \cup { None }, inst : 0..MaxInstances, fresh : BOOLEAN ]

(* Why each handler settles messages. *)
Settles ==
  [ w \in Worker |->
      CASE w = "alarm" -> { "grace", "unhealthy" }
        [] w = "user" -> { "pending", "user", "grace", "unhealthy" }
        [] OTHER -> { "failed", "protocol", "missing", "completed" } ]

(* What a handler holds where it needs it. *)
WorkHolds(w) ==
  /\ work[w].pc \in Sends \cup Delivers => work[w].msg \in Message
  /\ work[w].pc = "observe" => work[w].kind \in { None, "owns_wrapper" }
  /\ work[w].pc \in Delivers => work[w].run \in 0..MaxRuns
  /\ w = "wrapper" /\ work[w].pc # "idle" => work[w].run \in 0..MaxRuns
  /\ work[w].pc \in { "settle", "stop-missing" } => work[w].kind \in Settles[w]
  /\ work[w].pc = "clear" => work[w].kind \in Settles[w] \ { "pending" }

LeaseOK == lease \in Lease /\ WellFormed(lease)

TypeInv ==
  /\ TypeOK
  /\ work \in [Worker -> Work]
  /\ \A w \in Worker : WorkHolds(w)

-----------------------------------------------------------------------------
(* The lease. *)

(* A new lease that was made of l without allocating a wrapper. *)
Keeps(l, new) ==
  /\ new \in Lease /\ WellFormed(new)
  /\ new.state = "owns_wrapper" => l.state = "owns_wrapper" /\ new.inst = l.inst
  /\ KeptWarm(new) => KeptWarm(l)

LEMMA EmptyLeaseType ==
  ASSUME NEW gen \in 1..(MaxInstances + 1)
  PROVE  /\ EmptyLease(gen) \in Lease /\ WellFormed(EmptyLease(gen))
         /\ EmptyLease(gen).gen = gen /\ EmptyLease(gen).state = None
         /\ EmptyLease(gen).inst = 0 /\ EmptyLease(gen).deadline = None
         /\ EmptyLease(gen).attempts = 0 /\ EmptyLease(gen).holder = None
         /\ ~EmptyLease(gen).exhausted
  BY WrapperAssumption DEF EmptyLease, Lease, WellFormed, None

LEMMA LeaseIsKept ==
  ASSUME LeaseOK
  PROVE  /\ Keeps(lease, lease)
         /\ Keeps(lease, EmptyLease(lease.gen))
         /\ Keeps(lease, RequestStop(lease))
         /\ Cleaning(lease) => Keeps(lease, StopFailed(lease))
<1> USE WrapperAssumption
<1>1. lease.gen \in 1..(MaxInstances + 1)
  BY DEF LeaseOK, Lease
<1>2. Keeps(lease, EmptyLease(lease.gen))
  BY <1>1, EmptyLeaseType DEF Keeps, KeptWarm, None
<1>3. Keeps(lease, RequestStop(lease))
  <2> DEFINE empty == EmptyLease(lease.gen)
             new == [empty EXCEPT !.state = "stop_needed"]
  <2>1. /\ empty \in Lease /\ empty.inst = 0 /\ empty.deadline = None
        /\ empty.attempts = 0 /\ empty.holder = None
    BY <1>1, EmptyLeaseType
  <2>2. ~empty.exhausted
    BY <1>1, EmptyLeaseType
  <2> HIDE DEF empty
  <2>3. new \in Lease /\ new.state = "stop_needed" /\ new.inst = 0 /\ new.deadline = None
        /\ new.attempts = 0 /\ new.holder = None
    BY <2>1 DEF Lease
  <2>4. ~new.exhausted
    BY <2>1, <2>2 DEF Lease
  <2>5. Keeps(lease, new)
    BY <2>3, <2>4 DEF Keeps, KeptWarm, WellFormed, None
  <2> QED
    BY <2>5 DEF RequestStop, empty, LeaseOK, Keeps
<1>4. Cleaning(lease) => Keeps(lease, RetryStop(lease))
  BY DEF LeaseOK, Keeps, KeptWarm, RetryStop, Cleaning, Lease, WellFormed, None
<1>5. ASSUME Cleaning(lease), lease.attempts >= MaxStops
      PROVE  Keeps(lease, Exhaust(lease))
  <2> DEFINE old == RetryStop(lease)
             new == [old EXCEPT !.exhausted = TRUE]
  <2>1. /\ old \in Lease /\ old.state = "stop_needed" /\ old.inst = 0 /\ old.deadline = None
        /\ old.holder = None /\ old.attempts = MaxStops
    <3>1. lease.attempts = MaxStops /\ lease.inst = 0 /\ lease.deadline = None
      BY <1>5 DEF LeaseOK, Cleaning, Lease, WellFormed, None
    <3> QED
      BY <3>1 DEF LeaseOK, RetryStop, Lease, None
  <2> HIDE DEF old
  <2>2. /\ new.state = "stop_needed" /\ new.inst = 0 /\ new.deadline = None
        /\ new.holder = None /\ new.attempts = MaxStops /\ new \in Lease
    BY <2>1 DEF Lease
  <2>3. Keeps(lease, new)
    BY <2>2 DEF Keeps, KeptWarm, WellFormed, None
  <2> QED
    BY <1>5, <2>3 DEF Exhaust, old
<1> QED
  BY <1>2, <1>3, <1>4, <1>5 DEF LeaseOK, Keeps, StopFailed

LEMMA DeadlineIsKept ==
  ASSUME LeaseOK, NEW i, NEW deadline \in { None, "startup" }
  PROVE  Keeps(lease, WithDeadline(lease, i, deadline))
  BY DEF LeaseOK, Keeps, KeptWarm, WithDeadline, Owns, Lease, WellFormed, None

LEMMA WarmLease ==
  ASSUME LeaseOK, NEW deadline \in { "warm", "reused" }
  PROVE  LET new == WithDeadline(lease, lease.inst, deadline) IN
         /\ new \in Lease /\ WellFormed(new)
         /\ new.state = lease.state /\ new.inst = lease.inst
         /\ KeptWarm(new) => lease.state = "owns_wrapper"
  BY DEF LeaseOK, WithDeadline, KeptWarm, Owns, Lease, WellFormed, None

LEMMA BegunStopIsKept ==
  ASSUME LeaseOK, NEW w \in Worker, lease.state = "stop_needed", ~lease.exhausted,
         lease.attempts < MaxStops
  PROVE  Keeps(lease, BeginStop(lease, w))
<1> DEFINE new == BeginStop(lease, w)
<1>1. w # None
  BY DEF Worker, None
<1>2. /\ new.state = "stopping" /\ new.inst = lease.inst
      /\ new.deadline = lease.deadline /\ new.holder = w /\ new.attempts = lease.attempts + 1
  BY DEF LeaseOK, BeginStop, Lease
<1>4. lease.attempts + 1 \in 0..MaxStops
  BY WrapperAssumption DEF LeaseOK, Lease
<1>5. new \in Lease
  BY <1>4 DEF LeaseOK, BeginStop, Lease
<1>3. ~new.exhausted
  BY DEF LeaseOK, BeginStop, Lease
<1> QED
  BY <1>1, <1>2, <1>3, <1>5 DEF LeaseOK, Keeps, KeptWarm, WellFormed, None

LEMMA AllocatedLease ==
  ASSUME LeaseOK, lease.gen <= MaxInstances, ~Cleaning(lease)
  PROVE  LET new == Allocate(OwnedAbsent(lease, lease.inst))
         IN  /\ new \in Lease /\ WellFormed(new)
             /\ new.state = "owns_wrapper" /\ new.inst = lease.gen /\ new.deadline = "startup"
<1>1. lease.gen \in 1..MaxInstances /\ lease.gen + 1 \in 1..(MaxInstances + 1)
  BY WrapperAssumption DEF LeaseOK, Lease
<1>2. OwnedAbsent(lease, lease.inst).state = None
  BY DEF OwnedAbsent, Owns, Cleaning, LeaseOK, Lease, EmptyLease
<1>3. OwnedAbsent(lease, lease.inst).gen = lease.gen
  BY DEF OwnedAbsent, EmptyLease
<1> DEFINE empty == EmptyLease(lease.gen + 1)
           new == [ empty EXCEPT !.state = "owns_wrapper", !.inst = lease.gen,
                                 !.deadline = "startup" ]
<1>4. Allocate(OwnedAbsent(lease, lease.inst)) = new
  BY <1>2, <1>3 DEF Allocate
<1>5. /\ empty \in Lease /\ empty.attempts = 0 /\ empty.holder = None
  BY <1>1, EmptyLeaseType
<1>6. ~empty.exhausted
  BY <1>1, EmptyLeaseType
<1> HIDE DEF empty
<1>10. lease.gen \in 0..MaxInstances
  BY <1>1, WrapperAssumption
<1>7. /\ new \in Lease /\ new.state = "owns_wrapper" /\ new.inst = lease.gen
      /\ new.deadline = "startup" /\ new.attempts = 0 /\ new.holder = None
  BY <1>5, <1>10 DEF Lease
<1>8. ~new.exhausted
  BY <1>5, <1>6 DEF Lease
<1>9. WellFormed(new)
  BY <1>1, <1>7, <1>8 DEF WellFormed, None
<1> QED
  BY <1>4, <1>7, <1>9

-----------------------------------------------------------------------------
(* The handlers. *)

OthersStay(w) == \A v \in Worker \ { w } : work'[v] = work[v]

(* A handler goes on to pc with what it holds. *)
Moves(w, pc) ==
  /\ work' \in [Worker -> Work] /\ OthersStay(w)
  /\ work'[w].pc = pc
  /\ work'[w].kind = work[w].kind /\ work'[w].run = work[w].run
  /\ work'[w].todo = work[w].todo /\ work'[w].msg = work[w].msg
  /\ work'[w].inst = work[w].inst /\ work'[w].fresh = work[w].fresh

LEMMA MoveType ==
  ASSUME work \in [Worker -> Work], NEW w \in Worker, NEW pc \in Pc,
         work' = [work EXCEPT ![w].pc = pc]
  PROVE  Moves(w, pc)
  BY DEF Moves, OthersStay, Work

LEMMA GoType ==
  ASSUME work \in [Worker -> Work], NEW w \in Worker, NEW pc \in Pc,
         Go(w, pc)
  PROVE  Moves(w, pc) /\ gate' = w
  BY MoveType DEF Go

LEMMA AwaitType ==
  ASSUME work \in [Worker -> Work], NEW w \in Worker, NEW pc \in Pc,
         Await(w, pc)
  PROVE  Moves(w, pc) /\ gate' = "open"
  BY MoveType DEF Await

LEMMA IdleType ==
  /\ IdleWork \in Work
  /\ IdleWork.pc = "idle"
  BY WrapperAssumption DEF IdleWork, Work, Pc, None

LEMMA ReturnType ==
  ASSUME work \in [Worker -> Work], NEW w \in Worker, Return(w)
  PROVE  /\ work' \in [Worker -> Work] /\ OthersStay(w)
         /\ work'[w].pc = IF w = "alarm" THEN "rearm" ELSE "idle"
         /\ gate' = IF w = "alarm" THEN w ELSE "open"
<1> DEFINE idle == IF w = "alarm" THEN [IdleWork EXCEPT !.pc = "rearm"] ELSE IdleWork
<1>1. idle \in Work /\ idle.pc = (IF w = "alarm" THEN "rearm" ELSE "idle")
  BY IdleType DEF Work, Pc
<1>2. work' = [work EXCEPT ![w] = idle] /\ gate' = IF w = "alarm" THEN w ELSE "open"
  BY DEF Return
<1> HIDE DEF idle
<1> QED
  BY <1>1, <1>2 DEF OthersStay

LEMMA GoSettleType ==
  ASSUME work \in [Worker -> Work], NEW w \in Worker, NEW kind \in Reason,
         NEW r \in 0..MaxRuns, NEW S \in SUBSET Message, GoSettle(w, kind, r, S)
  PROVE  /\ work' \in [Worker -> Work] /\ OthersStay(w)
         /\ work'[w].pc = "settle" /\ work'[w].kind = kind /\ work'[w].run = r
         /\ work'[w].todo = S
         /\ gate' = w
<1>1. r \in 0..(MaxRuns + MaxInstances + 1)
  BY WrapperAssumption
<1> DEFINE settling == [work[w] EXCEPT !.pc = "settle", !.kind = kind, !.run = r, !.todo = S]
<1>2. /\ settling \in Work /\ settling.pc = "settle" /\ settling.kind = kind
      /\ settling.run = r /\ settling.todo = S
  BY <1>1 DEF Work, Pc
<1>3. work' = [work EXCEPT ![w] = settling] /\ gate' = w
  BY DEF GoSettle
<1> HIDE DEF settling
<1> QED
  BY <1>2, <1>3 DEF OthersStay

LEMMA BeginType ==
  ASSUME work \in [Worker -> Work], NEW w \in Worker, lastRun \in 0..MaxRuns,
         BeginMaintenance(w)
  PROVE  /\ work' \in [Worker -> Work] /\ OthersStay(w)
         /\ work'[w].pc = "cleanup" /\ work'[w].run = lastRun
         /\ gate' = w
<1>1. lastRun \in 0..(MaxRuns + MaxInstances + 1)
  BY WrapperAssumption
<1> DEFINE begun == [work[w] EXCEPT !.pc = "cleanup", !.run = lastRun]
<1>2. begun \in Work /\ begun.pc = "cleanup" /\ begun.run = lastRun
  BY <1>1 DEF Work, Pc
<1>3. work' = [work EXCEPT ![w] = begun] /\ gate' = w
  BY DEF BeginMaintenance
<1> HIDE DEF begun
<1> QED
  BY <1>2, <1>3 DEF OthersStay

-----------------------------------------------------------------------------
(* The types. *)

StorageTypes ==
  /\ LeaseOK
  /\ run \in Run
  /\ grace \in 0..MaxRuns
  /\ msgs \in [Message -> [ status : { None, "queued", "accepted", "settled" },
                            run : 0..MaxRuns, observed : BOOLEAN ]]
  /\ served \in BOOLEAN
  /\ wrapper \in [Instance -> Process]
  /\ lastRun \in 0..MaxRuns
  /\ faults \in 0..MaxFaults /\ crashes \in 0..MaxCrashes

GateOK == gate \in Worker \cup { "open" }

LEMMA TypeParts ==
  TypeInv <=> /\ StorageTypes /\ GateOK
              /\ work \in [Worker -> Work]
              /\ \A w \in Worker : WorkHolds(w)
<1>1. ASSUME work \in [Worker -> Work], NEW w \in Worker
      PROVE  /\ work[w].todo \subseteq Message
             /\ work[w].run \in 0..(MaxRuns + MaxInstances + 1)
             /\ work[w].inst \in 0..MaxInstances
  BY <1>1 DEF Work
<1> QED
  BY <1>1 DEF TypeInv, TypeOK, StorageTypes, GateOK, LeaseOK

LEMMA InitTypes == Init => TypeInv
<1> SUFFICES ASSUME Init PROVE TypeInv
  OBVIOUS
<1>1. LeaseOK
  <2>1. 1 \in 1..(MaxInstances + 1)
    BY WrapperAssumption
  <2> QED
    BY <2>1, EmptyLeaseType DEF Init, LeaseOK
<1>2. run \in Run /\ wrapper \in [Instance -> Process]
  BY WrapperAssumption DEF Init, NoRun, NewRun, Run, NewProcess, Process, None
<1>3. StorageTypes
  <2>1. 0 \in 0..MaxRuns /\ 0 \in 0..MaxFaults /\ 0 \in 0..MaxCrashes
    BY WrapperAssumption
  <2> QED
    BY <1>1, <1>2, <2>1 DEF Init, StorageTypes
<1>4. work \in [Worker -> Work] /\ GateOK
  BY IdleType DEF Init, GateOK
<1>5. \A w \in Worker : WorkHolds(w)
  BY IdleType DEF Init, WorkHolds, Sends, Delivers, Executes
<1> QED
  BY <1>3, <1>4, <1>5, TypeParts

(* The messages. *)
Status == { None, "queued", "accepted", "settled" }

MessageState == [ status : Status, run : 0..MaxRuns, observed : BOOLEAN ]

LEMMA SettledType ==
  ASSUME msgs \in [Message -> MessageState], NEW m \in Message, SettleOnce(m)
  PROVE  msgs' \in [Message -> MessageState]
  BY DEF SettleOnce, MessageState, Status

LEMMA EnsuredType ==
  ASSUME msgs \in [Message -> MessageState], NEW S, NEW r \in 0..MaxRuns,
         msgs' = EnsureAccepted(S, r)
  PROVE  msgs' \in [Message -> MessageState]
  BY DEF EnsureAccepted, MessageState, Status

(* The run. *)
LEMMA RunTypes ==
  ASSUME run \in Run
  PROVE  /\ Heard \in Run /\ Rearmed \in Run /\ Answered \in Run
         /\ [run EXCEPT !.live = "off"] \in Run /\ [run EXCEPT !.live = "pinged"] \in Run
         /\ NoRun \in Run
         /\ Heard.id = run.id /\ Rearmed.id = run.id /\ Answered.id = run.id
         /\ [run EXCEPT !.live = "off"].id = run.id
         /\ [run EXCEPT !.live = "pinged"].id = run.id
         /\ NoRun.id = 0
<1>1. NoRun \in Run /\ NoRun.id = 0
  BY WrapperAssumption DEF NoRun, NewRun, Run, None
<1> QED
  BY <1>1 DEF Heard, Rearmed, Answered, Run

(* What a step must show. *)
LEMMA StepTypes ==
  ASSUME TypeInv, StorageTypes', GateOK', NEW w \in Worker,
         work' \in [Worker -> Work], OthersStay(w), WorkHolds(w)'
  PROVE  TypeInv'
<1>1. \A v \in Worker : WorkHolds(v)'
  BY TypeParts DEF OthersStay, WorkHolds
<1>2. ASSUME NEW v \in Worker
      PROVE  /\ work'[v].todo \subseteq Message
             /\ work'[v].run \in 0..(MaxRuns + MaxInstances + 1)
             /\ work'[v].inst \in 0..MaxInstances
  BY <1>2 DEF Work
<1> QED
  BY <1>1, <1>2 DEF TypeInv, TypeOK, StorageTypes, GateOK, LeaseOK

LEMMA MoveTypes ==
  ASSUME TypeInv, StorageTypes', NEW w \in Worker, NEW pc \in Pc,
         Go(w, pc) \/ Await(w, pc),
         pc \in Sends \cup Delivers => work[w].msg \in Message /\ pc # "observe",
         pc \in Delivers => work[w].run \in 0..MaxRuns,
         w = "wrapper" /\ pc # "idle" => work[w].pc # "idle",
         pc \in { "settle", "stop-missing" } => work[w].kind \in Settles[w],
         pc = "clear" => work[w].kind \in Settles[w] \ { "pending" }
  PROVE  TypeInv'
<1>1. work \in [Worker -> Work] /\ WorkHolds(w)
  BY TypeParts
<1>2. Moves(w, pc) /\ GateOK'
  BY <1>1, GoType, AwaitType DEF GateOK
<1>3. pc = "observe" => pc \in Sends
  BY DEF Sends
<1>4. WorkHolds(w)'
  BY <1>1, <1>2, <1>3 DEF WorkHolds, Moves
<1> QED
  BY <1>2, <1>4, StepTypes DEF Moves

LEMMA ReturnTypes ==
  ASSUME TypeInv, StorageTypes', NEW w \in Worker, Return(w)
  PROVE  TypeInv'
<1>1. work \in [Worker -> Work]
  BY TypeParts
<1>2. /\ work' \in [Worker -> Work] /\ OthersStay(w) /\ GateOK'
      /\ work'[w].pc = IF w = "alarm" THEN "rearm" ELSE "idle"
  BY <1>1, ReturnType DEF GateOK, Worker
<1>3. WorkHolds(w)'
  BY <1>2 DEF WorkHolds, Sends, Delivers, Executes
<1> QED
  BY <1>2, <1>3, StepTypes

LEMMA GoSettleTypes ==
  ASSUME TypeInv, StorageTypes', NEW w \in Worker, NEW kind \in Settles[w],
         NEW r \in 0..MaxRuns, NEW S \in SUBSET Message, GoSettle(w, kind, r, S)
  PROVE  TypeInv'
<1>1. work \in [Worker -> Work] /\ kind \in Reason
  BY TypeParts DEF Settles, Reason, Worker
<1>2. /\ work' \in [Worker -> Work] /\ OthersStay(w) /\ GateOK'
      /\ work'[w].pc = "settle" /\ work'[w].kind = kind /\ work'[w].run = r
  BY <1>1, GoSettleType DEF GateOK
<1>3. WorkHolds(w)'
  BY <1>2 DEF WorkHolds, Sends, Delivers, Executes
<1> QED
  BY <1>2, <1>3, StepTypes

LEMMA BeginTypes ==
  ASSUME TypeInv, StorageTypes', NEW w \in Maintainer, BeginMaintenance(w)
  PROVE  TypeInv'
<1>1. work \in [Worker -> Work] /\ w \in Worker /\ w # "wrapper" /\ lastRun \in 0..MaxRuns
  BY TypeParts DEF Maintainer, Worker, StorageTypes
<1>2. /\ work' \in [Worker -> Work] /\ OthersStay(w) /\ GateOK'
      /\ work'[w].pc = "cleanup"
  BY <1>1, BeginType DEF GateOK
<1>3. WorkHolds(w)'
  BY <1>1, <1>2 DEF WorkHolds, Sends, Delivers, Executes
<1> QED
  BY <1>1, <1>2, <1>3, StepTypes

(* A check of the maintenance that goes on to the next. *)
Plain == { "cleanup", "probe", "join", "stop", "grace", "liveness", "warm", "server", "flush" }

LEMMA PlainTypes ==
  ASSUME TypeInv, StorageTypes', NEW w \in Maintainer, NEW pc \in Plain,
         Go(w, pc) \/ Await(w, pc)
  PROVE  TypeInv'
<1>1. w \in Worker /\ w # "wrapper" /\ pc \in Pc
  BY DEF Maintainer, Worker, Plain, Pc
<1>2. pc \notin Sends \cup Delivers \cup { "settle", "stop-missing", "clear" }
  BY DEF Plain, Sends, Delivers, Executes
<1> QED
  BY <1>1, <1>2, MoveTypes

LEMMA LeaseStep ==
  ASSUME TypeInv, Keeps(lease, lease'), UNCHANGED <<run, grace, msgs, served, wrapper, bounds>>
  PROVE  StorageTypes'
  BY TypeParts DEF StorageTypes, LeaseOK, Keeps, bounds

LEMMA MaintainKeeps ==
  ASSUME TypeInv, NEW w \in Maintainer, Maintain(w)
  PROVE  Keeps(lease, lease')
<1>1. /\ LeaseOK /\ w \in Worker
      /\ Keeps(lease, lease) /\ Keeps(lease, EmptyLease(lease.gen))
      /\ Keeps(lease, RequestStop(lease))
      /\ Cleaning(lease) => Keeps(lease, StopFailed(lease))
  BY TypeParts, LeaseIsKept DEF StorageTypes, Maintainer, Worker
<1>2. CASE UNCHANGED lease
  BY <1>1, <1>2
<1>3. CASE StartupExpires(w)
  BY <1>1, <1>3, DeadlineIsKept DEF StartupExpires
<1>4. CASE StopExpires(w)
  BY <1>1, <1>4 DEF StopExpires, Cleaning
<1>5. CASE StopBegins(w)
  <2>1. CASE lease.attempts < MaxStops
    BY <1>1, <1>5, <2>1, BegunStopIsKept DEF StopBegins
  <2>2. CASE ~(lease.attempts < MaxStops)
    <3>1. lease.attempts >= MaxStops
      BY <1>1, <2>2, WrapperAssumption DEF LeaseOK, Lease
    <3> QED
      BY <1>1, <1>5, <2>2, <3>1 DEF StopBegins, StopFailed, Cleaning
  <2> QED
    BY <2>1, <2>2
<1>6. CASE StopReturns(w)
  BY <1>1, <1>6 DEF StopReturns, OwnAttempt, Cleaning
<1>7. CASE ProbeReturns(w)
  BY <1>1, <1>7 DEF ProbeReturns
<1>8. CASE GraceExpires(w) \/ TurnsUnhealthy(w) \/ WarmEnds(w)
  BY <1>1, <1>8 DEF GraceExpires, TurnsUnhealthy, WarmEnds
<1> QED
  BY <1>2, <1>3, <1>4, <1>5, <1>6, <1>7, <1>8
     DEF Maintain, NothingToClean, RecheckExhausted, JoinRecheck, JoinReturns, GraceIsMoot,
         StopsWatching, SendsPing, Ends, storage

LEMMA MaintainTypes ==
  ASSUME TypeInv, NEW w \in Maintainer, Maintain(w)
  PROVE  TypeInv'
<1>1. /\ StorageTypes /\ LeaseOK /\ work \in [Worker -> Work]
      /\ run \in Run /\ run.id \in 0..MaxRuns
      /\ w \in Worker /\ { "grace", "unhealthy" } \subseteq Settles[w]
      /\ Keeps(lease, lease')
  BY TypeParts, MaintainKeeps DEF StorageTypes, Run, Maintainer, Worker, Settles
<1>2. UNCHANGED <<storage, wrapper, bounds>> => StorageTypes'
  BY <1>1 DEF storage, bounds, StorageTypes, LeaseOK
<1>3. CASE NothingToClean(w)
  BY <1>2, <1>3, PlainTypes DEF NothingToClean, Plain
<1>4. CASE RecheckExhausted(w)
  BY <1>2, <1>4, PlainTypes DEF RecheckExhausted, Plain
<1>5. CASE JoinRecheck(w)
  BY <1>2, <1>5, PlainTypes DEF JoinRecheck, Plain
<1>6. CASE JoinReturns(w)
  BY <1>2, <1>6, PlainTypes DEF JoinReturns, Plain
<1>7. CASE StartupExpires(w)
  BY <1>1, <1>7, LeaseStep, PlainTypes DEF StartupExpires, Plain
<1>8. CASE StopExpires(w)
  BY <1>1, <1>8, LeaseStep, PlainTypes DEF StopExpires, Plain
<1>9. CASE StopBegins(w)
  BY <1>1, <1>9, LeaseStep, PlainTypes DEF StopBegins, Plain
<1>10. CASE StopReturns(w)
  BY <1>1, <1>10, LeaseStep, PlainTypes DEF StopReturns, Plain
<1>11. CASE ProbeReturns(w)
  BY <1>1, <1>11, LeaseStep, PlainTypes DEF ProbeReturns, Plain
<1>12. CASE GraceIsMoot(w)
  <2>1. StorageTypes'
    BY <1>1, <1>12, WrapperAssumption DEF GraceIsMoot, StorageTypes, LeaseOK, bounds
  <2> QED
    BY <1>12, <2>1, PlainTypes DEF GraceIsMoot, Plain
<1>13. CASE GraceExpires(w)
  <2>1. StorageTypes'
    BY <1>1, <1>13, WrapperAssumption
       DEF GraceExpires, StorageTypes, LeaseOK, Keeps, bounds
  <2>2. Accepted(run.id) \in SUBSET Message /\ GoSettle(w, "grace", run.id, Accepted(run.id))
    BY <1>13 DEF GraceExpires, Accepted
  <2> QED
    BY <1>1, <2>1, <2>2, GoSettleTypes
<1>14. CASE StopsWatching(w)
  <2>1. StorageTypes'
    BY <1>1, <1>14, RunTypes DEF StopsWatching, StorageTypes, LeaseOK, bounds
  <2> QED
    BY <1>14, <2>1, PlainTypes DEF StopsWatching, Plain
<1>15. CASE SendsPing(w)
  <2>1. StorageTypes'
    BY <1>1, <1>15, RunTypes DEF SendsPing, StorageTypes, LeaseOK, bounds
  <2> QED
    BY <1>15, <2>1, PlainTypes DEF SendsPing, Plain
<1>16. CASE TurnsUnhealthy(w)
  <2>1. StorageTypes'
    BY <1>1, <1>16 DEF TurnsUnhealthy, StorageTypes, LeaseOK, Keeps, bounds
  <2>2. /\ Accepted(run.id) \in SUBSET Message
        /\ GoSettle(w, "unhealthy", run.id, Accepted(run.id))
    BY <1>16 DEF TurnsUnhealthy, Accepted
  <2> QED
    BY <1>1, <2>1, <2>2, GoSettleTypes
<1>17. CASE WarmEnds(w)
  <2>1. StorageTypes'
    BY <1>1, <1>17, RunTypes DEF WarmEnds, StorageTypes, LeaseOK, Keeps, bounds
  <2> QED
    BY <1>17, <2>1, PlainTypes DEF WarmEnds, Plain
<1>18. CASE Ends(w)
  BY <1>1, <1>2, <1>18, ReturnTypes DEF Ends
<1> QED
  BY <1>3, <1>4, <1>5, <1>6, <1>7, <1>8, <1>9, <1>10, <1>11, <1>12, <1>13, <1>14, <1>15,
     <1>16, <1>17, <1>18 DEF Maintain

(* The settlement of messages, by whatever handler. *)
SettlesOne(w) ==
  \E m \in work[w].todo :
    /\ ~IsForestalled(w, m)
    /\ SettleOnce(m)
    /\ work' = [work EXCEPT ![w].todo = @ \ {m}]
    /\ gate' = IF Awaited THEN "open" ELSE w

LEMMA SettleCases ==
  ASSUME NEW w \in Worker, Settle(w)
  PROVE  \/ SettlesOne(w)
         \/ Return(w) /\ UNCHANGED msgs /\ work[w].kind \in { "pending", "user" }
  BY DEF Settle, SettlesOne, IsForestalled

LEMMA SettlingTypes ==
  ASSUME TypeInv, NEW w \in Worker, Settle(w) \/ SettleEnds(w) \/ Clear(w)
  PROVE  TypeInv'
<1>1. /\ StorageTypes /\ LeaseOK /\ work \in [Worker -> Work] /\ WorkHolds(w)
      /\ run \in Run /\ msgs \in [Message -> MessageState] /\ GateOK
  BY TypeParts DEF StorageTypes, MessageState, Status
<1>2. CASE Settle(w)
  <2>1. CASE SettlesOne(w)
    <3>1. PICK m \in work[w].todo : /\ SettleOnce(m)
                                    /\ work' = [work EXCEPT ![w].todo = @ \ {m}]
                                    /\ gate' = IF Awaited THEN "open" ELSE w
      BY <2>1 DEF SettlesOne
    <3>2. m \in Message /\ work[w].todo \subseteq Message
      BY <1>1, <3>1 DEF Work
    <3>3. StorageTypes'
      BY <1>1, <1>2, <3>1, <3>2, SettledType
         DEF Settle, StorageTypes, LeaseOK, bounds, MessageState, Status
    <3>4. /\ work' \in [Worker -> Work] /\ OthersStay(w)
          /\ work'[w].pc = work[w].pc /\ work'[w].kind = work[w].kind
          /\ work'[w].run = work[w].run /\ work'[w].msg = work[w].msg
      BY <1>1, <3>1, <3>2 DEF Work, OthersStay
    <3>5. GateOK' /\ WorkHolds(w)'
      BY <1>1, <3>1, <3>4 DEF GateOK, WorkHolds
    <3> QED
      BY <3>3, <3>4, <3>5, StepTypes
  <2>2. CASE Return(w) /\ UNCHANGED msgs
    <3>1. StorageTypes'
      BY <1>1, <1>2, <2>2 DEF Settle, StorageTypes, LeaseOK, bounds
    <3> QED
      BY <2>2, <3>1, ReturnTypes
  <2> QED
    BY <1>2, <2>1, <2>2, SettleCases
<1>3. CASE SettleEnds(w)
  <2>1. StorageTypes'
    BY <1>1, <1>3 DEF SettleEnds, StorageTypes, LeaseOK, storage, bounds
  <2>2. PICK pc \in { "interrupt", "retain", "stop-missing", "clear" } :
          /\ pc = AfterSettle[work[w].kind]
          /\ work[w].pc = "settle" /\ work[w].kind \in Settles[w]
          /\ pc = "clear" => work[w].kind # "pending"
    BY <1>1, <1>3 DEF SettleEnds, May, AfterSettle, WorkHolds, Settles, Worker
  <2>3. pc \in Pc /\ pc \notin Sends \cup Delivers \cup { "settle", "idle" }
    BY DEF Pc, Sends, Delivers, Executes
  <2>4. Go(w, pc)
    BY <1>3, <2>2 DEF SettleEnds
  <2> QED
    BY <2>1, <2>2, <2>3, <2>4, MoveTypes
<1>4. CASE Clear(w)
  <2>1. StorageTypes'
    <3>1. run' \in Run
      BY <1>1, <1>4, RunTypes DEF Clear, ClearIdentity
    <3>2. grace' \in 0..MaxRuns
      BY <1>1, <1>4, WrapperAssumption DEF Clear, StorageTypes
    <3> QED
      BY <1>1, <1>4, <3>1, <3>2 DEF Clear, StorageTypes, LeaseOK, bounds
  <2>2. work[w].pc = "clear" /\ work[w].kind \in Settles[w] \ { "pending" }
    BY <1>1, <1>4 DEF Clear, May, WorkHolds
  <2>3. CASE w = "wrapper"
    <3>1. work[w].kind # "user"
      BY <2>2, <2>3 DEF Settles, Worker
    <3>2. Return("wrapper") /\ "wrapper" \in Worker
      BY <1>4, <2>3, <3>1 DEF Clear, Worker
    <3> QED
      BY <2>1, <3>2, ReturnTypes
  <2>4. CASE w # "wrapper" /\ work[w].kind = "user"
    <3>1. w \in Maintainer /\ BeginMaintenance(w)
      BY <1>4, <2>4 DEF Clear, Maintainer, Worker
    <3> QED
      BY <2>1, <3>1, BeginTypes
  <2>5. CASE w # "wrapper" /\ work[w].kind # "user"
    <3>1. work[w].kind \in { "grace", "unhealthy" } /\ w \in Maintainer
      BY <2>2, <2>5 DEF Settles, Worker, Maintainer
    <3>2. PICK pc \in { "liveness", "warm" } : pc = AfterClear[work[w].kind]
      BY <3>1 DEF AfterClear
    <3>3. Go(w, pc) /\ pc \in Plain
      BY <1>4, <2>5, <3>2 DEF Clear, Plain
    <3> QED
      BY <2>1, <3>1, <3>3, PlainTypes
  <2> QED
    BY <2>3, <2>4, <2>5
<1> QED
  BY <1>2, <1>3, <1>4

LEMMA UserTypes ==
  ASSUME TypeInv, User
  PROVE  TypeInv'
<1>1. /\ StorageTypes /\ LeaseOK /\ work \in [Worker -> Work] /\ GateOK
      /\ run \in Run /\ run.id \in 0..MaxRuns /\ 0 \in 0..MaxRuns
      /\ "user" \in Worker /\ { "pending", "user" } \subseteq Settles["user"]
      /\ \A v \in Worker : WorkHolds(v)
  BY TypeParts, WrapperAssumption DEF StorageTypes, Run, Worker, Settles
<1>2. ASSUME NEW m \in Message, Submit(m) PROVE TypeInv'
  <2>1. msgs' \in [Message -> MessageState]
    BY <1>1, <1>2 DEF Submit, StorageTypes, MessageState, Status
  <2>2. StorageTypes' /\ GateOK'
    BY <1>1, <1>2, <2>1 DEF Submit, StorageTypes, LeaseOK, bounds, GateOK, MessageState, Status
  <2>3. work' = work /\ OthersStay("user") /\ WorkHolds("user")'
    BY <1>1, <1>2 DEF Submit, OthersStay, WorkHolds
  <2> QED
    BY <1>1, <2>2, <2>3, StepTypes
<1>3. CASE Interrupt
  <2>1. StorageTypes'
    BY <1>1, <1>3, WrapperAssumption DEF Interrupt, StorageTypes, LeaseOK, storage
  <2>2. Queued \in SUBSET Message /\ GoSettle("user", "pending", 0, Queued)
    BY <1>3 DEF Interrupt, Queued
  <2> QED
    BY <1>1, <2>1, <2>2, GoSettleTypes
<1>4. CASE InterruptAccepted
  <2>1. Keeps(lease, lease')
    BY <1>1, <1>4, LeaseIsKept DEF InterruptAccepted
  <2>2. StorageTypes'
    BY <1>4, <2>1, LeaseStep DEF InterruptAccepted
  <2>3. CASE Return("user")
    BY <1>1, <2>2, <2>3, ReturnTypes
  <2>4. CASE GoSettle("user", "user", run.id, Accepted(run.id))
    <3>1. Accepted(run.id) \in SUBSET Message
      BY DEF Accepted
    <3> QED
      BY <1>1, <2>2, <2>4, <3>1, GoSettleTypes
  <2> QED
    BY <1>4, <2>3, <2>4 DEF InterruptAccepted
<1> QED
  BY <1>2, <1>3, <1>4 DEF User

LEMMA TerminalTypes ==
  ASSUME TypeInv, Terminal
  PROVE  TypeInv'
<1> DEFINE self == work["wrapper"]
<1>1. /\ StorageTypes /\ LeaseOK /\ work \in [Worker -> Work] /\ GateOK
      /\ run \in Run /\ run.id \in 0..MaxRuns /\ wrapper \in [Instance -> Process]
      /\ msgs \in [Message -> MessageState]
      /\ "wrapper" \in Worker /\ WorkHolds("wrapper")
      /\ Settles["wrapper"] = { "failed", "protocol", "missing", "completed" }
      /\ Keeps(lease, RequestStop(lease))
      /\ \A v \in Worker : WorkHolds(v)
  BY TypeParts, LeaseIsKept DEF StorageTypes, Run, Worker, Settles, MessageState, Status
<1>2. ASSUME NEW i \in Instance, ArriveFinalizing(i) PROVE TypeInv'
  <2>1. run' \in Run
    BY <1>1, <1>2, RunTypes DEF ArriveFinalizing, UpdateIfCurrent, Run
  <2>2. wrapper' \in [Instance -> Process]
    BY <1>1, <1>2 DEF ArriveFinalizing, Process
  <2>3. StorageTypes' /\ GateOK'
    BY <1>1, <1>2, <2>1, <2>2 DEF ArriveFinalizing, StorageTypes, LeaseOK, bounds, GateOK
  <2>4. work' = work /\ OthersStay("wrapper") /\ WorkHolds("wrapper")'
    BY <1>1, <1>2 DEF ArriveFinalizing, OthersStay, WorkHolds
  <2> QED
    BY <1>1, <2>3, <2>4, StepTypes
<1>3. ASSUME NEW i \in Instance, Reported(i) PROVE wrapper' \in [Instance -> Process]
  <2> DEFINE old == wrapper[i]
             new == [old EXCEPT !.out = None, !.held = {}, !.sealed = TRUE,
                                !.linked = IF old.linked = "yes" THEN "closing" ELSE old.linked]
  <2>1. old \in Process
    BY <1>1
  <2> HIDE DEF old
  <2>2. new \in Process
    BY <2>1 DEF Process, None
  <2>3. wrapper' = [wrapper EXCEPT ![i] = new]
    BY <1>3 DEF Reported, old
  <2> QED
    BY <1>1, <2>2, <2>3
<1>4. ASSUME NEW i \in Instance, ArriveStale(i) PROVE TypeInv'
  <2>1. StorageTypes' /\ GateOK'
    BY <1>1, <1>3, <1>4 DEF ArriveStale, StorageTypes, LeaseOK, storage, bounds, GateOK
  <2>2. work' = work /\ OthersStay("wrapper") /\ WorkHolds("wrapper")'
    BY <1>1, <1>4 DEF ArriveStale, OthersStay, WorkHolds
  <2> QED
    BY <1>1, <2>1, <2>2, StepTypes
<1>5. run.dispatching \in Message \cup { None }
      /\ run.id \in 0..(MaxRuns + MaxInstances + 1)
  BY <1>1, WrapperAssumption DEF Run
<1>6. ASSUME NEW i \in Instance, ArriveFailed(i) PROVE TypeInv'
  <2> DEFINE begun == [self EXCEPT !.pc = "repair", !.kind = "failed", !.run = run.id,
                                   !.msg = run.dispatching]
  <2>1. StorageTypes' /\ GateOK'
    BY <1>1, <1>3, <1>6, RunTypes
       DEF ArriveFailed, StorageTypes, LeaseOK, Keeps, bounds, GateOK
  <2>2. begun \in Work /\ begun.pc = "repair" /\ begun.run \in 0..MaxRuns
    <3>1. self \in Work
      BY <1>1
    <3> HIDE DEF self
    <3> QED
      BY <1>1, <1>5, <3>1 DEF Work, Pc, Reason
  <2>3. work' = [work EXCEPT !["wrapper"] = begun]
    BY <1>6 DEF ArriveFailed
  <2> HIDE DEF begun
  <2>4. work' \in [Worker -> Work] /\ OthersStay("wrapper") /\ work'["wrapper"] = begun
    BY <1>1, <2>2, <2>3 DEF OthersStay
  <2>5. WorkHolds("wrapper")'
    BY <2>2, <2>4 DEF WorkHolds, Sends, Delivers, Executes
  <2> QED
    BY <1>1, <2>1, <2>4, <2>5, StepTypes
<1>7. ASSUME NEW i \in Instance, ArriveCompleted(i) PROVE TypeInv'
  <2> DEFINE begun == [self EXCEPT !.pc = "repair", !.kind = "completed", !.run = run.id,
                                   !.msg = run.dispatching, !.todo = wrapper[i].held]
  <2>1. StorageTypes' /\ GateOK'
    BY <1>1, <1>3, <1>7, RunTypes DEF ArriveCompleted, StorageTypes, LeaseOK, bounds, GateOK
  <2>2. begun \in Work /\ begun.pc = "repair" /\ begun.run \in 0..MaxRuns
    <3>1. PICK held \in SUBSET Message : held = wrapper[i].held
      BY <1>1 DEF Process
    <3>2. self \in Work
      BY <1>1
    <3> HIDE DEF self
    <3> QED
      BY <1>1, <1>5, <3>1, <3>2 DEF Work, Pc, Reason
  <2>3. work' = [work EXCEPT !["wrapper"] = begun]
    BY <1>7 DEF ArriveCompleted
  <2> HIDE DEF begun
  <2>4. work' \in [Worker -> Work] /\ OthersStay("wrapper") /\ work'["wrapper"] = begun
    BY <1>1, <2>2, <2>3 DEF OthersStay
  <2>5. WorkHolds("wrapper")'
    BY <2>2, <2>4 DEF WorkHolds, Sends, Delivers, Executes
  <2> QED
    BY <1>1, <2>1, <2>4, <2>5, StepTypes
<1>8. CASE Repair
  <2>1. self.run \in 0..MaxRuns
    BY <1>1, <1>8 DEF Repair, May, WorkHolds
  <2>2. PICK r \in 0..MaxRuns : r = self.run
    BY <2>1
  <2>3. msgs' \in [Message -> MessageState]
    BY <1>1, <1>8, <2>2, EnsuredType DEF Repair
  <2>4. StorageTypes'
    BY <1>1, <1>8, <2>3 DEF Repair, StorageTypes, LeaseOK, bounds, MessageState, Status
  <2>5. Go("wrapper", "batch") /\ self.pc # "idle" /\ "batch" \in Pc
        /\ "batch" \notin Sends \cup Delivers
    BY <1>8 DEF Repair, May, Pc, Sends, Delivers, Executes
  <2> QED
    BY <1>1, <2>4, <2>5, MoveTypes
<1>9. UNCHANGED <<storage, wrapper, bounds>> => StorageTypes'
  BY <1>1 DEF storage, bounds, StorageTypes, LeaseOK
<1>10. ASSUME NEW kind \in Settles["wrapper"], StorageTypes', self.pc = "batch",
              GoSettle("wrapper", kind, self.run, Accepted(self.run))
       PROVE  TypeInv'
  <2>1. PICK r \in 0..MaxRuns : r = self.run
    BY <1>1, <1>10 DEF WorkHolds
  <2>2. Accepted(r) \in SUBSET Message /\ GoSettle("wrapper", kind, r, Accepted(r))
    BY <1>10, <2>1 DEF Accepted
  <2> QED
    BY <1>1, <1>10, <2>2, GoSettleTypes
<1>11. CASE FailBatch
  BY <1>1, <1>9, <1>10, <1>11 DEF FailBatch, May
<1>12. CASE BreakBatch
  <2>1. StorageTypes'
    BY <1>1, <1>12, LeaseStep DEF BreakBatch
  <2> QED
    BY <1>1, <1>10, <1>12, <2>1 DEF BreakBatch, May
<1>13. CASE SealBatch
  BY <1>1, <1>9, <1>10, <1>13 DEF SealBatch, May
<1>14. CASE StopMissing
  <2>1. StorageTypes'
    BY <1>1, <1>14, LeaseStep DEF StopMissing
  <2>2. /\ Go("wrapper", "clear") /\ self.pc = "stop-missing" /\ "clear" \in Pc
        /\ "clear" \notin Sends \cup Delivers \cup { "settle", "stop-missing" }
        /\ self.kind \in Settles["wrapper"] \ { "pending" }
    BY <1>1, <1>14 DEF StopMissing, May, Pc, Sends, Delivers, Executes, WorkHolds
  <2> QED
    BY <1>1, <2>1, <2>2, MoveTypes
<1>15. CASE Retain
  <2>1. StorageTypes'
    BY <1>1, <1>15, WarmLease, RunTypes, WrapperAssumption
       DEF Retain, StorageTypes, LeaseOK, bounds
  <2> QED
    BY <1>1, <1>15, <2>1, ReturnTypes DEF Retain
<1> QED
  BY <1>2, <1>4, <1>6, <1>7, <1>8, <1>11, <1>12, <1>13, <1>14, <1>15 DEF Terminal

(* The alarm; a step of the delivery returns, or goes on with what it       *)
(* knows.                                                                   *)
LEMMA AlarmStepTypes ==
  ASSUME TypeInv, StorageTypes', GateOK', NEW new \in Work,
         work' = [work EXCEPT !["alarm"] = new],
         new.pc \in Sends \cup Delivers => new.msg \in Message,
         new.pc = "observe" => new.kind \in { None, "owns_wrapper" },
         new.pc \in Delivers => new.run \in 0..MaxRuns,
         new.pc \notin { "settle", "stop-missing", "clear" }
  PROVE  TypeInv'
<1>1. work \in [Worker -> Work] /\ "alarm" \in Worker
  BY TypeParts DEF Worker
<1>2. work' \in [Worker -> Work] /\ OthersStay("alarm") /\ work'["alarm"] = new
  BY <1>1 DEF OthersStay
<1>3. WorkHolds("alarm")'
  BY <1>2 DEF WorkHolds
<1> QED
  BY <1>1, <1>2, <1>3, StepTypes

LEMMA AlarmTypes ==
  ASSUME TypeInv,
         AlarmFires \/ AlarmIsSet \/ ServerIdles \/ \E m \in Message : Flush(m)
  PROVE  TypeInv'
<1> DEFINE self == work["alarm"]
<1>1. /\ StorageTypes /\ LeaseOK /\ work \in [Worker -> Work] /\ GateOK
      /\ run \in Run /\ "alarm" \in Worker /\ "alarm" \in Maintainer /\ self \in Work
      /\ Keeps(lease, RequestStop(lease))
  BY TypeParts, LeaseIsKept DEF StorageTypes, Worker, Maintainer
<1>2. UNCHANGED <<storage, wrapper, bounds>> => StorageTypes'
  BY <1>1 DEF storage, bounds, StorageTypes, LeaseOK
<1>3. CASE AlarmFires
  BY <1>1, <1>2, <1>3, BeginTypes DEF AlarmFires
<1>4. CASE AlarmIsSet
  <2>1. StorageTypes' /\ GateOK'
    BY <1>1, <1>4, RunTypes DEF AlarmIsSet, StorageTypes, LeaseOK, bounds, GateOK
  <2>2. IdleWork.pc \notin Sends \cup Delivers \cup { "observe", "settle", "stop-missing", "clear" }
    BY IdleType DEF Sends, Delivers, Executes
  <2> HIDE DEF self
  <2> QED
    BY <1>4, <2>1, <2>2, IdleType, AlarmStepTypes DEF AlarmIsSet
<1>5. CASE ServerIdles
  <2>1. StorageTypes'
    BY <1>1, <1>5 DEF ServerIdles, StorageTypes, LeaseOK, Keeps, bounds
  <2> QED
    BY <1>1, <1>5, <2>1, PlainTypes DEF ServerIdles, Plain
<1>6. ASSUME NEW m \in Message, Flush(m) PROVE TypeInv'
  <2> DEFINE pc == CASE ~lease.exhausted -> "send"
                     [] Probing -> "forced-join"
                     [] OTHER -> "forced"
             new == [self EXCEPT !.msg = m, !.pc = pc]
  <2>1. pc \in { "send", "forced-join", "forced" }
    OBVIOUS
  <2>2. work' = [work EXCEPT !["alarm"] = new]
    BY <1>1, <1>6 DEF Flush
  <2> HIDE DEF pc, self
  <2>3. pc \in Pc /\ pc # "observe" /\ pc \notin Delivers
    BY <2>1 DEF Pc, Sends, Delivers, Executes
  <2>4. new \in Work /\ new.pc = pc /\ new.msg = m
    BY <1>1, <2>3 DEF Work
  <2> HIDE DEF new
  <2>5. StorageTypes' /\ GateOK'
    BY <1>1, <1>2, <1>6 DEF Flush, GateOK
  <2> QED
    BY <2>1, <2>2, <2>3, <2>4, <2>5, AlarmStepTypes
<1> QED
  BY <1>3, <1>4, <1>5, <1>6

LEMMA AuthorizeTypes ==
  ASSUME TypeInv,
         \/ ForcedRecheck \/ SendHeld \/ Observe \/ Reauthorize \/ Reuse
         \/ AllocateInstance \/ ObservesUnexpected
  PROVE  TypeInv'
<1> DEFINE self == work["alarm"]
<1>1. /\ StorageTypes /\ LeaseOK /\ work \in [Worker -> Work] /\ GateOK
      /\ run \in Run /\ "alarm" \in Worker /\ self \in Work
      /\ msgs \in [Message -> MessageState] /\ WorkHolds("alarm")
      /\ Keeps(lease, RequestStop(lease)) /\ Keeps(lease, EmptyLease(lease.gen))
      /\ Keeps(lease, lease)
  BY TypeParts, LeaseIsKept DEF StorageTypes, Worker, MessageState, Status
<1>2. UNCHANGED <<storage, wrapper, bounds>> => StorageTypes'
  BY <1>1 DEF storage, bounds, StorageTypes, LeaseOK
<1>3. self.pc \in { "forced", "forced-join", "send", "observe" } => self.msg \in Message
  BY <1>1 DEF WorkHolds, Sends
<1>4. ASSUME Keeps(lease, lease'), UNCHANGED <<run, grace, served, wrapper, bounds>>,
             msgs' \in [Message -> MessageState]
      PROVE  StorageTypes'
  BY <1>1, <1>4 DEF StorageTypes, LeaseOK, Keeps, bounds, MessageState, Status
<1>5. CASE ForcedRecheck
  <2>1. self.pc \in { "forced", "forced-join" } /\ self.msg \in Message
    BY <1>3, <1>5 DEF ForcedRecheck, May
  <2>2. PICK m \in Message : m = self.msg
    BY <2>1
  <2>3. Keeps(lease, lease')
    BY <1>1, <1>5 DEF ForcedRecheck
  <2>4. CASE Cleaning(lease')
    <3>1. msgs' \in [Message -> MessageState]
      BY <1>1, <1>5, <2>2, <2>4, SettledType DEF ForcedRecheck, DeliveryFails
    <3>2. StorageTypes'
      BY <1>4, <1>5, <2>3, <3>1 DEF ForcedRecheck
    <3> QED
      BY <1>1, <1>5, <2>4, <3>2, ReturnTypes DEF ForcedRecheck
  <2>5. CASE ~Cleaning(lease')
    <3>1. StorageTypes'
      BY <1>1, <1>4, <1>5, <2>3, <2>5 DEF ForcedRecheck
    <3>2. Go("alarm", "send") /\ "send" \in Pc /\ "send" \notin Delivers
      BY <1>5, <2>5 DEF ForcedRecheck, Pc, Sends, Delivers, Executes
    <3> QED
      BY <1>1, <2>1, <3>1, <3>2, MoveTypes
  <2> QED
    BY <2>4, <2>5
<1>6. CASE SendHeld
  <2>1. PICK m \in Message : m = self.msg
    BY <1>3, <1>6 DEF SendHeld, May
  <2>2. msgs' \in [Message -> MessageState]
    BY <1>1, <1>6, <2>1, SettledType DEF SendHeld, DeliveryFails
  <2>3. StorageTypes'
    BY <1>1, <1>4, <1>6, <2>2 DEF SendHeld
  <2> QED
    BY <1>1, <1>6, <2>3, ReturnTypes DEF SendHeld
<1>7. CASE Observe
  <2> DEFINE new == [self EXCEPT !.pc = "observe", !.kind = lease.state,
                                 !.inst = lease.inst, !.run = lease.gen,
                                 !.fresh = KeptWarm(lease)]
  <2>1. /\ lease.state \in { None, "owns_wrapper" } /\ lease.inst \in 0..MaxInstances
        /\ lease.gen \in 0..(MaxRuns + MaxInstances + 1)
    BY <1>1, <1>7, WrapperAssumption DEF Observe, Cleaning, LeaseOK, Lease
  <2>2. self.msg \in Message
    BY <1>3, <1>7 DEF Observe, May
  <2>3. work' = [work EXCEPT !["alarm"] = new]
    BY <1>7 DEF Observe
  <2>7. KeptWarm(lease) \in BOOLEAN
    BY DEF KeptWarm
  <2> HIDE DEF self
  <2>4. new \in Work /\ new.pc = "observe" /\ new.msg = self.msg /\ new.kind = lease.state
    BY <1>1, <2>1, <2>7 DEF Work, Pc, Sends
  <2> HIDE DEF new
  <2>5. StorageTypes' /\ GateOK'
    BY <1>2, <1>7 DEF Observe, GateOK
  <2>6. new.pc \notin Delivers
    BY <2>4 DEF Delivers, Executes
  <2> QED
    BY <2>1, <2>2, <2>3, <2>4, <2>5, <2>6, AlarmStepTypes
<1>8. CASE Reauthorize
  <2>1. Go("alarm", "send") /\ "send" \in Pc /\ "send" \notin Delivers /\ self.msg \in Message
    BY <1>3, <1>8 DEF Reauthorize, May, Pc, Sends, Delivers, Executes
  <2> QED
    BY <1>1, <1>2, <1>8, <2>1, MoveTypes DEF Reauthorize
<1>9. ASSUME NEW i \in 0..MaxInstances, NEW fresh \in BOOLEAN, StorageTypes', gate' = "alarm",
             self.pc = "observe",
             work' = [work EXCEPT !["alarm"] = [@ EXCEPT !.pc = "identity", !.inst = i,
                                                         !.fresh = fresh]]
      PROVE  TypeInv'
  <2> DEFINE new == [self EXCEPT !.pc = "identity", !.inst = i, !.fresh = fresh]
  <2>1. self.msg \in Message
    BY <1>3, <1>9
  <2>2. work' = [work EXCEPT !["alarm"] = new]
    BY <1>9
  <2> HIDE DEF self
  <2>3. new \in Work /\ new.pc = "identity" /\ new.msg = self.msg
    BY <1>1 DEF Work, Pc, Sends
  <2> HIDE DEF new
  <2>4. GateOK' /\ new.pc \notin Delivers
    BY <1>9, <2>3 DEF GateOK, Worker, Delivers, Executes
  <2> QED
    BY <1>9, <2>1, <2>2, <2>3, <2>4, AlarmStepTypes
<1>10. CASE Reuse
  <2>1. LeaseOK'
    BY <1>1, <1>10, WarmLease DEF Reuse, LeaseOK
  <2>2. StorageTypes'
    BY <1>1, <1>10, <2>1 DEF Reuse, StorageTypes, bounds
  <2>3. Go("alarm", "identity") /\ "identity" \in Pc /\ "identity" \in Sends
        /\ "identity" \notin Delivers /\ self.msg \in Message
    BY <1>3, <1>10 DEF Reuse, May, Pc, Sends, Delivers, Executes
  <2> QED
    BY <1>1, <2>2, <2>3, MoveTypes
<1>11. CASE AllocateInstance
  <2>1. ~Cleaning(lease)
    BY <1>1, <1>11 DEF AllocateInstance, SameAuthorization, May, WorkHolds, Cleaning, None
  <2>2. LeaseOK' /\ lease.gen \in 0..MaxInstances
    BY <1>1, <1>11, <2>1, AllocatedLease, WrapperAssumption DEF AllocateInstance, LeaseOK, Lease
  <2>3. StorageTypes'
    BY <1>1, <1>11, <2>2 DEF AllocateInstance, StorageTypes, bounds
  <2> QED
    BY <1>9, <1>11, <2>2, <2>3 DEF AllocateInstance, May
<1>12. CASE ObservesUnexpected
  <2>1. self.msg \in Message
    BY <1>3, <1>12 DEF ObservesUnexpected, May
  <2>2. PICK m \in Message : m = self.msg
    BY <2>1
  <2>3. msgs' \in [Message -> MessageState]
    BY <1>1, <1>12, <2>2, SettledType DEF ObservesUnexpected, DeliveryFails
  <2>4. StorageTypes'
    BY <1>1, <1>4, <1>12, <2>3 DEF ObservesUnexpected
  <2> QED
    BY <1>1, <1>12, <2>4, ReturnTypes DEF ObservesUnexpected
<1> QED
  BY <1>5, <1>6, <1>7, <1>8, <1>10, <1>11, <1>12

(* A run can be allocated where one is needed: what a wrapper is observed   *)
(* for is done in the same storage segment.                                 *)
RoomForRun ==
  work["alarm"].pc = "identity" =>
    gate = "alarm" /\ (work["alarm"].fresh \/ run.id = 0 => lastRun < MaxRuns)

LEMMA ProcessTypes ==
  ASSUME wrapper \in [Instance -> Process], NEW i, NEW r \in 0..MaxRuns,
         NEW m \in Message
  PROVE  /\ [wrapper EXCEPT ![i] = [wrapper[i] EXCEPT !.phase = "launching", !.held = {},
                                                      !.sealed = FALSE]]
              \in [Instance -> Process]
         /\ [wrapper EXCEPT ![i] = [wrapper[i] EXCEPT !.run = r, !.sealed = FALSE]]
              \in [Instance -> Process]
         /\ [wrapper EXCEPT ![i] = [wrapper[i] EXCEPT !.held = wrapper[i].held \cup { m },
                                                      !.linked = "yes"]]
              \in [Instance -> Process]
<1> DEFINE old == wrapper[i]
<1>1. i \in Instance => old \in Process
  OBVIOUS
<1>2. ASSUME NEW new, i \in Instance => new \in Process
      PROVE  [wrapper EXCEPT ![i] = new] \in [Instance -> Process]
  BY <1>2
<1> HIDE DEF old
<1>3. old \in Process => /\ [old EXCEPT !.phase = "launching", !.held = {}, !.sealed = FALSE]
                              \in Process
                         /\ [old EXCEPT !.run = r, !.sealed = FALSE] \in Process
                         /\ [old EXCEPT !.held = old.held \cup { m }, !.linked = "yes"]
                              \in Process
  BY DEF Process
<1> QED
  BY <1>1, <1>2, <1>3 DEF old

LEMMA DeliverTypes ==
  ASSUME TypeInv, RoomForRun,
         \/ Identify \/ Launch \/ WorkspaceReady \/ Prompt \/ Refused \/ ExecuteFails
         \/ WatchAccepted \/ Accept \/ Delivered
  PROVE  TypeInv'
<1> DEFINE self == work["alarm"]
<1>1. /\ StorageTypes /\ LeaseOK /\ work \in [Worker -> Work] /\ GateOK
      /\ run \in Run /\ "alarm" \in Worker /\ self \in Work
      /\ msgs \in [Message -> MessageState] /\ WorkHolds("alarm")
      /\ Keeps(lease, RequestStop(lease)) /\ Keeps(lease, lease)
      /\ wrapper \in [Instance -> Process] /\ grace \in 0..MaxRuns
      /\ run.id \in 0..MaxRuns /\ lastRun \in 0..MaxRuns
  BY TypeParts, LeaseIsKept DEF StorageTypes, Worker, MessageState, Status, Run
<1>2. /\ self.pc \in Delivers => self.msg \in Message /\ self.run \in 0..MaxRuns
      /\ self.pc = "identity" => self.msg \in Message
  BY <1>1 DEF WorkHolds, Sends
<1>3. ASSUME LeaseOK', run' \in Run, grace' \in 0..MaxRuns, msgs' \in [Message -> MessageState],
             served' \in BOOLEAN, wrapper' \in [Instance -> Process], UNCHANGED bounds
      PROVE  StorageTypes'
  BY <1>1, <1>3 DEF StorageTypes, LeaseOK, bounds, MessageState, Status
<1>4. ASSUME NEW pc \in Delivers, Go("alarm", pc) \/ Await("alarm", pc), StorageTypes',
             self.pc \in Delivers
      PROVE  TypeInv'
  <2>1. pc \in Pc /\ pc \notin { "observe", "settle", "stop-missing", "clear" }
    BY <1>4 DEF Pc, Delivers, Executes
  <2> QED
    BY <1>1, <1>2, <1>4, <2>1, MoveTypes
<1>5. CASE Identify
  <2> DEFINE fresh == self.fresh \/ run.id = 0
             id == IF fresh THEN lastRun + 1 ELSE run.id
             new == [self EXCEPT !.pc = "execute", !.fresh = fresh, !.run = run'.id]
  <2>1. fresh \in BOOLEAN /\ self.msg \in Message
    BY <1>1, <1>2, <1>5 DEF Identify, May, Work
  <2>2. fresh => lastRun + 1 \in 0..MaxRuns
    BY <1>1, <1>5, WrapperAssumption DEF Identify, May, RoomForRun
  <2>3. work' = [work EXCEPT !["alarm"] = new] /\ gate' = "open"
    BY <1>5 DEF Identify
  <2>4. run' = IF fresh THEN NewRun(lastRun + 1) ELSE run
    BY <1>5 DEF Identify
  <2>5. run' \in Run /\ run'.id \in 0..MaxRuns /\ lastRun' \in 0..MaxRuns
    <3>1. CASE fresh
      BY <1>5, <2>2, <2>4, <3>1 DEF Identify, Run, NewRun, None
    <3>2. CASE ~fresh
      BY <1>1, <1>5, <2>4, <3>2 DEF Identify
    <3> QED
      BY <3>1, <3>2
  <2>6. grace' \in 0..MaxRuns
    BY <1>1, <1>5, WrapperAssumption DEF Identify
  <2>7. StorageTypes' /\ GateOK'
    BY <1>1, <1>5, <2>3, <2>5, <2>6 DEF Identify, StorageTypes, LeaseOK, GateOK
  <2>8. run'.id \in 0..(MaxRuns + MaxInstances + 1)
    BY <2>5, WrapperAssumption
  <2> HIDE DEF self, fresh
  <2>9. new \in Work /\ new.pc = "execute" /\ new.msg = self.msg /\ new.run = run'.id
    BY <1>1, <2>1, <2>8 DEF Work, Pc, Delivers, Executes
  <2> HIDE DEF new
  <2> QED
    BY <2>1, <2>3, <2>5, <2>7, <2>9, AlarmStepTypes
<1>6. CASE Launch
  <2>1. wrapper' \in [Instance -> Process]
    <3>1. PICK i : i = self.inst
      OBVIOUS
    <3>2. PICK m \in Message : m = self.msg
      BY <1>2, <1>6 DEF Launch, May, Delivers, Executes
    <3>3. 0 \in 0..MaxRuns
      BY WrapperAssumption
    <3> QED
      BY <1>1, <1>6, <3>1, <3>2, <3>3, ProcessTypes DEF Launch
  <2>2. StorageTypes'
    BY <1>1, <1>6, <2>1 DEF Launch, storage, bounds, StorageTypes, LeaseOK
  <2>3. Await("alarm", "launched") /\ self.pc \in Delivers /\ "launched" \in Delivers
    BY <1>6 DEF Launch, May, Delivers, Executes
  <2> QED
    BY <1>4, <2>2, <2>3
<1>7. CASE WorkspaceReady
  <2>1. Await("alarm", "prompt") /\ self.pc \in Delivers /\ "prompt" \in Delivers
    BY <1>7 DEF WorkspaceReady, Executing, May, Delivers, Executes
  <2>2. PICK i \in 0..MaxInstances, m \in Message, r \in 0..MaxRuns :
          i = self.inst /\ m = self.msg /\ r = self.run
    BY <1>1, <1>2, <2>1 DEF Work
  <2>3. wrapper' = [wrapper EXCEPT ![i] = [wrapper[i] EXCEPT !.run = r, !.sealed = FALSE]]
    BY <1>7, <2>2 DEF WorkspaceReady
  <2>4. wrapper' \in [Instance -> Process]
    BY <1>1, <2>3, ProcessTypes
  <2>5. run' \in Run
    BY <1>1, <1>7, <2>2 DEF WorkspaceReady, UpdateIfCurrent, Run
  <2>6. LeaseOK'
    BY <1>1, <1>7, <2>2, DeadlineIsKept DEF WorkspaceReady, Keeps, LeaseOK
  <2>7. StorageTypes'
    BY <1>1, <1>3, <1>7, <2>4, <2>5, <2>6 DEF WorkspaceReady, StorageTypes
  <2> QED
    BY <1>4, <2>1, <2>7
<1>8. CASE Prompt
  <2>1. Await("alarm", "accepted") /\ self.pc \in Delivers /\ "accepted" \in Delivers
    BY <1>8 DEF Prompt, May, Delivers, Executes
  <2>2. PICK i \in 0..MaxInstances, m \in Message, r \in 0..MaxRuns :
          i = self.inst /\ m = self.msg /\ r = self.run
    BY <1>1, <1>2, <2>1 DEF Work
  <2>3. wrapper' = [wrapper EXCEPT ![i] = [wrapper[i] EXCEPT
                      !.held = wrapper[i].held \cup { m }, !.linked = "yes"]]
    BY <1>8, <2>2 DEF Prompt
  <2>4. wrapper' \in [Instance -> Process]
    BY <1>1, <2>3, ProcessTypes
  <2>5. grace' \in 0..MaxRuns
    BY <1>1, <1>8, WrapperAssumption DEF Prompt
  <2>6. StorageTypes'
    BY <1>1, <1>3, <1>8, <2>4, <2>5 DEF Prompt, LeaseOK, StorageTypes
  <2> QED
    BY <1>4, <2>1, <2>6
<1>9. CASE Refused
  <2>1. run' \in Run
    BY <1>1, <1>9 DEF Refused, UpdateIfCurrent, Run, None
  <2>2. StorageTypes'
    BY <1>1, <1>3, <1>9, <2>1 DEF Refused, LeaseOK, StorageTypes
  <2> QED
    BY <1>1, <1>9, <2>2, ReturnTypes DEF Refused
<1>10. CASE ExecuteFails
  <2>1. run' \in Run
    BY <1>1, <1>10, RunTypes DEF ExecuteFails, UpdateIfCurrent, ClearIdentity, Run, None
  <2>2. LeaseOK'
    BY <1>1, <1>10 DEF ExecuteFails, Keeps, LeaseOK
  <2>3. self.pc \in Delivers
    BY <1>10 DEF ExecuteFails, Executing, May, Delivers, Executes
  <2>4. PICK m \in Message : m = self.msg
    BY <1>2, <2>3
  <2>5. msgs' \in [Message -> MessageState]
    BY <1>1, <1>10, <2>4, SettledType DEF ExecuteFails, DeliveryFails
  <2>6. StorageTypes'
    BY <1>1, <1>3, <1>10, <2>1, <2>2, <2>5 DEF ExecuteFails, StorageTypes
  <2> QED
    BY <1>1, <1>10, <2>6, ReturnTypes DEF ExecuteFails
<1>11. CASE WatchAccepted
  <2>1. run' \in Run
    BY <1>1, <1>11, RunTypes DEF WatchAccepted, UpdateIfCurrent, Run
  <2>2. StorageTypes'
    BY <1>1, <1>3, <1>11, <2>1 DEF WatchAccepted, LeaseOK, StorageTypes
  <2>3. Go("alarm", "accept") /\ self.pc \in Delivers /\ "accept" \in Delivers
    BY <1>11 DEF WatchAccepted, May, Delivers
  <2> QED
    BY <1>4, <2>2, <2>3
<1>12. CASE Accept
  <2>1. Go("alarm", "delivered") /\ self.pc \in Delivers /\ "delivered" \in Delivers
    BY <1>12 DEF Accept, May, Delivers
  <2>2. PICK m \in Message, r \in 0..MaxRuns : m = self.msg /\ r = self.run
    BY <1>2, <2>1
  <2>3. msgs' = IF msgs[m].status = "queued"
                 THEN [msgs EXCEPT ![m] = [ status |-> "accepted", run |-> r,
                                            observed |-> TRUE ]]
                 ELSE msgs
    BY <1>12, <2>2 DEF Accept
  <2>4. msgs' \in [Message -> MessageState]
    BY <1>1, <2>3 DEF MessageState, Status
  <2>5. StorageTypes'
    BY <1>1, <1>3, <1>12, <2>4 DEF Accept, LeaseOK, StorageTypes
  <2> QED
    BY <1>4, <2>1, <2>5
<1>13. CASE Delivered
  <2>1. run' \in Run
    BY <1>1, <1>13 DEF Delivered, UpdateIfCurrent, Run, None
  <2>2. PICK i : i = self.inst
    OBVIOUS
  <2>3. LeaseOK'
    BY <1>1, <1>13, <2>2, DeadlineIsKept DEF Delivered, Keeps, LeaseOK
  <2>4. StorageTypes'
    BY <1>1, <1>3, <1>13, <2>1, <2>3 DEF Delivered, StorageTypes
  <2> QED
    BY <1>1, <1>13, <2>4, ReturnTypes DEF Delivered
<1> QED
  BY <1>5, <1>6, <1>7, <1>8, <1>9, <1>10, <1>11, <1>12, <1>13

(* The sandbox moves no handler. *)
LEMMA SandboxTypes ==
  ASSUME TypeInv, Sandbox
  PROVE  TypeInv'
<1>1. /\ StorageTypes /\ LeaseOK /\ work \in [Worker -> Work] /\ GateOK
      /\ run \in Run /\ "alarm" \in Worker /\ wrapper \in [Instance -> Process]
      /\ \A v \in Worker : WorkHolds(v)
  BY TypeParts DEF StorageTypes, Worker
<1>2. ASSUME run' \in Run, grace' \in 0..MaxRuns, wrapper' \in [Instance -> Process],
             faults' \in 0..MaxFaults,
             UNCHANGED <<lease, msgs, served, gate, work, lastRun, crashes>>
      PROVE  TypeInv'
  <2>1. StorageTypes' /\ GateOK'
    BY <1>1, <1>2 DEF StorageTypes, LeaseOK, GateOK
  <2>2. OthersStay("alarm") /\ WorkHolds("alarm")'
    BY <1>1, <1>2 DEF OthersStay, WorkHolds
  <2> QED
    BY <1>1, <1>2, <2>1, <2>2, StepTypes
<1>3. PICK i \in Instance :
        \/ Started(i) \/ Seal(i) \/ Fails(i) \/ Dies(i) \/ Drops(i)
        \/ Disconnected(i) \/ Reconnect(i)
        \/ Loses(i) \/ Pong(i) \/ Output(i)
  BY DEF Sandbox
<1> DEFINE old == wrapper[i]
           Replaces(new) == new \in Process /\ wrapper' = [wrapper EXCEPT ![i] = new]
<1>4. old \in Process
  BY <1>1
<1>5. NewProcess("gone") \in Process
  BY WrapperAssumption DEF NewProcess, Process, None
<1>6. ASSUME NEW new, Replaces(new) PROVE wrapper' \in [Instance -> Process]
  BY <1>1, <1>6
<1>7. run \in Run /\ grace \in 0..MaxRuns /\ faults \in 0..MaxFaults
  BY <1>1 DEF StorageTypes
<1> HIDE DEF old
<1>8. CASE Started(i)
  <2>1. PICK phase \in { "up", "gone" } : wrapper' = [wrapper EXCEPT ![i] = [old EXCEPT !.phase = phase]]
    BY <1>8 DEF Started, old
  <2>2. Replaces([old EXCEPT !.phase = phase])
    BY <1>4, <2>1 DEF Process
  <2> QED
    BY <1>2, <1>6, <1>7, <1>8, <2>2 DEF Started, storage, bounds
<1>9. CASE Seal(i)
  <2>1. Replaces([old EXCEPT !.sealed = TRUE, !.out = "finalizing"])
    BY <1>4, <1>9 DEF Seal, Process, old
  <2> QED
    BY <1>2, <1>6, <1>7, <1>9, <2>1 DEF Seal, storage, bounds
<1>10. CASE Fails(i)
  <2>1. Replaces([old EXCEPT !.sealed = TRUE, !.out = "failed"])
    BY <1>4, <1>10 DEF Fails, Process, old
  <2> QED
    BY <1>2, <1>6, <1>7, <1>10, <2>1 DEF Fails, storage, bounds
<1>11. CASE Dies(i)
  <2>1. PICK out \in { old.out, None } : wrapper' = [wrapper EXCEPT ![i] =
          IF old.linked = "no" THEN NewProcess("gone")
          ELSE [old EXCEPT !.phase = "gone", !.out = out, !.linked = "closing",
                           !.held = IF out = None THEN {} ELSE old.held]]
    BY <1>11 DEF Dies, old
  <2>2. [old EXCEPT !.phase = "gone", !.out = out, !.linked = "closing",
                    !.held = IF out = None THEN {} ELSE old.held] \in Process
    BY <1>4 DEF Process, None
  <2>3. \E new : Replaces(new)
    BY <1>5, <2>1, <2>2
  <2> QED
    BY <1>2, <1>6, <1>7, <1>11, <2>3 DEF Dies, storage, bounds
<1>12. CASE Drops(i)
  <2>1. Replaces([old EXCEPT !.linked = "closing"])
    BY <1>4, <1>12 DEF Drops, Process, old
  <2>2. faults' \in 0..MaxFaults
    BY <1>7, <1>12, WrapperAssumption DEF Drops
  <2> QED
    BY <1>2, <1>6, <1>7, <1>12, <2>1, <2>2 DEF Drops, storage
<1>13. CASE Disconnected(i)
  <2>1. \E new : Replaces(new)
    <3>1. CASE old.phase = "gone"
      <4>1. Replaces(NewProcess("gone"))
        BY <1>5, <1>13, <3>1 DEF Disconnected, old
      <4> QED
        BY <4>1
    <3>2. CASE old.phase # "gone"
      <4>1. Replaces([old EXCEPT !.linked = "no"])
        BY <1>4, <1>13, <3>2 DEF Disconnected, old, Process
      <4> QED
        BY <4>1
    <3> QED
      BY <3>1, <3>2
  <2>2. run' \in Run /\ grace' \in 0..MaxRuns
    BY <1>1, <1>7, <1>13, RunTypes DEF Disconnected, Run
  <2> QED
    BY <1>2, <1>6, <1>7, <1>13, <2>1, <2>2 DEF Disconnected, bounds
<1>14. CASE Reconnect(i)
  <2>1. Replaces([old EXCEPT !.linked = "yes"])
    BY <1>4, <1>14 DEF Reconnect, Process, old
  <2>2. run' \in Run /\ grace' \in 0..MaxRuns
    BY <1>1, <1>7, <1>14, RunTypes, WrapperAssumption DEF Reconnect
  <2> QED
    BY <1>2, <1>6, <1>7, <1>14, <2>1, <2>2 DEF Reconnect, bounds
<1>15. CASE Loses(i)
  <2>1. Replaces([old EXCEPT !.out = None, !.held = {}, !.sealed = TRUE])
    BY <1>4, <1>15 DEF Loses, Process, None, old
  <2> QED
    BY <1>2, <1>6, <1>7, <1>15, <2>1 DEF Loses, storage, bounds
<1>16. CASE Pong(i)
  BY <1>1, <1>2, <1>7, <1>16, RunTypes DEF Pong, bounds
<1>17. CASE Output(i)
  BY <1>1, <1>2, <1>7, <1>17, RunTypes DEF Output, bounds
<1> QED
  BY <1>3, <1>8, <1>9, <1>10, <1>11, <1>12, <1>13, <1>14, <1>15, <1>16, <1>17

LEMMA CrashTypes ==
  ASSUME TypeInv, Crash
  PROVE  TypeInv'
<1>1. StorageTypes /\ wrapper \in [Instance -> Process]
  BY TypeParts DEF StorageTypes
<1>2. wrapper' \in [Instance -> Process]
  <2>1. NewProcess("gone") \in Process
    BY WrapperAssumption DEF NewProcess, Process, None
  <2>2. ASSUME NEW i \in Instance
        PROVE  [wrapper[i] EXCEPT !.linked = "no",
                  !.out = IF @ = "finalizing" THEN "completed" ELSE @] \in Process
    BY <1>1 DEF Process
  <2> QED
    BY <1>1, <2>1, <2>2 DEF Crash
<1>3. crashes' \in 0..MaxCrashes
  <2>1. crashes \in 0..MaxCrashes
    BY <1>1 DEF StorageTypes
  <2>2. crashes < MaxCrashes /\ crashes' = crashes + 1
    BY DEF Crash
  <2> QED
    BY <2>1, <2>2, WrapperAssumption
<1>4. StorageTypes' /\ GateOK'
  BY <1>1, <1>2, <1>3 DEF Crash, StorageTypes, LeaseOK, storage, GateOK
<1>5. work' \in [Worker -> Work] /\ \A w \in Worker : work'[w] = IdleWork
  BY IdleType DEF Crash
<1>6. \A w \in Worker : WorkHolds(w)'
  BY <1>5, IdleType DEF WorkHolds, Sends, Delivers, Executes
<1>7. ASSUME NEW v \in Worker
      PROVE  /\ work'[v].todo \subseteq Message
             /\ work'[v].run \in 0..(MaxRuns + MaxInstances + 1)
             /\ work'[v].inst \in 0..MaxInstances
  BY <1>5, <1>7 DEF Work
<1> QED
  BY <1>4, <1>5, <1>6, <1>7 DEF TypeInv, TypeOK, StorageTypes, GateOK, LeaseOK

-----------------------------------------------------------------------------
(* The turns of the handlers.                                              *)

(* What a handler does in one storage segment with the step before it: no  *)
(* other handler runs meanwhile.                                           *)
Segment ==
  { "interrupt", "clear", "repair", "batch", "stop-missing", "retain",
    "identity", "accept", "delivered" } \cup (IF Awaited THEN {} ELSE { "settle" })

SegmentsHold == \A w \in Worker : work[w].pc \in Segment => gate = w

Turn(w) ==
  /\ gate \in { "open", w } /\ OthersStay(w)
  /\ work'[w].pc \in Segment => gate' = w

(* The handler delivers nothing, or no longer. *)
Leaves(w) == work'[w].pc \notin Sends \cup Delivers

LEMMA SegmentPc ==
  /\ Segment \cap (Plain \cup { "idle", "rearm" }) = {}
  /\ (Plain \cup { "idle", "rearm", "settle", "interrupt", "clear", "repair", "batch",
                   "stop-missing", "retain" }) \cap (Sends \cup Delivers) = {}
  BY DEF Segment, Plain, Sends, Delivers, Executes

LEMMA TurnHolds ==
  ASSUME SegmentsHold, NEW w \in Worker, Turn(w)
  PROVE  /\ SegmentsHold'
         /\ \A v \in Worker \ { w } : work[v].pc \notin Segment
<1>1. \A v \in Worker : v # "open"
  BY DEF Worker
<1>2. \A v \in Worker \ { w } : work[v].pc \notin Segment
  BY <1>1 DEF SegmentsHold, Turn
<1> QED
  BY <1>2 DEF SegmentsHold, Turn, OthersStay

LEMMA GoTurn ==
  ASSUME TypeInv, NEW w \in Worker, NEW pc \in Pc, gate \in { "open", w },
         Go(w, pc) \/ (Await(w, pc) /\ pc \notin Segment)
  PROVE  Turn(w) /\ Moves(w, pc) /\ (pc \notin Sends \cup Delivers => Leaves(w))
<1>1. Moves(w, pc) /\ (Go(w, pc) => gate' = w)
  BY TypeParts, GoType, AwaitType
<1> QED
  BY <1>1 DEF Turn, Moves, Leaves

LEMMA PlainTurn ==
  ASSUME TypeInv, NEW w \in Worker, NEW pc \in Plain, gate \in { "open", w },
         Go(w, pc) \/ Await(w, pc)
  PROVE  Turn(w) /\ Leaves(w) /\ Moves(w, pc)
<1>1. pc \in Pc /\ pc \notin Segment /\ pc \notin Sends \cup Delivers
  BY SegmentPc DEF Plain, Pc
<1> QED
  BY <1>1, GoTurn

LEMMA ReturnTurn ==
  ASSUME TypeInv, NEW w \in Worker, gate \in { "open", w }, Return(w)
  PROVE  Turn(w) /\ Leaves(w)
         /\ work'[w].pc = (IF w = "alarm" THEN "rearm" ELSE "idle")
<1>1. OthersStay(w) /\ work'[w].pc = (IF w = "alarm" THEN "rearm" ELSE "idle")
  BY TypeParts, ReturnType
<1> QED
  BY <1>1, SegmentPc DEF Turn, Leaves

LEMMA SettleTurn ==
  ASSUME TypeInv, NEW w \in Worker, NEW kind \in Reason, NEW r \in 0..MaxRuns,
         NEW S \in SUBSET Message, gate \in { "open", w }, GoSettle(w, kind, r, S)
  PROVE  Turn(w) /\ Leaves(w)
         /\ work'[w].pc = "settle" /\ work'[w].kind = kind /\ work'[w].run = r
         /\ work'[w].todo = S
<1>1. /\ OthersStay(w) /\ gate' = w
      /\ work'[w].pc = "settle" /\ work'[w].kind = kind /\ work'[w].run = r
      /\ work'[w].todo = S
  BY TypeParts, GoSettleType
<1> QED
  BY <1>1, SegmentPc DEF Turn, Leaves

LEMMA MaintainTurn ==
  ASSUME TypeInv, NEW w \in Maintainer, Maintain(w)
  PROVE  Turn(w) /\ Leaves(w)
<1>1. /\ w \in Worker /\ { "grace", "unhealthy" } \subseteq Reason
      /\ run.id \in 0..MaxRuns /\ Accepted(run.id) \in SUBSET Message
  BY TypeParts DEF Maintainer, Worker, Reason, StorageTypes, Run, Accepted
<1>2. gate \in { "open", w }
  BY DEF Maintain, NothingToClean, RecheckExhausted, JoinRecheck, JoinReturns, StartupExpires,
     StopExpires, StopBegins, StopReturns, ProbeReturns, GraceIsMoot, GraceExpires,
     StopsWatching, SendsPing, TurnsUnhealthy, WarmEnds, Ends, Reaches, May
<1>3. \/ \E pc \in Plain : Go(w, pc) \/ Await(w, pc)
      \/ Return(w)
      \/ \E kind \in { "grace", "unhealthy" } : GoSettle(w, kind, run.id, Accepted(run.id))
  BY DEF Plain, Maintain, NothingToClean, RecheckExhausted, JoinRecheck, JoinReturns,
     StartupExpires, StopExpires, StopBegins, StopReturns, ProbeReturns, GraceIsMoot,
     GraceExpires, StopsWatching, SendsPing, TurnsUnhealthy, WarmEnds, Ends
<1> QED
  BY <1>1, <1>2, <1>3, PlainTurn, ReturnTurn, SettleTurn

LEMMA SettlingTurn ==
  ASSUME TypeInv, NEW w \in Worker, Settle(w) \/ SettleEnds(w) \/ Clear(w)
  PROVE  Turn(w) /\ Leaves(w)
<1>1. work \in [Worker -> Work] /\ WorkHolds(w) /\ gate \in { "open", w }
  BY TypeParts DEF Settle, SettleEnds, Clear, May
<1>2. CASE Settle(w)
  <2>1. CASE SettlesOne(w)
    <3>1. work[w].pc = "settle" /\ \E m : work' = [work EXCEPT ![w].todo = @ \ {m}]
      BY <1>2, <2>1 DEF Settle, SettlesOne, May
    <3>2. OthersStay(w) /\ work'[w].pc = "settle"
      BY <1>1, <3>1 DEF OthersStay, Work
    <3>3. "settle" \in Segment => gate' = w
      BY <2>1 DEF SettlesOne, Segment
    <3> QED
      BY <1>1, <3>2, <3>3, SegmentPc DEF Turn, Leaves
  <2>2. CASE Return(w)
    BY <1>1, <2>2, ReturnTurn
  <2> QED
    BY <1>2, <2>1, <2>2, SettleCases
<1>3. CASE SettleEnds(w)
  <2>1. work[w].kind \in Settles[w]
    BY <1>1, <1>3 DEF SettleEnds, May, WorkHolds
  <2>2. PICK pc \in { "interrupt", "retain", "stop-missing", "clear" } :
          pc = AfterSettle[work[w].kind]
    BY <2>1 DEF AfterSettle, Settles, Worker
  <2>3. Go(w, pc) /\ pc \in Pc /\ pc \notin Sends \cup Delivers
    BY <1>3, <2>2, SegmentPc DEF SettleEnds, Pc
  <2> QED
    BY <1>1, <2>3, GoTurn
<1>4. CASE Clear(w)
  <2>1. work[w].kind \in Settles[w] \ { "pending" }
    BY <1>1, <1>4 DEF Clear, May, WorkHolds
  <2>2. CASE w = "wrapper"
    <3>1. work[w].kind # "user" /\ w \in Worker
      BY <2>1, <2>2 DEF Settles, Worker
    <3>2. Return(w)
      BY <1>4, <2>2, <3>1 DEF Clear
    <3> QED
      BY <1>1, <3>2, ReturnTurn
  <2>3. CASE w # "wrapper" /\ work[w].kind = "user"
    <3>1. lastRun \in 0..MaxRuns /\ BeginMaintenance(w)
      BY <1>4, <2>3, TypeParts DEF Clear, StorageTypes
    <3>2. OthersStay(w) /\ work'[w].pc = "cleanup" /\ gate' = w
      BY <1>1, <3>1, BeginType
    <3> QED
      BY <1>1, <3>2, SegmentPc DEF Turn, Leaves, Plain
  <2>4. CASE w # "wrapper" /\ work[w].kind # "user"
    <3>1. work[w].kind \in { "grace", "unhealthy" }
      BY <2>1, <2>4 DEF Settles, Worker
    <3>2. PICK pc \in { "liveness", "warm" } : pc = AfterClear[work[w].kind]
      BY <3>1 DEF AfterClear
    <3>3. Go(w, pc) /\ pc \in Plain
      BY <1>4, <2>4, <3>2 DEF Clear, Plain
    <3> QED
      BY <1>1, <3>3, PlainTurn
  <2> QED
    BY <2>2, <2>3, <2>4
<1> QED
  BY <1>2, <1>3, <1>4

(* A step of no handler, while none runs. *)
LEMMA OutsideTurn ==
  ASSUME SegmentsHold, NEW w \in Worker, gate = "open", UNCHANGED <<gate, work>>
  PROVE  Turn(w)
  BY DEF SegmentsHold, Turn, OthersStay, Worker

LEMMA UserTurn ==
  ASSUME TypeInv, SegmentsHold, User
  PROVE  Turn("user") /\ (Interrupt \/ InterruptAccepted => Leaves("user"))
<1>1. /\ run.id \in 0..MaxRuns /\ 0 \in 0..MaxRuns /\ "user" \in Worker
      /\ Accepted(run.id) \in SUBSET Message /\ Queued \in SUBSET Message
      /\ { "pending", "user" } \subseteq Reason
  BY TypeParts, WrapperAssumption DEF StorageTypes, Run, Accepted, Queued, Worker, Reason
<1>2. CASE \E m \in Message : Submit(m)
  <2>1. Turn("user")
    BY <1>1, <1>2, OutsideTurn DEF Submit
  <2>2. work' = work /\ gate = "open"
    BY <1>2 DEF Submit
  <2> QED
    BY <1>1, <2>1, <2>2, SettleTurn, ReturnTurn DEF Interrupt, InterruptAccepted, May
<1>3. CASE Interrupt
  BY <1>1, <1>3, SettleTurn DEF Interrupt, May
<1>4. CASE InterruptAccepted
  BY <1>1, <1>4, SettleTurn, ReturnTurn DEF InterruptAccepted, May
<1> QED
  BY <1>2, <1>3, <1>4 DEF User

LEMMA TerminalTurn ==
  ASSUME TypeInv, SegmentsHold, Terminal
  PROVE  Turn("wrapper")
<1>1. /\ "wrapper" \in Worker /\ work \in [Worker -> Work]
      /\ { "failed", "protocol", "completed", "missing" } \subseteq Reason
      /\ WorkHolds("wrapper")
  BY TypeParts DEF Worker, Reason
<1>2. CASE \E i \in Instance : ArriveFinalizing(i)
  BY <1>1, <1>2, OutsideTurn DEF ArriveFinalizing
<1>3. CASE \E i \in Instance : ArriveStale(i)
  BY <1>1, <1>3, SegmentPc DEF ArriveStale, May, Turn, OthersStay
<1>4. CASE \E i \in Instance : ArriveFailed(i) \/ ArriveCompleted(i)
  <2>1. gate \in { "open", "wrapper" } /\ gate' = "wrapper" /\ OthersStay("wrapper")
    BY <1>1, <1>4 DEF ArriveFailed, ArriveCompleted, May, OthersStay
  <2> QED
    BY <2>1 DEF Turn
<1>5. CASE Repair
  BY <1>1, <1>5, GoTurn DEF Repair, May, Pc
<1>6. CASE StopMissing
  BY <1>1, <1>6, GoTurn DEF StopMissing, May, Pc
<1>7. CASE Retain
  BY <1>1, <1>7, ReturnTurn DEF Retain, May
<1>8. CASE FailBatch \/ BreakBatch \/ SealBatch
  <2>1. work["wrapper"].run \in 0..MaxRuns /\ gate \in { "open", "wrapper" }
    BY <1>1, <1>8 DEF FailBatch, BreakBatch, SealBatch, May, WorkHolds
  <2>2. PICK r \in 0..MaxRuns : r = work["wrapper"].run
    BY <2>1
  <2>3. Accepted(r) \in SUBSET Message
    BY DEF Accepted
  <2>4. \E kind \in Reason : GoSettle("wrapper", kind, r, Accepted(r))
    BY <1>1, <1>8, <2>2 DEF FailBatch, BreakBatch, SealBatch
  <2> QED
    BY <1>1, <2>1, <2>3, <2>4, SettleTurn
<1> QED
  BY <1>2, <1>3, <1>4, <1>5, <1>6, <1>7, <1>8 DEF Terminal

LEMMA AlarmTurn ==
  ASSUME TypeInv, SegmentsHold, Alarm
  PROVE  /\ Turn("alarm")
         /\ work'["alarm"].pc = "identity" => Reuse \/ AllocateInstance
<1>1. /\ "alarm" \in Worker /\ work \in [Worker -> Work] /\ work["alarm"] \in Work
      /\ lastRun \in 0..MaxRuns
  BY TypeParts DEF Worker, StorageTypes
<1>2. gate \in { "open", "alarm" }
  BY DEF Alarm, AlarmFires, AlarmIsSet, ServerIdles, Flush, Deliver, ForcedRecheck, SendHeld,
     Observe, Reauthorize, Reuse, AllocateInstance, ObservesUnexpected, Identify, Launch,
     WorkspaceReady, Prompt, Refused, ExecuteFails, WatchAccepted, Accept, Delivered,
     Executing, Reaches, May
<1>3. CASE AlarmFires
  <2>1. OthersStay("alarm") /\ work'["alarm"].pc = "cleanup"
    BY <1>1, <1>3, BeginType DEF AlarmFires
  <2> QED
    BY <1>2, <2>1, SegmentPc DEF Turn, Plain
<1>4. CASE AlarmIsSet
  <2>1. OthersStay("alarm") /\ work'["alarm"] = IdleWork
    BY <1>1, <1>4 DEF AlarmIsSet, OthersStay
  <2> QED
    BY <1>2, <2>1, SegmentPc, IdleType DEF Turn
<1>5. CASE ServerIdles
  <2>1. Turn("alarm") /\ Moves("alarm", "flush")
    BY <1>1, <1>2, <1>5, PlainTurn DEF ServerIdles, Plain
  <2> QED
    BY <2>1 DEF Moves
<1>6. CASE \E pc \in { "send", "launched", "prompt", "accepted", "accept", "delivered" } :
             Go("alarm", pc) \/ (Await("alarm", pc) /\ pc \notin Segment)
  BY <1>1, <1>2, <1>6, GoTurn DEF Moves, Pc, Sends, Delivers, Executes
<1>7. CASE Return("alarm")
  BY <1>1, <1>2, <1>7, ReturnTurn
<1>8. ASSUME NEW m \in Message, Flush(m)
      PROVE  Turn("alarm") /\ work'["alarm"].pc \in { "send", "forced-join", "forced" }
  <2>1. OthersStay("alarm") /\ work'["alarm"].pc \in { "send", "forced-join", "forced" }
    BY <1>1, <1>8 DEF Flush, OthersStay, Work
  <2> QED
    BY <1>2, <2>1 DEF Turn, Segment
<1>9. CASE Observe
  <2>1. OthersStay("alarm") /\ work'["alarm"].pc = "observe"
    BY <1>1, <1>9 DEF Observe, OthersStay, Work
  <2> QED
    BY <1>2, <2>1 DEF Turn, Segment
<1>10. CASE Reuse \/ AllocateInstance
  <2>1. OthersStay("alarm") /\ gate' = "alarm"
    BY <1>1, <1>10 DEF Reuse, AllocateInstance, Go, OthersStay
  <2> QED
    BY <1>2, <1>10, <2>1 DEF Turn
<1>11. CASE Identify
  <2>1. OthersStay("alarm") /\ work'["alarm"].pc = "execute"
    BY <1>1, <1>11 DEF Identify, OthersStay, Work
  <2> QED
    BY <1>2, <2>1 DEF Turn, Segment
<1>12. ASSUME Deliver, ~Observe, ~Reuse, ~AllocateInstance, ~Identify
       PROVE  \/ Return("alarm")
              \/ \E pc \in { "send", "launched", "prompt", "accepted", "accept", "delivered" } :
                    Go("alarm", pc) \/ (Await("alarm", pc) /\ pc \notin Segment)
  BY <1>12 DEF Deliver, ForcedRecheck, SendHeld, Reauthorize, ObservesUnexpected, Launch,
     WorkspaceReady, Prompt, Refused, ExecuteFails, WatchAccepted, Accept, Delivered, Segment
<1> QED
  BY <1>3, <1>4, <1>5, <1>6, <1>7, <1>8, <1>9, <1>10, <1>11, <1>12 DEF Alarm, Deliver

(* No event of the sandbox reaches the object within a storage segment. *)
LEMMA SandboxStays ==
  ASSUME Sandbox
  PROVE  /\ UNCHANGED <<lease, msgs, gate, work, lastRun, crashes>>
         /\ gate = "open" \/ UNCHANGED storage
  BY DEF Sandbox, Started, Seal, Fails, Dies, Drops, Disconnected, Reconnect, Loses, Pong,
     Output, storage, bounds

LEMMA CrashStays ==
  ASSUME TypeInv, Crash
  PROVE  /\ UNCHANGED <<storage, lastRun>>
         /\ \A w \in Worker : work'[w].pc = "idle"
<1>1. \A w \in Worker : work'[w] = IdleWork
  BY DEF Crash
<1> QED
  BY <1>1, IdleType DEF Crash

(* Who takes a step. *)
LEMMA TurnOfStep ==
  ASSUME TypeInv, SegmentsHold, Next
  PROVE  \/ Alarm /\ Turn("alarm")
         \/ (\E w \in Maintainer : Maintain(w) /\ Turn(w) /\ Leaves(w))
         \/ (\E w \in Worker : (Settle(w) \/ SettleEnds(w) \/ Clear(w)) /\ Turn(w) /\ Leaves(w))
         \/ User /\ Turn("user")
         \/ Terminal /\ Turn("wrapper")
         \/ Sandbox
         \/ Crash
  BY MaintainTurn, SettlingTurn, UserTurn, TerminalTurn, AlarmTurn DEF Next, Settling

LEMMA SegmentsStep ==
  ASSUME TypeInv, SegmentsHold, [Next]_vars
  PROVE  SegmentsHold'
<1>1. Maintainer \subseteq Worker /\ { "alarm", "user", "wrapper" } \subseteq Worker
  BY DEF Maintainer, Worker
<1>2. CASE Next
  <2>1. CASE \E w \in Worker : Turn(w)
    BY <2>1, TurnHolds
  <2>2. CASE Sandbox
    BY <2>2, SandboxStays DEF SegmentsHold
  <2>3. CASE Crash
    BY <2>3, CrashStays, SegmentPc DEF SegmentsHold
  <2> QED
    BY <1>1, <1>2, <2>1, <2>2, <2>3, TurnOfStep
<1>3. CASE UNCHANGED vars
  BY <1>3 DEF vars, SegmentsHold
<1> QED
  BY <1>2, <1>3

LEMMA RoomStep ==
  ASSUME TypeInv, SegmentsHold, RoomForRun, [Next]_vars
  PROVE  RoomForRun'
<1>1. Maintainer \subseteq Worker /\ { "alarm", "user", "wrapper" } \subseteq Worker
  BY DEF Maintainer, Worker
<1>2. "identity" \in Sends /\ "identity" \in Segment
  BY DEF Sends, Segment
<1>3. ASSUME NEW w \in Worker \ { "alarm" }, Turn(w) PROVE RoomForRun'
  BY <1>1, <1>2, <1>3, TurnHolds DEF RoomForRun, Turn, OthersStay
<1>4. CASE Leaves("alarm")
  BY <1>2, <1>4 DEF Leaves, RoomForRun
<1>5. CASE Alarm
  <2>1. CASE work'["alarm"].pc = "identity"
    <3>1. Reuse \/ AllocateInstance
      BY <1>5, <2>1, AlarmTurn
    <3>2. work["alarm"] \in Work
      BY TypeParts DEF Worker
    <3>3. CASE Reuse
      <4>1. work'["alarm"].fresh = work["alarm"].fresh /\ gate' = "alarm"
        BY <3>2, <3>3, GoType, TypeParts DEF Reuse, Worker, Moves, Pc, Sends
      <4> QED
        BY <3>3, <4>1 DEF Reuse, RoomForRun, bounds
    <3>4. CASE AllocateInstance
      BY <3>4 DEF AllocateInstance, RoomForRun, bounds
    <3> QED
      BY <3>1, <3>3, <3>4
  <2> QED
    BY <2>1 DEF RoomForRun
<1>6. CASE Sandbox
  <2>1. CASE gate = "open"
    BY <1>6, <2>1, SandboxStays DEF RoomForRun
  <2>2. CASE UNCHANGED storage
    BY <1>6, <2>2, SandboxStays DEF RoomForRun, storage
  <2> QED
    BY <1>6, <2>1, <2>2, SandboxStays
<1>7. CASE Crash
  BY <1>1, <1>7, CrashStays DEF RoomForRun
<1>8. CASE UNCHANGED vars
  BY <1>8 DEF vars, RoomForRun, storage, bounds
<1> QED
  BY <1>1, <1>3, <1>4, <1>5, <1>6, <1>7, <1>8, TurnOfStep

LEMMA TypeStep ==
  ASSUME TypeInv, RoomForRun, [Next]_vars
  PROVE  TypeInv'
<1>1. CASE UNCHANGED vars
  BY <1>1 DEF vars, storage, bounds, TypeInv, TypeOK, WorkHolds
<1> QED
  BY <1>1, MaintainTypes, AlarmTypes, AuthorizeTypes, DeliverTypes, UserTypes, TerminalTypes,
     SettlingTypes, SandboxTypes, CrashTypes DEF Next, Alarm, Deliver, Settling

-----------------------------------------------------------------------------
(* The wrappers.                                                            *)

Live == { "launching", "up" }

LinkedIsUp == \A i \in Instance : wrapper[i].linked = "yes" => wrapper[i].phase = "up"

(* A wrapper loses what it has: its batch, its connection, its process.     *)
Fades(old, new) ==
  /\ new.run \in { old.run, 0 } /\ new.held \subseteq old.held
  /\ new.phase \in Live => old.phase \in Live /\ new.run = old.run
  /\ new.linked = "yes" => /\ new.phase = "up" /\ new.run = old.run
                           /\ old.linked = "yes" /\ (old.sealed => new.sealed)

(* It is connected anew, to the run that is current. *)
Reconnects(i) ==
  /\ gate = "open" /\ Current(wrapper[i].run)
  /\ wrapper[i].phase = "up" /\ wrapper'[i].phase = "up"
  /\ wrapper'[i].run = wrapper[i].run /\ wrapper'[i].held = wrapper[i].held

WrapperCalm == \A i \in Instance : Fades(wrapper[i], wrapper'[i]) \/ Reconnects(i)

LEMMA SameWrapperCalm ==
  ASSUME LinkedIsUp, UNCHANGED wrapper
  PROVE  WrapperCalm
  BY DEF LinkedIsUp, WrapperCalm, Fades

LEMMA OneFades ==
  ASSUME TypeInv, LinkedIsUp, NEW i \in Instance, NEW new,
         Fades(wrapper[i], new), wrapper' = [wrapper EXCEPT ![i] = new]
  PROVE  WrapperCalm
<1>1. wrapper \in [Instance -> Process]
  BY TypeParts DEF StorageTypes
<1>2. ASSUME NEW j \in Instance PROVE Fades(wrapper[j], wrapper'[j])
  <2>1. CASE j = i
    BY <1>1, <2>1
  <2>2. CASE j # i
    <3>1. wrapper'[j] = wrapper[j]
      BY <1>1, <2>2
    <3> QED
      BY <3>1 DEF Fades, LinkedIsUp
  <2> QED
    BY <2>1, <2>2
<1> QED
  BY <1>2 DEF WrapperCalm

LEMMA ReportedCalm ==
  ASSUME TypeInv, LinkedIsUp, NEW i \in Instance, Reported(i)
  PROVE  WrapperCalm
<1> DEFINE old == wrapper[i]
           new == [old EXCEPT !.out = None, !.held = {}, !.sealed = TRUE,
                              !.linked = IF old.linked = "yes" THEN "closing" ELSE old.linked]
<1>1. old \in Process /\ (old.linked = "yes" => old.phase = "up")
  BY TypeParts DEF StorageTypes, LinkedIsUp
<1>2. wrapper' = [wrapper EXCEPT ![i] = new]
  BY DEF Reported
<1> HIDE DEF old
<1>3. Fades(old, new)
  BY <1>1 DEF Process, Fades, Live
<1> HIDE DEF new
<1> QED
  BY <1>2, <1>3, OneFades DEF old

LEMMA SandboxCalm ==
  ASSUME TypeInv, LinkedIsUp, Sandbox
  PROVE  WrapperCalm
<1>1. PICK i \in Instance :
        \/ Started(i) \/ Seal(i) \/ Fails(i) \/ Dies(i) \/ Drops(i)
        \/ Disconnected(i) \/ Reconnect(i)
        \/ Loses(i) \/ Pong(i) \/ Output(i)
  BY DEF Sandbox
<1> DEFINE old == wrapper[i]
<1>2. /\ wrapper \in [Instance -> Process]
      /\ old \in Process /\ (old.linked = "yes" => old.phase = "up")
  BY TypeParts DEF StorageTypes, LinkedIsUp
<1>3. ASSUME NEW new, Fades(old, new), wrapper' = [wrapper EXCEPT ![i] = new]
      PROVE  WrapperCalm
  BY <1>3, OneFades
<1> HIDE DEF old
<1>4. NewProcess("gone").phase \notin Live /\ NewProcess("gone").run = 0
      /\ NewProcess("gone").held = {} /\ NewProcess("gone").linked = "no"
  BY DEF NewProcess, Live
<1>5. Fades(old, NewProcess("gone"))
  BY <1>4 DEF Fades
<1>6. CASE Started(i)
  <2>1. PICK phase \in { "up", "gone" } : wrapper' = [wrapper EXCEPT ![i] = [old EXCEPT !.phase = phase]]
    BY <1>6 DEF Started, old
  <2>2. old.phase = "launching"
    BY <1>6 DEF Started, old
  <2>3. Fades(old, [old EXCEPT !.phase = phase])
    BY <1>2, <2>2 DEF Process, Fades, Live
  <2> QED
    BY <1>3, <2>1, <2>3
<1>7. CASE Seal(i)
  <2>1. wrapper' = [wrapper EXCEPT ![i] = [old EXCEPT !.sealed = TRUE, !.out = "finalizing"]]
    BY <1>7 DEF Seal, old
  <2>2. Fades(old, [old EXCEPT !.sealed = TRUE, !.out = "finalizing"])
    BY <1>2 DEF Process, Fades, Live
  <2> QED
    BY <1>3, <2>1, <2>2
<1>8. CASE Fails(i)
  <2>1. wrapper' = [wrapper EXCEPT ![i] = [old EXCEPT !.sealed = TRUE, !.out = "failed"]]
    BY <1>8 DEF Fails, old
  <2>2. Fades(old, [old EXCEPT !.sealed = TRUE, !.out = "failed"])
    BY <1>2 DEF Process, Fades, Live
  <2> QED
    BY <1>3, <2>1, <2>2
<1>9. CASE Dies(i)
  <2>1. PICK out \in { old.out, None } : wrapper' = [wrapper EXCEPT ![i] =
          IF old.linked = "no" THEN NewProcess("gone")
          ELSE [old EXCEPT !.phase = "gone", !.out = out, !.linked = "closing",
                           !.held = IF out = None THEN {} ELSE old.held]]
    BY <1>9 DEF Dies, old
  <2>2. Fades(old, [old EXCEPT !.phase = "gone", !.out = out, !.linked = "closing",
                               !.held = IF out = None THEN {} ELSE old.held])
    BY <1>2 DEF Process, Fades, Live
  <2> QED
    BY <1>3, <1>5, <2>1, <2>2
<1>10. CASE Drops(i)
  <2>1. wrapper' = [wrapper EXCEPT ![i] = [old EXCEPT !.linked = "closing"]]
    BY <1>10 DEF Drops, old
  <2>2. Fades(old, [old EXCEPT !.linked = "closing"])
    BY <1>2 DEF Process, Fades, Live
  <2> QED
    BY <1>3, <2>1, <2>2
<1>11. CASE Disconnected(i)
  <2>1. wrapper' = [wrapper EXCEPT ![i] =
          IF old.phase = "gone" THEN NewProcess("gone") ELSE [old EXCEPT !.linked = "no"]]
    BY <1>11 DEF Disconnected, old
  <2>2. Fades(old, [old EXCEPT !.linked = "no"])
    BY <1>2 DEF Process, Fades, Live
  <2> QED
    BY <1>3, <1>5, <2>1, <2>2
<1>12. CASE Reconnect(i)
  <2> DEFINE new == [old EXCEPT !.linked = "yes"]
  <2>1. /\ wrapper' = [wrapper EXCEPT ![i] = new] /\ gate = "open" /\ old.phase = "up"
        /\ Current(old.run)
    BY <1>12 DEF Reconnect, old
  <2>2. new.phase = "up" /\ new.run = old.run /\ new.held = old.held
    BY <1>2, <2>1 DEF Process
  <2> HIDE DEF new
  <2>3. wrapper'[i] = new /\ \A j \in Instance \ { i } : wrapper'[j] = wrapper[j]
    BY <1>2, <2>1
  <2>4. \A j \in Instance \ { i } : Fades(wrapper[j], wrapper'[j])
    BY <2>3 DEF Fades, LinkedIsUp
  <2>5. Reconnects(i)
    BY <2>1, <2>2, <2>3 DEF Reconnects, old
  <2> QED
    BY <2>4, <2>5 DEF WrapperCalm
<1>13. CASE Loses(i)
  <2>1. wrapper' = [wrapper EXCEPT ![i] = [old EXCEPT !.out = None, !.held = {}, !.sealed = TRUE]]
    BY <1>13 DEF Loses, old
  <2>2. Fades(old, [old EXCEPT !.out = None, !.held = {}, !.sealed = TRUE])
    BY <1>2 DEF Process, Fades, Live
  <2> QED
    BY <1>3, <2>1, <2>2
<1>14. CASE Pong(i) \/ Output(i)
  BY <1>14, SameWrapperCalm DEF Pong, Output
<1> QED
  BY <1>1, <1>6, <1>7, <1>8, <1>9, <1>10, <1>11, <1>12, <1>13, <1>14

LEMMA CrashCalm ==
  ASSUME TypeInv, LinkedIsUp, Crash
  PROVE  WrapperCalm
<1>1. CASE UNCHANGED wrapper
  BY <1>1, SameWrapperCalm
<1>2. CASE ~UNCHANGED wrapper
  <2>1. ASSUME NEW i \in Instance PROVE Fades(wrapper[i], wrapper'[i])
    <3> DEFINE old == wrapper[i]
               new == [old EXCEPT !.linked = "no",
                         !.out = IF @ = "finalizing" THEN "completed" ELSE @]
    <3>1. old \in Process
      BY TypeParts DEF StorageTypes
    <3>2. wrapper'[i] = IF old.phase = "gone" THEN NewProcess("gone") ELSE new
      BY <1>2 DEF Crash
    <3> HIDE DEF old
    <3>3. Fades(old, new)
      BY <3>1 DEF Process, Fades, Live
    <3>4. Fades(old, NewProcess("gone"))
      BY DEF Fades, NewProcess, Live
    <3> QED
      BY <3>2, <3>3, <3>4 DEF old
  <2> QED
    BY <2>1 DEF WrapperCalm
<1> QED
  BY <1>1, <1>2

(* Only the delivery of a message starts, binds or fills a wrapper. *)
LEMMA WrapperStep ==
  ASSUME TypeInv, LinkedIsUp, [Next]_vars
  PROVE  Launch \/ WorkspaceReady \/ Prompt \/ WrapperCalm
<1>1. CASE UNCHANGED wrapper
  BY <1>1, SameWrapperCalm
<1>2. CASE \E w \in Maintainer : Maintain(w)
  <2>1. UNCHANGED wrapper
    BY <1>2 DEF Maintain, NothingToClean, RecheckExhausted, JoinRecheck, JoinReturns,
       StartupExpires, StopExpires, StopBegins, StopReturns, ProbeReturns, GraceIsMoot,
       GraceExpires, StopsWatching, SendsPing, TurnsUnhealthy, WarmEnds, Ends
  <2> QED
    BY <1>1, <2>1
<1>3. CASE Alarm
  <2>1. Launch \/ WorkspaceReady \/ Prompt \/ UNCHANGED wrapper
    BY <1>3 DEF Alarm, AlarmFires, AlarmIsSet, ServerIdles, Flush, Deliver, ForcedRecheck,
       SendHeld, Observe, Reauthorize, Reuse, AllocateInstance, ObservesUnexpected, Identify,
       Refused, ExecuteFails, WatchAccepted, Accept, Delivered
  <2> QED
    BY <1>1, <2>1
<1>4. CASE User \/ Settling
  <2>1. UNCHANGED wrapper
    BY <1>4 DEF User, Submit, Interrupt, InterruptAccepted, Settling, Settle, SettleEnds, Clear
  <2> QED
    BY <1>1, <2>1
<1>5. CASE Terminal
  <2>1. CASE \E i \in Instance : ArriveFinalizing(i)
    <3>1. PICK i \in Instance : ArriveFinalizing(i)
      BY <2>1
    <3> DEFINE old == wrapper[i]
               new == [old EXCEPT !.out = "completed"]
    <3>2. old \in Process /\ (old.linked = "yes" => old.phase = "up")
      BY TypeParts DEF StorageTypes, LinkedIsUp
    <3>3. wrapper' = [wrapper EXCEPT ![i] = new]
      BY <3>1 DEF ArriveFinalizing
    <3> HIDE DEF old
    <3>4. Fades(old, new)
      BY <3>2 DEF Process, Fades, Live
    <3> QED
      BY <3>3, <3>4, OneFades DEF old
  <2>2. CASE \E i \in Instance : ArriveStale(i) \/ ArriveFailed(i) \/ ArriveCompleted(i)
    BY <2>2, ReportedCalm DEF ArriveStale, ArriveFailed, ArriveCompleted
  <2>3. CASE Repair \/ FailBatch \/ BreakBatch \/ SealBatch \/ StopMissing \/ Retain
    <3>1. UNCHANGED wrapper
      BY <2>3 DEF Repair, FailBatch, BreakBatch, SealBatch, StopMissing, Retain
    <3> QED
      BY <1>1, <3>1
  <2> QED
    BY <1>5, <2>1, <2>2, <2>3 DEF Terminal
<1>6. CASE UNCHANGED vars
  BY <1>1, <1>6 DEF vars
<1> QED
  BY <1>2, <1>3, <1>4, <1>5, <1>6, SandboxCalm, CrashCalm DEF Next

LEMMA LaunchEffect ==
  ASSUME TypeInv, Launch
  PROVE  /\ Observed = {}
         /\ \A j \in Instance :
              /\ wrapper'[j].run = wrapper[j].run /\ wrapper'[j].linked = wrapper[j].linked
              /\ IF j = work["alarm"].inst THEN wrapper'[j].phase = "launching" /\ wrapper'[j].held = {}
                 ELSE wrapper'[j] = wrapper[j]
<1>1. wrapper \in [Instance -> Process] /\ Observed = {}
  BY TypeParts DEF StorageTypes, Launch, ObservedAbsent
<1>2. ASSUME NEW j \in Instance, j = work["alarm"].inst
      PROVE  /\ wrapper'[j].run = wrapper[j].run /\ wrapper'[j].linked = wrapper[j].linked
             /\ wrapper'[j].phase = "launching" /\ wrapper'[j].held = {}
  <2> DEFINE old == wrapper[j]
             new == [old EXCEPT !.phase = "launching", !.held = {}, !.sealed = FALSE]
  <2>1. old \in Process /\ wrapper'[j] = new
    BY <1>1, <1>2 DEF Launch
  <2> HIDE DEF old
  <2>2. /\ new.run = old.run /\ new.linked = old.linked
        /\ new.phase = "launching" /\ new.held = {}
    BY <2>1 DEF Process
  <2> QED
    BY <2>1, <2>2 DEF old
<1>3. ASSUME NEW j \in Instance, j # work["alarm"].inst PROVE wrapper'[j] = wrapper[j]
  BY <1>1, <1>3 DEF Launch
<1> QED
  BY <1>1, <1>2, <1>3

LEMMA ReadyEffect ==
  ASSUME TypeInv, WorkspaceReady
  PROVE  \A j \in Instance :
           /\ wrapper'[j].phase = wrapper[j].phase /\ wrapper'[j].linked = wrapper[j].linked
           /\ wrapper'[j].held = wrapper[j].held
           /\ IF j = work["alarm"].inst
                THEN wrapper'[j].run = work["alarm"].run ELSE wrapper'[j] = wrapper[j]
<1>1. wrapper \in [Instance -> Process]
  BY TypeParts DEF StorageTypes
<1>2. ASSUME NEW j \in Instance, j = work["alarm"].inst
      PROVE  /\ wrapper'[j].phase = wrapper[j].phase /\ wrapper'[j].linked = wrapper[j].linked
             /\ wrapper'[j].held = wrapper[j].held /\ wrapper'[j].run = work["alarm"].run
  <2> DEFINE old == wrapper[j]
             new == [old EXCEPT !.run = work["alarm"].run, !.sealed = FALSE]
  <2>1. old \in Process /\ wrapper'[j] = new
    BY <1>1, <1>2 DEF WorkspaceReady
  <2> HIDE DEF old
  <2>2. /\ new.run = work["alarm"].run /\ new.linked = old.linked
        /\ new.phase = old.phase /\ new.held = old.held
    BY <2>1 DEF Process
  <2> QED
    BY <2>1, <2>2 DEF old
<1>3. ASSUME NEW j \in Instance, j # work["alarm"].inst PROVE wrapper'[j] = wrapper[j]
  BY <1>1, <1>3 DEF WorkspaceReady
<1> QED
  BY <1>2, <1>3

LEMMA PromptEffect ==
  ASSUME TypeInv, Prompt
  PROVE  \A j \in Instance :
           /\ wrapper'[j].phase = wrapper[j].phase /\ wrapper'[j].run = wrapper[j].run
           /\ IF j = work["alarm"].inst
                THEN /\ wrapper'[j].held = wrapper[j].held \cup { work["alarm"].msg }
                     /\ wrapper[j].phase = "up" /\ ~wrapper[j].sealed
                     /\ wrapper[j].run = work["alarm"].run
                     /\ wrapper[j].linked = "yes" \/ Current(work["alarm"].run)
                ELSE wrapper'[j] = wrapper[j]
<1>1. wrapper \in [Instance -> Process]
  BY TypeParts DEF StorageTypes
<1>2. ASSUME NEW j \in Instance, j = work["alarm"].inst
      PROVE  /\ wrapper'[j].phase = wrapper[j].phase /\ wrapper'[j].run = wrapper[j].run
             /\ wrapper'[j].held = wrapper[j].held \cup { work["alarm"].msg }
  <2> DEFINE old == wrapper[j]
             held == old.held \cup { work["alarm"].msg }
             new == [old EXCEPT !.held = held, !.linked = "yes"]
  <2>1. old \in Process /\ wrapper'[j] = new
    BY <1>1, <1>2 DEF Prompt
  <2> HIDE DEF old, held
  <2>2. new.run = old.run /\ new.phase = old.phase /\ new.held = held
    BY <2>1 DEF Process
  <2> QED
    BY <2>1, <2>2 DEF old, held
<1>3. ASSUME NEW j \in Instance, j # work["alarm"].inst PROVE wrapper'[j] = wrapper[j]
  BY <1>1, <1>3 DEF Prompt
<1> QED
  BY <1>2, <1>3 DEF Prompt

LEMMA LinkedStep ==
  ASSUME TypeInv, LinkedIsUp, [Next]_vars
  PROVE  LinkedIsUp'
<1>1. CASE WrapperCalm
  BY <1>1 DEF WrapperCalm, Fades, Reconnects, LinkedIsUp
<1>2. CASE Launch
  BY <1>2, LaunchEffect DEF LinkedIsUp, Observed
<1>3. CASE WorkspaceReady
  BY <1>3, ReadyEffect DEF LinkedIsUp
<1>4. CASE Prompt
  BY <1>4, PromptEffect DEF LinkedIsUp
<1> QED
  BY <1>1, <1>2, <1>3, <1>4, WrapperStep

(* What holds of the model whatever the constants are. *)
Shape == TypeInv /\ SegmentsHold /\ RoomForRun /\ LinkedIsUp

LEMMA ShapeStarts == Init => Shape
<1> SUFFICES ASSUME Init PROVE Shape
  OBVIOUS
<1>1. \A w \in Worker : work[w].pc = "idle"
  BY IdleType DEF Init
<1>2. "alarm" \in Worker /\ "idle" \notin Segment
  BY SegmentPc DEF Worker
<1>3. LinkedIsUp
  BY DEF Init, NewProcess, LinkedIsUp
<1> QED
  BY <1>1, <1>2, <1>3, InitTypes DEF Shape, SegmentsHold, RoomForRun

LEMMA ShapeStep == Shape /\ [Next]_vars => Shape'
  BY TypeStep, SegmentsStep, RoomStep, LinkedStep DEF Shape

(* The lease, the run, the messages, the wrappers and the handlers keep     *)
(* their types and the lease its shape, for every number of everything:     *)
(* an instance belongs to an owned wrapper, a holder to a stop in progress, *)
(* and an exhausted cleanup has spent its attempts                          *)
(* (wrapper-runtime-state.ts:103).                                          *)
THEOREM TypeCorrect == Spec => []TypeOK
<1>1. Shape => TypeOK
  BY DEF Shape, TypeInv
<1> QED
  BY <1>1, ShapeStarts, ShapeStep, PTL DEF Spec

LEMMA OneLiveStep ==
  ASSUME Shape, OneLiveWrapper, [Next]_vars
  PROVE  OneLiveWrapper'
<1> USE DEF Shape
<1>1. CASE Observed' \subseteq Observed
  BY <1>1 DEF OneLiveWrapper
<1>2. CASE WrapperCalm
  BY <1>1, <1>2 DEF WrapperCalm, Fades, Reconnects, Observed, Live
<1>3. CASE Launch
  BY <1>3, LaunchEffect DEF OneLiveWrapper, Observed
<1>4. CASE WorkspaceReady
  BY <1>1, <1>4, ReadyEffect DEF Observed
<1>5. CASE Prompt
  BY <1>1, <1>5, PromptEffect DEF Observed
<1> QED
  BY <1>2, <1>3, <1>4, <1>5, WrapperStep

(* Never two live wrappers of a session, whatever crashes, is interrupted   *)
(* or answers late: a wrapper is started only while none is observed, by    *)
(* the one handler that starts wrappers (agent-runtime.ts:173,              *)
(* wrapper-supervisor.ts:1735).                                             *)
THEOREM OneWrapperIsLive == Spec => []OneLiveWrapper
<1>1. Init => OneLiveWrapper
  BY DEF Init, NewProcess, OneLiveWrapper, Observed, None
<1>2. Shape /\ OneLiveWrapper /\ [Next]_vars => OneLiveWrapper'
  BY OneLiveStep
<1> QED
  BY <1>1, <1>2, ShapeStarts, ShapeStep, PTL DEF Spec

-----------------------------------------------------------------------------
(* What is watched.  The last part needs that a handler that settles        *)
(* messages is not interleaved with another (~Awaited).                     *)

(* Before the acceptance of the message is recorded, from the moment a run  *)
(* is there for it. *)
Carries == Executes \cup { "accepted", "accept" }

Pending == Sends \cup Carries

(* The lease is given its ready deadline before the prompt. *)
Prepared == { "prompt", "accepted", "accept" }

Task == work["alarm"]

CurrentIsWatched ==
  \A m \in Message : WasAccepted(m) /\ Current(msgs[m].run) => run.live # "off"

HeldIsCurrent ==
  \A m \in Message : \A i \in Observed :
    WasAccepted(m) /\ m \in wrapper[i].held /\ wrapper[i].run = msgs[m].run =>
      Current(msgs[m].run)

NoneAccepted(r) == \A m \in Message : WasAccepted(m) => msgs[m].run # r

(* A wrapper that is kept warm has no run, or one that it does not work for *)
(* yet.                                                                     *)
Unused == run.id = 0 \/ NoneAccepted(run.id)

WarmIsUnused == KeptWarm(lease) => Unused

World ==
  /\ run.id <= lastRun
  /\ \A m \in Message : msgs[m].run <= lastRun
  /\ \A i \in Instance : wrapper[i].run <= lastRun
  /\ WarmIsUnused
  /\ \A j \in Instance :
       /\ run.id # 0 /\ wrapper[j].run = run.id
       /\ lease.state = "owns_wrapper" /\ lease.inst \in Observed
       => j = lease.inst
  /\ CurrentIsWatched
  /\ HeldIsCurrent

(* The wrapper of the current run is the one the delivery is for. *)
Bound == \A j \in Instance : run.id # 0 /\ wrapper[j].run = run.id => j = Task.inst

(* The run is gone, or is about to go: its wrapper has reported. *)
Lost(r) == ~Current(r) \/ (work["wrapper"].pc # "idle" /\ work["wrapper"].run = r)

(* No prompt of a lost run will be taken, none that was is still worked on. *)
Unheld ==
  IF Task.pc \in Executes
    THEN \/ wrapper[Task.inst].linked # "yes"
         \/ wrapper[Task.inst].sealed /\ wrapper[Task.inst].run = Task.run
    ELSE \A i \in Observed : wrapper[i].run = Task.run => Task.msg \notin wrapper[i].held

Delivery ==
  /\ Task.pc \in Pending => msgs[Task.msg].status # None /\ ~WasAccepted(Task.msg)
  /\ Task.pc = "observe" /\ Task.fresh => Unused
  /\ Task.pc = "identity" =>
       /\ lease.state = "owns_wrapper" /\ lease.inst = Task.inst
       /\ IF Task.fresh THEN Unused \/ Observed = {} ELSE Bound
  /\ Task.pc \in Carries =>
       /\ Task.run \in 1..lastRun /\ run.id \in { 0, Task.run } /\ Task.inst \in Instance
       /\ lease.state = "owns_wrapper" => lease.inst = Task.inst
       /\ Bound
  /\ Task.pc \in Prepared /\ KeptWarm(lease) => run.id = 0
  /\ Task.pc \in Executes \cup { "accepted" } /\ (Task.fresh \/ ~Current(Task.run)) =>
       NoneAccepted(Task.run)
  /\ Task.pc = "accept" /\ Current(Task.run) => run.live # "off"
  /\ Task.pc \in Carries /\ msgs[Task.msg].status = "queued" /\ Lost(Task.run) => Unheld

(* Who settles the messages of the current run settles all of them, and     *)
(* the user none but those of a run that is older than the deliveries that  *)
(* follow.                                                                  *)
Stops(w) ==
  /\ \/ work[w].pc = "settle" /\ work[w].kind # "pending"
     \/ work[w].pc \in { "clear", "stop-missing", "retain" }
     => /\ run.id = work[w].run
        /\ Accepted(run.id) \subseteq IF work[w].pc = "settle" THEN work[w].todo ELSE {}
  /\ w = "wrapper" /\ work[w].pc # "idle" =>
       gate = "wrapper" /\ run.id # 0 /\ run.id = work[w].run
  /\ w = "user" =>
       /\ work[w].pc = "settle" /\ work[w].kind = "pending" => Queued \subseteq work[w].todo
       /\ work[w].pc = "interrupt" => Queued = {}
       /\ work[w].pc \in { "settle", "clear" } /\ work[w].kind # "pending" =>
            Queued = {} /\ work[w].kind = "user"
       /\ work[w].pc \in Plain =>
            work[w].run <= lastRun /\ (run.id = 0 \/ run.id > work[w].run)

WatchInv == World /\ Delivery /\ \A w \in Worker : Stops(w)

(* What almost every step does to the run, the messages, the lease and the  *)
(* wrappers: it takes from what is there.                                   *)
RunCalm ==
  \/ run'.id = run.id /\ (run'.live = "off" => run.live = "off")
  \/ run'.id \in { run.id, 0 } /\ (run.id # 0 => NoneAccepted(run.id))

MsgsCalm ==
  \A m \in Message :
    /\ msgs'[m].run \in { msgs[m].run, run.id }
    /\ WasAccepted(m)' => WasAccepted(m) /\ msgs'[m].run = msgs[m].run
    /\ msgs'[m].status = "queued" =>
         msgs[m].status = "queued" \/ (msgs[m].status = None /\ gate = "open")
    /\ msgs'[m].status = None => msgs[m].status = None

LeaseCalm ==
  /\ lease'.state = "owns_wrapper" => lease.state = "owns_wrapper" /\ lease'.inst = lease.inst
  /\ KeptWarm(lease') => KeptWarm(lease) \/ run'.id = 0

Calm == RunCalm /\ MsgsCalm /\ LeaseCalm /\ WrapperCalm /\ lastRun' = lastRun

LEMMA CalmObserved ==
  ASSUME WrapperCalm
  PROVE  \A i \in Observed' :
           i \in Observed /\ wrapper'[i].run = wrapper[i].run
           /\ wrapper'[i].held \subseteq wrapper[i].held
  BY DEF WrapperCalm, Fades, Reconnects, Observed, Live

LEMMA CalmRuns ==
  ASSUME WrapperCalm
  PROVE  \A i \in Instance : wrapper'[i].run \in { wrapper[i].run, 0 }
  BY DEF WrapperCalm, Fades, Reconnects

LEMMA CalmUnused ==
  ASSUME Unused, run'.id \in { run.id, 0 }, MsgsCalm
  PROVE  Unused'
  BY DEF Unused, NoneAccepted, MsgsCalm

LEMMA SameWarm ==
  ASSUME World, UNCHANGED msgs, run'.id = run.id, KeptWarm(lease') => KeptWarm(lease)
  PROVE  WarmIsUnused'
  BY DEF World, WarmIsUnused, Unused, NoneAccepted, WasAccepted, KeptWarm

LEMMA CalmWorld ==
  ASSUME TypeInv, World, Calm
  PROVE  World'
<1>1. /\ run.id \in 0..MaxRuns /\ lastRun \in 0..MaxRuns
      /\ run'.id \in { run.id, 0 } /\ lastRun' = lastRun
      /\ \A i \in Instance : wrapper[i].run \in 0..MaxRuns
      /\ \A m \in Message : msgs[m].run \in 0..MaxRuns
  BY TypeParts DEF Calm, RunCalm, StorageTypes, Run, Process
<1>2. run'.id <= lastRun'
  BY <1>1, WrapperAssumption DEF World
<1>3. \A m \in Message : msgs'[m].run <= lastRun'
  BY <1>1 DEF World, Calm, MsgsCalm
<1>4. \A i \in Instance : wrapper'[i].run <= lastRun'
  BY <1>1, CalmRuns, WrapperAssumption DEF World, Calm
<1>5. WarmIsUnused'
  <2>1. KeptWarm(lease') => Unused \/ run'.id = 0
    BY DEF World, WarmIsUnused, Calm, LeaseCalm
  <2>2. Unused => Unused'
    BY <1>1, CalmUnused DEF Calm
  <2> QED
    BY <2>1, <2>2 DEF WarmIsUnused, Unused, KeptWarm
<1>6. ASSUME NEW j \in Instance, run'.id # 0, wrapper'[j].run = run'.id,
             lease'.state = "owns_wrapper", lease'.inst \in Observed'
      PROVE  j = lease'.inst
  BY <1>1, <1>6, CalmRuns, CalmObserved DEF World, Calm, LeaseCalm
<1>7. CurrentIsWatched'
  <2> SUFFICES ASSUME NEW m \in Message, WasAccepted(m)', Current(msgs[m].run)'
               PROVE  run'.live # "off"
    BY DEF CurrentIsWatched
  <2>1. WasAccepted(m) /\ msgs'[m].run = msgs[m].run
    BY DEF Calm, MsgsCalm
  <2>2. run'.id # 0 /\ run'.id = msgs[m].run
    BY <2>1 DEF Current
  <2>3. run.id # 0 /\ run.id = msgs[m].run /\ run'.id = run.id
    BY <1>1, <2>2
  <2>4. run.live # "off" /\ ~NoneAccepted(run.id)
    BY <2>1, <2>3 DEF World, CurrentIsWatched, Current, NoneAccepted
  <2> QED
    BY <2>3, <2>4 DEF Calm, RunCalm
<1>8. HeldIsCurrent'
  <2> SUFFICES ASSUME NEW m \in Message, NEW i \in Observed', WasAccepted(m)',
                      m \in wrapper'[i].held, wrapper'[i].run = msgs'[m].run
               PROVE  Current(msgs[m].run)'
    BY DEF HeldIsCurrent
  <2>1. WasAccepted(m) /\ msgs'[m].run = msgs[m].run
    BY DEF Calm, MsgsCalm
  <2>2. i \in Observed /\ m \in wrapper[i].held /\ wrapper[i].run = msgs[m].run
    BY <2>1, CalmObserved DEF Calm
  <2>3. run.id # 0 /\ run.id = msgs[m].run
    BY <2>1, <2>2 DEF World, HeldIsCurrent, Current
  <2>4. run'.id = run.id
    BY <2>1, <2>3 DEF Calm, RunCalm, NoneAccepted
  <2> QED
    BY <2>1, <2>3, <2>4 DEF Current
<1> QED
  BY <1>2, <1>3, <1>4, <1>5, <1>6, <1>7, <1>8 DEF World

LEMMA CalmDelivery ==
  ASSUME Shape, World, Delivery, Stops("wrapper"), Calm, work'["alarm"] = work["alarm"],
         gate = "alarm" => UNCHANGED <<lease, run>>,
         Task.pc \in Carries /\ msgs'[Task.msg].status = "queued" /\ Lost(Task.run)' =>
           Lost(Task.run) \/ Unheld'
  PROVE  Delivery'
<1> USE DEF Task
<1>1. /\ TypeInv /\ SegmentsHold /\ LinkedIsUp /\ "alarm" \in Worker /\ "wrapper" \in Worker
      /\ Task' = Task
      /\ run.id \in 0..MaxRuns /\ run'.id \in { run.id, 0 } /\ lastRun' = lastRun
      /\ Task.pc \in Pending => Task.msg \in Message
  <2>1. WorkHolds("alarm")
    BY TypeParts DEF Shape, Worker
  <2> QED
    BY <2>1, TypeParts DEF Shape, Worker, Calm, RunCalm, StorageTypes, Run, WorkHolds, Pending,
       Carries, Delivers
<1>2. Task.pc \in { "identity", "accept" } => UNCHANGED <<lease, run>>
  BY <1>1 DEF SegmentsHold, Segment
<1>3. Bound => Bound'
  BY <1>1, CalmRuns DEF Bound, Calm
<1>10. Unused => Unused'
  BY <1>1, CalmUnused DEF Calm
<1>4. ASSUME Task.pc \in Pending
      PROVE  msgs'[Task.msg].status # None /\ ~WasAccepted(Task.msg)'
  BY <1>1, <1>4 DEF Delivery, Calm, MsgsCalm, WasAccepted
<1>5. ASSUME Task.pc = "identity"
      PROVE  /\ lease'.state = "owns_wrapper" /\ lease'.inst = Task.inst
             /\ IF Task.fresh THEN Unused' \/ Observed' = {} ELSE Bound'
  BY <1>2, <1>3, <1>5, <1>10, CalmObserved DEF Delivery, Calm
<1>11. Task.pc \in Prepared /\ KeptWarm(lease') => run'.id = 0
  BY <1>1 DEF Delivery, Calm, LeaseCalm
<1>6. ASSUME Task.pc \in Carries
      PROVE  /\ Task.run \in 1..lastRun' /\ run'.id \in { 0, Task.run } /\ Task.inst \in Instance
             /\ lease'.state = "owns_wrapper" => lease'.inst = Task.inst
             /\ Bound'
  BY <1>1, <1>3, <1>6 DEF Delivery, Calm, LeaseCalm
<1>7. ASSUME Task.pc \in Executes \cup { "accepted" }, Task.fresh \/ ~Current(Task.run)'
      PROVE  NoneAccepted(Task.run)'
  <2>1. NoneAccepted(Task.run)
    <3>1. CASE Task.fresh \/ ~Current(Task.run)
      BY <1>7, <3>1 DEF Delivery
    <3>2. CASE Current(Task.run)
      BY <1>1, <1>7, <3>2 DEF Current, Delivery, Calm, RunCalm
    <3> QED
      BY <3>1, <3>2
  <2> QED
    BY <1>1, <2>1 DEF NoneAccepted, Calm, MsgsCalm
<1>8. ASSUME Task.pc = "accept", Current(Task.run)' PROVE run'.live # "off"
  BY <1>1, <1>2, <1>8 DEF Delivery, Current
<1>9. ASSUME Task.pc \in Carries, msgs'[Task.msg].status = "queued", Lost(Task.run)'
      PROVE  Unheld'
  <2>1. Task.msg \in Message /\ msgs[Task.msg].status = "queued"
    BY <1>1, <1>9 DEF Delivery, Calm, MsgsCalm, Pending
  <2> SUFFICES ASSUME Lost(Task.run) PROVE Unheld'
    BY <1>9
  <2>2. Unheld
    BY <1>9, <2>1 DEF Delivery
  <2>3. CASE Task.pc \in Executes
    <3>1. Task.inst \in Instance /\ run.id \in { 0, Task.run }
      BY <1>9 DEF Delivery
    <3>2. ~Reconnects(Task.inst)
      <4> SUFFICES ASSUME Reconnects(Task.inst) PROVE FALSE
        OBVIOUS
      <4>1. gate = "open" /\ run.id # 0
        BY DEF Reconnects, Current
      <4>2. Current(Task.run)
        BY <3>1, <4>1 DEF Current
      <4>3. gate = "wrapper"
        BY <4>2 DEF Lost, Stops
      <4> QED
        BY <4>1, <4>3
    <3>3. Fades(wrapper[Task.inst], wrapper'[Task.inst])
      BY <3>1, <3>2 DEF Calm, WrapperCalm
    <3> QED
      BY <1>1, <2>2, <2>3, <3>3 DEF Unheld, Fades
  <2>4. CASE Task.pc \notin Executes
    BY <1>1, <2>2, <2>4, CalmObserved DEF Unheld, Calm
  <2> QED
    BY <2>3, <2>4
<1>12. (KeptWarm(lease))' = KeptWarm(lease')
  BY DEF KeptWarm
<1> QED
  BY <1>1, <1>4, <1>5, <1>6, <1>7, <1>8, <1>9, <1>10, <1>11, <1>12 DEF Delivery

(* The alarm delivers nothing, or no longer. *)
LEMMA LeftDelivery ==
  ASSUME Leaves("alarm") \/ work'["alarm"].pc = "delivered"
  PROVE  Delivery'
<1>1. work'["alarm"].pc \notin Pending
  BY DEF Leaves, Pending, Carries, Sends, Delivers, Executes
<1>2. /\ work'["alarm"].pc # "identity" /\ work'["alarm"].pc \notin Carries
      /\ work'["alarm"].pc \notin Executes \cup { "accepted" }
      /\ work'["alarm"].pc # "accept" /\ work'["alarm"].pc # "observe"
      /\ work'["alarm"].pc \notin Prepared
  BY <1>1 DEF Pending, Prepared, Carries, Executes, Sends
<1> QED
  BY <1>1, <1>2 DEF Delivery, Task

(* What the other handlers do does not touch what a handler settles. *)
LEMMA StopsOfOther ==
  ASSUME Shape, ~Awaited, World, NEW w \in Worker, NEW v \in Worker, v # w, Turn(w), Stops(v),
         lastRun' >= lastRun, lastRun' \in 0..MaxRuns,
         run'.id \in { run.id, 0 } \/ run'.id = lastRun + 1
  PROVE  Stops(v)'
<1>1. work'[v] = work[v] /\ work[v].pc \notin Segment
  BY TurnHolds DEF Turn, OthersStay, Shape
<1>2. work[v].pc \notin { "settle", "interrupt", "clear", "repair", "batch", "stop-missing", "retain" }
  BY <1>1 DEF Segment
<1>3. gate # v
  BY DEF Turn, Worker
<1>4. v = "wrapper" => work[v].pc = "idle"
  BY <1>3 DEF Stops
<1>5. ASSUME v = "user", work[v].pc \in Plain
      PROVE  work[v].run <= lastRun' /\ (run'.id = 0 \/ run'.id > work[v].run)
  <2>1. /\ work[v].run <= lastRun /\ (run.id = 0 \/ run.id > work[v].run)
        /\ run.id \in 0..MaxRuns /\ lastRun \in 0..MaxRuns
        /\ work[v].run \in 0..(MaxRuns + MaxInstances + 1)
    BY <1>5, TypeParts DEF Shape, Stops, StorageTypes, Run, Work
  <2> QED
    BY <2>1, WrapperAssumption
<1> QED
  BY <1>1, <1>2, <1>4, <1>5 DEF Stops

LEMMA KeepsCalm == Keeps(lease, lease') => LeaseCalm
  BY DEF Keeps, KeptWarm, LeaseCalm

LEMMA SameMsgsCalm ==
  ASSUME UNCHANGED msgs
  PROVE  MsgsCalm
  BY DEF MsgsCalm, WasAccepted

LEMMA SettledCalm ==
  ASSUME TypeInv, NEW m \in Message, SettleOnce(m)
  PROVE  /\ MsgsCalm /\ msgs'[m].status \notin { "queued", "accepted" }
         /\ \A n \in Message : msgs'[n] = msgs[n] \/ (n = m /\ msgs'[n].status = "settled")
<1>1. msgs \in [Message -> MessageState]
  BY TypeParts DEF StorageTypes, MessageState, Status
<1>2. CASE msgs[m].status \in { "queued", "accepted" }
  <2> DEFINE old == msgs[m]
             new == [old EXCEPT !.status = "settled"]
  <2>1. old \in MessageState /\ msgs' = [msgs EXCEPT ![m] = new]
    BY <1>1, <1>2 DEF SettleOnce
  <2> HIDE DEF old
  <2>2. new.status = "settled" /\ new.run = old.run
    BY <2>1 DEF MessageState
  <2> HIDE DEF new
  <2>3. msgs'[m] = new /\ \A n \in Message \ { m } : msgs'[n] = msgs[n]
    BY <1>1, <2>1
  <2> QED
    BY <2>2, <2>3 DEF MsgsCalm, WasAccepted, old, None
<1>3. CASE msgs[m].status \notin { "queued", "accepted" }
  <2>1. UNCHANGED msgs
    BY <1>3 DEF SettleOnce
  <2> QED
    BY <1>3, <2>1, SameMsgsCalm
<1> QED
  BY <1>2, <1>3

LEMMA NothingAccepted ==
  ASSUME Accepted(run.id) = {}, run.id # 0
  PROVE  NoneAccepted(run.id)
  BY DEF Accepted, NoneAccepted, WasAccepted

LEMMA TurnWatch ==
  ASSUME Shape, ~Awaited, WatchInv, NEW w \in Worker, Turn(w), Calm, Stops(w)',
         IF w = "alarm" THEN Delivery'
         ELSE Task.pc \in Carries /\ msgs'[Task.msg].status = "queued" /\ Lost(Task.run)' =>
                Lost(Task.run) \/ Unheld'
  PROVE  WatchInv'
<1>1. World'
  BY CalmWorld DEF Shape, WatchInv
<1>2. /\ lastRun \in 0..MaxRuns /\ lastRun' = lastRun /\ run'.id \in { run.id, 0 }
      /\ lastRun' >= lastRun
  BY TypeParts, WrapperAssumption DEF Shape, StorageTypes, Calm, RunCalm
<1>3. \A v \in Worker : Stops(v)'
  <2>1. ASSUME NEW v \in Worker, v # w PROVE Stops(v)'
    BY <1>2, <2>1, StopsOfOther DEF WatchInv
  <2> QED
    BY <2>1
<1>4. Delivery'
  <2>1. CASE w # "alarm"
    <3>1. "alarm" \in Worker /\ "wrapper" \in Worker /\ work'["alarm"] = work["alarm"] /\ gate # "alarm"
      BY <2>1 DEF Turn, OthersStay, Worker
    <3> QED
      BY <2>1, <3>1, CalmDelivery DEF WatchInv
  <2> QED
    BY <2>1
<1> QED
  BY <1>1, <1>3, <1>4 DEF WatchInv

(* A handler that is back, or goes on with its maintenance, settles nothing. *)
LEMMA PlainStops ==
  ASSUME Shape, NEW w \in Maintainer, Stops(w),
         run'.id \in { run.id, 0 }, lastRun' = lastRun,
         \/ work'[w].pc \in { "idle", "rearm" }
         \/ work[w].pc \in Plain /\ work'[w].pc \in Plain /\ work'[w].run = work[w].run
  PROVE  Stops(w)'
<1>1. /\ work'[w].pc \notin { "settle", "clear", "stop-missing", "retain", "interrupt" }
      /\ w # "wrapper"
  BY DEF Plain, Maintainer
<1>2. "idle" \notin Plain /\ "rearm" \notin Plain
  BY DEF Plain
<1> QED
  BY <1>1, <1>2 DEF Stops

LEMMA MaintainWatch ==
  ASSUME Shape, ~Awaited, WatchInv, NEW w \in Maintainer, Maintain(w)
  PROVE  WatchInv'
<1> USE DEF Shape
<1>1. /\ w \in Worker /\ w # "wrapper" /\ work \in [Worker -> Work] /\ Stops(w)
      /\ run \in Run /\ run.id \in 0..MaxRuns /\ Accepted(run.id) \in SUBSET Message
      /\ { "grace", "unhealthy" } \subseteq Reason
  BY TypeParts DEF Maintainer, Worker, WatchInv, StorageTypes, Run, Accepted, Reason
<1>2. Turn(w) /\ Leaves(w)
  BY MaintainTurn
<1>3. /\ UNCHANGED <<msgs, wrapper, lastRun>>
      /\ work[w].pc \in Plain
  BY DEF Maintain, NothingToClean, RecheckExhausted, JoinRecheck,
     JoinReturns, StartupExpires, StopExpires, StopBegins, StopReturns, ProbeReturns,
     GraceIsMoot, GraceExpires, StopsWatching, SendsPing, TurnsUnhealthy, WarmEnds, Ends,
     storage, bounds, Plain, Reaches, Before, May
<1>4. MsgsCalm /\ LeaseCalm /\ WrapperCalm
  BY <1>3, SameMsgsCalm, SameWrapperCalm, MaintainKeeps, KeepsCalm
<1>5. \/ run' = run
      \/ /\ run'.id = run.id
         /\ run'.live # "off" \/ Accepted(run.id) = {}
      \/ run' = NoRun /\ Accepted(run.id) = {} /\ Queued = {}
  <2>1. CASE StopsWatching(w)
    <3>1. run' = [run EXCEPT !.live = "off"] /\ Accepted(run.id) = {}
      BY <2>1 DEF StopsWatching, ActiveWork
    <3> QED
      BY <1>1, <3>1, RunTypes
  <2>2. CASE SendsPing(w)
    <3>1. run'.id = run.id /\ run'.live = "pinged"
      BY <1>1, <2>2 DEF SendsPing, Run
    <3> QED
      BY <3>1
  <2>3. CASE WarmEnds(w)
    BY <2>3 DEF WarmEnds, WarmIsOver
  <2>4. ASSUME Maintain(w), ~StopsWatching(w), ~SendsPing(w), ~WarmEnds(w) PROVE run' = run
    BY <2>4 DEF Maintain, NothingToClean, RecheckExhausted, JoinRecheck,
       JoinReturns, StartupExpires, StopExpires, StopBegins, StopReturns, ProbeReturns,
       GraceIsMoot, GraceExpires, TurnsUnhealthy, Ends, storage
  <2> QED
    BY <2>1, <2>2, <2>3, <2>4
<1>6. RunCalm
  <2>1. NoRun.id = 0
    BY DEF NoRun, NewRun
  <2> QED
    BY <1>5, <2>1, NothingAccepted DEF RunCalm
<1>7. Calm
  BY <1>3, <1>4, <1>6 DEF Calm
<1>8. Stops(w)'
  <2>1. CASE \E pc \in Plain : Go(w, pc) \/ Await(w, pc)
    <3>1. \E pc \in Plain : Moves(w, pc)
      BY <1>1, <1>2, <2>1, PlainTurn DEF Turn
    <3> QED
      BY <1>1, <1>3, <1>6, <3>1, PlainStops DEF Moves, RunCalm
  <2>2. CASE Return(w)
    <3>1. work'[w].pc \in { "idle", "rearm" }
      BY <1>1, <1>2, <2>2, ReturnTurn DEF Turn
    <3> QED
      BY <1>1, <1>3, <1>6, <3>1, PlainStops DEF RunCalm
  <2>3. CASE GraceExpires(w) \/ TurnsUnhealthy(w)
    <3>1. run.id # 0 /\ MayBeDue(w)
      BY <2>3 DEF GraceExpires, TurnsUnhealthy, Current, Watched
    <3>2. w # "user"
      <4> SUFFICES ASSUME w = "user" PROVE FALSE
        OBVIOUS
      <4>1. run.id > work[w].run
        BY <1>1, <1>3, <3>1 DEF Stops
      <4>2. run.id \in Nat /\ work[w].run \in Nat
        BY <1>1, WrapperAssumption DEF Work
      <4> QED
        BY <3>1, <4>1, <4>2 DEF MayBeDue
    <3>3. /\ UNCHANGED <<run, msgs>>
          /\ \E kind \in { "grace", "unhealthy" } : GoSettle(w, kind, run.id, Accepted(run.id))
      BY <2>3 DEF GraceExpires, TurnsUnhealthy
    <3>4. work'[w].pc = "settle" /\ work'[w].run = run.id /\ work'[w].todo = Accepted(run.id)
      BY <1>1, <1>2, <3>3, SettleTurn DEF Turn
    <3>5. Accepted(run.id)' = Accepted(run.id)
      BY <3>3 DEF Accepted
    <3> QED
      BY <1>1, <3>2, <3>3, <3>4, <3>5 DEF Stops
  <2> QED
    BY <2>1, <2>2, <2>3 DEF Plain, Maintain, NothingToClean, RecheckExhausted, JoinRecheck, JoinReturns,
     StartupExpires, StopExpires, StopBegins, StopReturns, ProbeReturns, GraceIsMoot,
     StopsWatching, SendsPing, WarmEnds, Ends
<1>9. w = "alarm" => Delivery'
  BY <1>2, LeftDelivery
<1>10. ASSUME w # "alarm", Task.pc \in Carries, msgs'[Task.msg].status = "queued", Lost(Task.run)'
       PROVE  Lost(Task.run)
  <2>1. Queued # {}
    <3>1. "alarm" \in Worker /\ WorkHolds("alarm")
      BY TypeParts DEF Worker
    <3>2. Task.msg \in Message
      BY <1>10, <3>1 DEF WorkHolds, Task, Carries, Delivers
    <3> QED
      BY <1>3, <1>10, <3>2 DEF Queued
  <2>2. run'.id = run.id /\ work'["wrapper"] = work["wrapper"] /\ Task' = Task
    BY <1>1, <1>2, <1>5, <1>10, <2>1 DEF Turn, OthersStay, Worker, Task
  <2> QED
    BY <1>10, <2>2 DEF Lost, Current
<1> QED
  BY <1>1, <1>2, <1>7, <1>8, <1>9, <1>10, TurnWatch

(* Settling handlers: only the alarm has a delivery to leave, and a message *)
(* that is on its way is either settled or belongs to a run that is lost.   *)
LEMMA TaskIsTyped ==
  ASSUME Shape
  PROVE  /\ Task.pc \in Pending => Task.msg \in Message
         /\ Carries \subseteq Pending
<1>1. "alarm" \in Worker /\ WorkHolds("alarm")
  BY TypeParts DEF Worker, Shape
<1> QED
  BY <1>1 DEF WorkHolds, Task, Pending, Carries, Delivers

LEMMA SettleWatch ==
  ASSUME Shape, ~Awaited, WatchInv, NEW w \in Worker, Settle(w)
  PROVE  WatchInv'
<1> USE DEF Shape
<1>1. /\ work \in [Worker -> Work] /\ Stops(w) /\ work[w].pc = "settle"
      /\ UNCHANGED <<lease, run, wrapper, lastRun>>
      /\ work[w].todo \in SUBSET Message /\ LeaseOK /\ work[w].kind \in Settles[w]
      /\ gate \in { "open", w }
  BY TypeParts DEF WatchInv, Settle, May, bounds, Work, StorageTypes, WorkHolds
<1>2. Turn(w) /\ Leaves(w)
  BY SettlingTurn
<1>3. ASSUME MsgsCalm PROVE Calm
  BY <1>1, <1>3, SameWrapperCalm, LeaseIsKept, KeepsCalm DEF Calm, RunCalm
<1>4. w = "alarm" => Delivery'
  BY <1>2, LeftDelivery
<1>5. CASE SettlesOne(w)
  <2>1. PICK m \in work[w].todo : /\ SettleOnce(m) /\ gate' = w
                                  /\ work' = [work EXCEPT ![w].todo = @ \ {m}]
    BY <1>5 DEF SettlesOne
  <2>2. /\ m \in Message /\ MsgsCalm /\ msgs'[m].status \notin { "queued", "accepted" }
        /\ \A n \in Message : msgs'[n] = msgs[n] \/ (n = m /\ msgs'[n].status = "settled")
    BY <1>1, <2>1, SettledCalm
  <2>3. /\ work'[w].pc = "settle" /\ work'[w].kind = work[w].kind /\ work'[w].run = work[w].run
        /\ work'[w].todo = work[w].todo \ { m }
    BY <1>1, <2>1 DEF Work
  <2>4. Stops(w)'
    <3>1. /\ Accepted(run.id)' \subseteq Accepted(run.id) \ { m }
          /\ Queued' \subseteq Queued \ { m }
      BY <1>1, <2>2 DEF Accepted, Queued
    <3>2. "settle" \notin Plain
      BY DEF Plain
    <3> QED
      BY <1>1, <2>1, <2>3, <3>1, <3>2 DEF Stops
  <2>5. ASSUME w # "alarm", Lost(Task.run)' PROVE Lost(Task.run)
    <3>1. Task' = Task
      BY <1>2, <2>5 DEF Turn, OthersStay, Worker, Task
    <3>2. work'["wrapper"].pc = work["wrapper"].pc /\ work'["wrapper"].run = work["wrapper"].run
      BY <1>1, <1>2, <2>3 DEF Turn, OthersStay, Worker
    <3> QED
      BY <1>1, <2>5, <3>1, <3>2 DEF Lost, Current
  <2> QED
    BY <1>2, <1>3, <1>4, <2>2, <2>4, <2>5, TurnWatch
<1>6. CASE Return(w) /\ UNCHANGED msgs /\ work[w].kind \in { "pending", "user" }
  <2>1. w = "user"
    BY <1>1, <1>6 DEF Settles, Worker
  <2>2. work'[w].pc = "idle"
    BY <1>1, <1>6, <2>1, ReturnTurn
  <2>3. Stops(w)'
    BY <2>1, <2>2 DEF Stops, Plain
  <2>4. ASSUME Lost(Task.run)' PROVE Lost(Task.run)
    <3>1. work'["alarm"] = work["alarm"] /\ work'["wrapper"] = work["wrapper"]
      BY <1>2, <2>1 DEF Turn, OthersStay, Worker
    <3> QED
      BY <1>1, <2>4, <3>1 DEF Lost, Current, Task
  <2> QED
    BY <1>2, <1>3, <1>6, <2>1, <2>3, <2>4, SameMsgsCalm, TurnWatch
<1> QED
  BY <1>5, <1>6, SettleCases

LEMMA SettleEndsWatch ==
  ASSUME Shape, ~Awaited, WatchInv, NEW w \in Worker, SettleEnds(w)
  PROVE  WatchInv'
<1> USE DEF Shape
<1>1. /\ work \in [Worker -> Work] /\ Stops(w) /\ work[w].pc = "settle" /\ work[w].todo = {}
      /\ UNCHANGED <<lease, run, msgs, wrapper, lastRun>> /\ gate' = w
      /\ LeaseOK /\ work[w].kind \in Settles[w]
  BY TypeParts DEF WatchInv, SettleEnds, May, Go, storage, bounds, StorageTypes, WorkHolds
<1>2. Turn(w) /\ Leaves(w)
  BY SettlingTurn
<1>3. PICK pc \in { "interrupt", "retain", "stop-missing", "clear" } :
        /\ pc = AfterSettle[work[w].kind]
        /\ pc = "interrupt" <=> work[w].kind = "pending"
        /\ pc \in { "retain", "stop-missing" } => w = "wrapper"
  BY <1>1 DEF AfterSettle, Settles, Worker
<1>4. Moves(w, pc)
  <2>1. Go(w, pc) /\ pc \in Pc
    BY <1>3 DEF SettleEnds, Pc
  <2> QED
    BY <1>1, <2>1, GoType
<1>5. Calm
  BY <1>1, SameMsgsCalm, SameWrapperCalm, LeaseIsKept, KeepsCalm DEF Calm, RunCalm
<1>6. Stops(w)'
  <2>1. Accepted(run.id)' = Accepted(run.id) /\ Queued' = Queued
    BY <1>1 DEF Accepted, Queued
  <2>2. pc \notin Plain
    BY DEF Plain
  <2> QED
    BY <1>1, <1>3, <1>4, <2>1, <2>2 DEF Stops, Moves
<1>7. w = "alarm" => Delivery'
  BY <1>2, LeftDelivery
<1>8. ASSUME w # "alarm", Lost(Task.run)' PROVE Lost(Task.run)
  <2>1. Task' = Task
    BY <1>2, <1>8 DEF Turn, OthersStay, Worker, Task
  <2>2. /\ work'["wrapper"].run = work["wrapper"].run
        /\ work'["wrapper"].pc = work["wrapper"].pc \/ work["wrapper"].pc = "settle"
    BY <1>1, <1>2, <1>4 DEF Turn, OthersStay, Worker, Moves
  <2> QED
    BY <1>1, <1>8, <2>1, <2>2 DEF Lost, Current
<1> QED
  BY <1>2, <1>5, <1>6, <1>7, <1>8, TurnWatch

LEMMA ClearWatch ==
  ASSUME Shape, ~Awaited, WatchInv, NEW w \in Worker, Clear(w)
  PROVE  WatchInv'
<1> USE DEF Shape
<1>1. /\ work \in [Worker -> Work] /\ Stops(w) /\ work[w].pc = "clear"
      /\ UNCHANGED <<lease, msgs, wrapper, lastRun>>
      /\ LeaseOK /\ work[w].kind \in Settles[w] \ { "pending" }
      /\ gate \in { "open", w } /\ lastRun \in 0..MaxRuns
  BY TypeParts DEF WatchInv, Clear, May, bounds, StorageTypes, WorkHolds
<1>2. Turn(w) /\ Leaves(w)
  BY SettlingTurn
<1>3. run.id = work[w].run /\ Accepted(run.id) = {}
  BY <1>1 DEF Stops
<1>4. run'.id = 0 /\ (run.id # 0 => NoneAccepted(run.id)) /\ (run.id = 0 => run' = run)
  <2>1. NoRun.id = 0
    BY DEF NoRun, NewRun
  <2> QED
    BY <1>3, <2>1, NothingAccepted DEF Clear, ClearIdentity, Current
<1>5. Calm
  BY <1>1, <1>4, SameMsgsCalm, SameWrapperCalm, LeaseIsKept, KeepsCalm DEF Calm, RunCalm
<1>6. Stops(w)'
  <2>1. CASE w = "wrapper"
    <3>1. work[w].kind # "user" /\ w \in Worker
      BY <1>1, <2>1 DEF Settles, Worker
    <3>2. Return(w)
      BY <2>1, <3>1 DEF Clear
    <3>3. work'[w].pc = "idle"
      BY <1>1, <2>1, <3>2, ReturnTurn
    <3> QED
      BY <2>1, <3>3, SegmentPc DEF Stops, Plain
  <2>2. CASE w = "user"
    <3>1. work[w].kind = "user"
      BY <1>1, <2>2 DEF Stops
    <3>2. BeginMaintenance(w)
      BY <2>2, <3>1 DEF Clear
    <3>3. work'[w].pc = "cleanup" /\ work'[w].run = lastRun
      BY <1>1, <3>2, BeginType
    <3> QED
      BY <1>1, <1>4, <2>2, <3>3, WrapperAssumption DEF Stops, Plain
  <2>3. CASE w = "alarm"
    <3>1. work[w].kind \in { "grace", "unhealthy" }
      BY <1>1, <2>3 DEF Settles, Worker
    <3>2. PICK pc \in { "liveness", "warm" } : pc = AfterClear[work[w].kind]
      BY <3>1 DEF AfterClear
    <3>3. Go(w, pc) /\ pc \in Plain
      BY <2>3, <3>1, <3>2 DEF Clear, Plain
    <3>4. work'[w].pc = pc
      BY <1>1, <3>3, PlainTurn DEF Moves
    <3> QED
      BY <2>3, <3>2, <3>4 DEF Stops, Plain
  <2> QED
    BY <2>1, <2>2, <2>3 DEF Worker
<1>7. w = "alarm" => Delivery'
  BY <1>2, LeftDelivery
<1>8. ASSUME w # "alarm", Task.pc \in Carries, msgs'[Task.msg].status = "queued", Lost(Task.run)'
      PROVE  Lost(Task.run)
  <2>1. CASE w = "user"
    <3>1. Queued = {}
      BY <1>1, <2>1 DEF Stops
    <3> QED
      BY <1>1, <1>8, <3>1, TaskIsTyped DEF Queued
  <2>2. CASE w = "wrapper"
    <3>1. run.id # 0 /\ run.id = work[w].run /\ run.id \in { 0, Task.run }
      BY <1>1, <1>8, <2>2 DEF Stops, WatchInv, Delivery
    <3> QED
      BY <1>1, <2>2, <3>1 DEF Lost
  <2> QED
    BY <1>8, <2>1, <2>2 DEF Worker
<1> QED
  BY <1>2, <1>5, <1>6, <1>7, <1>8, TurnWatch

LEMMA UserWatch ==
  ASSUME Shape, ~Awaited, WatchInv, User
  PROVE  WatchInv'
<1> USE DEF Shape
<1>1. /\ "user" \in Worker /\ "alarm" \in Worker /\ "wrapper" \in Worker
      /\ work \in [Worker -> Work] /\ Stops("user") /\ LeaseOK
      /\ msgs \in [Message -> MessageState]
      /\ run.id \in 0..MaxRuns /\ 0 \in 0..MaxRuns
      /\ Accepted(run.id) \in SUBSET Message /\ Queued \in SUBSET Message
      /\ { "pending", "user" } \subseteq Reason
  BY TypeParts, WrapperAssumption
     DEF Worker, WatchInv, StorageTypes, Run, Accepted, Queued, Reason, MessageState, Status
<1>2. Turn("user")
  BY UserTurn
<1>3. UNCHANGED <<run, wrapper, lastRun>>
  BY DEF User, Submit, Interrupt, InterruptAccepted, storage, bounds
<1>4. MsgsCalm
  <2>1. CASE Interrupt \/ InterruptAccepted
    BY <2>1, SameMsgsCalm DEF Interrupt, InterruptAccepted, storage
  <2>2. ASSUME NEW m \in Message, Submit(m) PROVE MsgsCalm
    <3> DEFINE old == msgs[m]
               new == [old EXCEPT !.status = "queued"]
    <3>1. /\ old \in MessageState /\ old.status = None /\ gate = "open"
          /\ msgs' = [msgs EXCEPT ![m] = new]
      BY <1>1, <2>2 DEF Submit
    <3> HIDE DEF old
    <3>2. new.status = "queued" /\ new.run = old.run
      BY <3>1 DEF MessageState
    <3> HIDE DEF new
    <3>3. msgs'[m] = new /\ \A n \in Message \ { m } : msgs'[n] = msgs[n]
      BY <1>1, <3>1
    <3> QED
      BY <3>1, <3>2, <3>3 DEF MsgsCalm, WasAccepted, old, None
  <2> QED
    BY <2>1, <2>2 DEF User
<1>5. LeaseCalm
  <2>1. Keeps(lease, lease')
    BY <1>1, LeaseIsKept DEF User, Submit, Interrupt, InterruptAccepted, storage
  <2> QED
    BY <2>1, KeepsCalm
<1>6. Calm
  BY <1>3, <1>4, <1>5, SameWrapperCalm DEF Calm, RunCalm
<1>7. Stops("user")'
  <2>1. ASSUME NEW m \in Message, Submit(m) PROVE Stops("user")'
    <3>1. work' = work /\ gate = "open"
      BY <2>1 DEF Submit
    <3>2. work["user"].pc \notin { "settle", "interrupt", "clear", "stop-missing", "retain" }
      BY <1>1, <3>1 DEF SegmentsHold, Segment, Worker
    <3> QED
      BY <1>1, <1>3, <3>1, <3>2 DEF Stops
  <2>2. CASE Interrupt
    <3>1. /\ work'["user"].pc = "settle" /\ work'["user"].kind = "pending"
          /\ work'["user"].todo = Queued
      BY <1>1, <2>2, SettleTurn DEF Interrupt, May
    <3>2. Queued' = Queued
      BY <2>2 DEF Interrupt, storage, Queued
    <3> QED
      BY <3>1, <3>2 DEF Stops, Plain
  <2>3. CASE InterruptAccepted
    <3>1. Queued = {} /\ UNCHANGED msgs
      BY <1>1, <2>3 DEF Stops, InterruptAccepted, May
    <3>2. Queued' = Queued /\ Accepted(run.id)' = Accepted(run.id)
      BY <1>3, <3>1 DEF Queued, Accepted
    <3>3. CASE Return("user")
      <4>1. work'["user"].pc = "idle"
        BY <1>1, <2>3, <3>3, ReturnTurn DEF InterruptAccepted, May
      <4> QED
        BY <4>1 DEF Stops, Plain
    <3>4. CASE GoSettle("user", "user", run.id, Accepted(run.id))
      <4>1. /\ work'["user"].pc = "settle" /\ work'["user"].kind = "user"
            /\ work'["user"].run = run.id /\ work'["user"].todo = Accepted(run.id)
        BY <1>1, <2>3, <3>4, SettleTurn DEF InterruptAccepted, May
      <4> QED
        BY <1>3, <3>1, <3>2, <4>1 DEF Stops, Plain
    <3> QED
      BY <2>3, <3>3, <3>4 DEF InterruptAccepted
  <2> QED
    BY <2>1, <2>2, <2>3 DEF User
<1>8. ASSUME Lost(Task.run)' PROVE Lost(Task.run)
  <2>1. work'["alarm"] = work["alarm"] /\ work'["wrapper"] = work["wrapper"]
    BY <1>1, <1>2 DEF Turn, OthersStay
  <2> QED
    BY <1>3, <1>8, <2>1 DEF Lost, Current, Task
<1> QED
  BY <1>1, <1>2, <1>6, <1>7, <1>8, TurnWatch

LEMMA TerminalWatch ==
  ASSUME Shape, ~Awaited, WatchInv, Terminal
  PROVE  WatchInv'
<1> USE DEF Shape
<1> DEFINE self == work["wrapper"]
<1>1. /\ "wrapper" \in Worker /\ "alarm" \in Worker /\ work \in [Worker -> Work]
      /\ Stops("wrapper") /\ LeaseOK /\ msgs \in [Message -> MessageState]
      /\ run \in Run /\ run.id \in 0..MaxRuns /\ Accepted(run.id) \in SUBSET Message
      /\ { "failed", "protocol", "completed", "missing" } \subseteq Reason
      /\ wrapper \in [Instance -> Process] /\ gate \in Worker \cup { "open" }
  BY TypeParts
     DEF Worker, WatchInv, StorageTypes, Run, Accepted, Reason, MessageState, Status, GateOK
<1>2. Turn("wrapper") /\ UNCHANGED lastRun
  BY TerminalTurn DEF Terminal, ArriveFinalizing, ArriveStale, ArriveFailed, ArriveCompleted,
     Repair, FailBatch, BreakBatch, SealBatch, StopMissing, Retain, bounds
<1>3. Task' = Task
  BY <1>1, <1>2 DEF Turn, OthersStay, Worker, Task
<1>4. self.pc # "idle" => gate = "wrapper" /\ run.id # 0 /\ run.id = self.run
  BY <1>1 DEF Stops
<1>5. ASSUME Calm, Stops("wrapper")',
             Task.pc \in Carries /\ Lost(Task.run)' => Lost(Task.run) \/ Unheld'
      PROVE  WatchInv'
  BY <1>1, <1>2, <1>5, TurnWatch, WrapperAssumption DEF Worker
<1>6. /\ Heard.id = run.id /\ (Heard.live = "off" => run.live = "off")
      /\ [Heard EXCEPT !.finalizing = TRUE].id = run.id
      /\ [Heard EXCEPT !.finalizing = TRUE].live = "off" => run.live = "off"
  BY <1>1 DEF Heard, Run
<1>7. ASSUME NEW i \in Instance, ArriveFinalizing(i) PROVE WatchInv'
  <2>1. work' = work /\ self.pc = "idle" /\ UNCHANGED <<lease, msgs>>
    BY <1>4, <1>7 DEF ArriveFinalizing
  <2>2. RunCalm /\ run'.id = run.id
    BY <1>6, <1>7 DEF ArriveFinalizing, UpdateIfCurrent, RunCalm
  <2>3. WrapperCalm
    <3> DEFINE old == wrapper[i]
               new == [old EXCEPT !.out = "completed"]
    <3>1. old \in Process /\ (old.linked = "yes" => old.phase = "up")
      BY <1>1 DEF LinkedIsUp
    <3>2. wrapper' = [wrapper EXCEPT ![i] = new]
      BY <1>7 DEF ArriveFinalizing
    <3> HIDE DEF old
    <3>3. Fades(old, new)
      BY <3>1 DEF Process, Fades, Live
    <3> HIDE DEF new
    <3> QED
      BY <3>2, <3>3, OneFades DEF old
  <2>4. Calm
    BY <1>1, <1>2, <2>1, <2>2, <2>3, SameMsgsCalm, LeaseIsKept, KeepsCalm DEF Calm
  <2>5. Stops("wrapper")'
    BY <2>1 DEF Stops
  <2>6. Lost(Task.run)' => Lost(Task.run)
    BY <1>3, <2>1, <2>2 DEF Lost, Current
  <2> QED
    BY <1>5, <2>4, <2>5, <2>6
<1>8. ASSUME NEW i \in Instance, ArriveStale(i) PROVE WatchInv'
  <2>1. UNCHANGED <<work, lease, run, msgs>> /\ self.pc = "idle"
    BY <1>8 DEF ArriveStale, storage, May
  <2>2. Calm
    BY <1>1, <1>2, <1>8, <2>1, SameMsgsCalm, LeaseIsKept, KeepsCalm, ReportedCalm
       DEF Calm, RunCalm, ArriveStale
  <2>3. Stops("wrapper")'
    BY <2>1 DEF Stops
  <2>4. Lost(Task.run)' => Lost(Task.run)
    BY <1>3, <2>1 DEF Lost, Current
  <2> QED
    BY <1>5, <2>2, <2>3, <2>4
<1>9. ASSUME NEW i \in Instance, ArriveFailed(i) \/ ArriveCompleted(i) PROVE WatchInv'
  <2>1. /\ Current(wrapper[i].run) /\ run' = Heard /\ Reported(i) /\ gate' = "wrapper"
        /\ UNCHANGED msgs
    BY <1>9 DEF ArriveFailed, ArriveCompleted
  <2>2. run.id # 0 /\ run.id = wrapper[i].run /\ run'.id = run.id /\ RunCalm
    BY <1>6, <2>1 DEF Current, RunCalm
  <2>3. Keeps(lease, lease')
    BY <1>1, <1>9, LeaseIsKept DEF ArriveFailed, ArriveCompleted
  <2>4. Calm
    BY <1>2, <2>1, <2>2, <2>3, SameMsgsCalm, KeepsCalm, ReportedCalm DEF Calm
  <2>5. work'["wrapper"].pc = "repair" /\ work'["wrapper"].run = run.id
    BY <1>1, <1>9 DEF ArriveFailed, ArriveCompleted, Work
  <2>6. Stops("wrapper")'
    BY <2>1, <2>2, <2>5 DEF Stops
  <2>7. wrapper'[i].linked # "yes" /\ wrapper'[i].held = {}
    <3> DEFINE old == wrapper[i]
               new == [old EXCEPT !.out = None, !.held = {}, !.sealed = TRUE,
                         !.linked = IF old.linked = "yes" THEN "closing" ELSE old.linked]
    <3>1. old \in Process /\ wrapper'[i] = new
      BY <1>1, <2>1 DEF Reported
    <3> HIDE DEF old
    <3> QED
      BY <3>1 DEF Process
  <2>8. ASSUME Task.pc \in Carries, ~Lost(Task.run) PROVE Unheld'
    <3>1. Current(Task.run) /\ Bound
      BY <2>8 DEF Lost, WatchInv, Delivery
    <3>2. Task.run = run.id /\ Task.inst = i
      BY <2>2, <3>1 DEF Current, Bound
    <3>3. \A j \in Observed' : wrapper'[j].run = Task.run => j = i
      BY <2>2, <2>4, <3>1, <3>2, CalmObserved DEF Calm, Bound, Observed
    <3> QED
      BY <1>3, <2>7, <3>2, <3>3 DEF Unheld
  <2> QED
    BY <1>5, <2>4, <2>6, <2>8
<1>10. ASSUME UNCHANGED <<run, msgs, wrapper>>, Keeps(lease, lease'), self.pc # "idle",
              \/ work'["wrapper"].pc = "settle" /\ work'["wrapper"].run = self.run
                 /\ work'["wrapper"].todo = Accepted(run.id) /\ gate' = "wrapper"
              \/ work'["wrapper"].pc = "clear" /\ work'["wrapper"].run = self.run
                 /\ Accepted(run.id) = {} /\ gate' = "wrapper"
       PROVE  WatchInv'
  <2>1. Calm
    BY <1>2, <1>10, SameMsgsCalm, SameWrapperCalm, KeepsCalm DEF Calm, RunCalm
  <2>2. Accepted(run.id)' = Accepted(run.id)
    BY <1>10 DEF Accepted
  <2>3. Stops("wrapper")'
    BY <1>4, <1>10, <2>2 DEF Stops
  <2>4. Lost(Task.run)' => Lost(Task.run)
    BY <1>3, <1>10 DEF Lost, Current
  <2> QED
    BY <1>5, <2>1, <2>3, <2>4
<1>11. CASE Repair
  <2>1. /\ self.pc = "repair" /\ self.run = run.id /\ UNCHANGED <<lease, run, wrapper>>
        /\ \E S : msgs' = EnsureAccepted(S, self.run)
    BY <1>4, <1>11 DEF Repair, May
  <2>2. MsgsCalm
    BY <1>1, <2>1 DEF EnsureAccepted, MsgsCalm, WasAccepted, MessageState, Status, None
  <2>3. Calm
    BY <1>1, <1>2, <2>1, <2>2, LeaseIsKept, KeepsCalm, SameWrapperCalm DEF Calm, RunCalm
  <2>4. work'["wrapper"].pc = "batch" /\ work'["wrapper"].run = self.run /\ gate' = "wrapper"
    BY <1>1, <1>11, GoType DEF Repair, Moves, Pc
  <2>5. Stops("wrapper")'
    BY <1>4, <2>1, <2>4 DEF Stops
  <2>6. Lost(Task.run)' => Lost(Task.run)
    BY <1>3, <2>1, <2>4 DEF Lost, Current
  <2> QED
    BY <1>5, <2>3, <2>5, <2>6
<1>12. CASE FailBatch \/ BreakBatch \/ SealBatch
  <2>1. /\ self.pc = "batch" /\ self.run = run.id /\ gate \in { "open", "wrapper" }
        /\ UNCHANGED <<run, msgs, wrapper>>
    BY <1>4, <1>12 DEF FailBatch, BreakBatch, SealBatch, May, storage
  <2>2. PICK kind \in Reason : GoSettle("wrapper", kind, run.id, Accepted(run.id))
    BY <1>1, <1>12, <2>1 DEF FailBatch, BreakBatch, SealBatch
  <2>3. /\ work'["wrapper"].pc = "settle" /\ work'["wrapper"].run = run.id
        /\ work'["wrapper"].todo = Accepted(run.id) /\ gate' = "wrapper"
    BY <1>1, <2>2, GoSettleType
  <2>4. Keeps(lease, lease')
    BY <1>1, <1>12, LeaseIsKept DEF FailBatch, BreakBatch, SealBatch, storage
  <2> QED
    BY <1>10, <2>1, <2>3, <2>4
<1>13. CASE StopMissing
  <2>1. self.pc = "stop-missing" /\ UNCHANGED <<run, msgs, wrapper>>
    BY <1>13 DEF StopMissing, May
  <2>2. Accepted(run.id) = {}
    BY <1>1, <2>1 DEF Stops
  <2>3. /\ work'["wrapper"].pc = "clear" /\ work'["wrapper"].run = self.run
        /\ gate' = "wrapper"
    BY <1>1, <1>13, GoType DEF StopMissing, Moves, Pc
  <2>4. Keeps(lease, lease')
    BY <1>1, <1>13, LeaseIsKept DEF StopMissing
  <2> QED
    BY <1>10, <2>1, <2>2, <2>3, <2>4
<1>14. CASE Retain
  <2>1. self.pc = "retain" /\ gate \in { "open", "wrapper" } /\ UNCHANGED <<msgs, wrapper>>
    BY <1>14 DEF Retain, May
  <2>2. run.id # 0 /\ run.id = self.run /\ Accepted(run.id) = {}
    BY <1>1, <1>4, <2>1 DEF Stops
  <2>3. NoRun.id = 0 /\ RunCalm
    BY <1>14, <2>2, NothingAccepted DEF Retain, NoRun, NewRun, RunCalm
  <2>4. LeaseCalm
    BY <1>1, <1>14, <2>3, WarmLease DEF Retain, LeaseCalm
  <2>5. Calm
    BY <1>2, <2>1, <2>3, <2>4, SameMsgsCalm, SameWrapperCalm DEF Calm
  <2>6. work'["wrapper"].pc = "idle"
    BY <1>1, <1>14, <2>1, ReturnTurn DEF Retain
  <2>7. Stops("wrapper")'
    BY <2>6 DEF Stops
  <2>8. Task.pc \in Carries => Lost(Task.run)
    BY <2>1, <2>2 DEF WatchInv, Delivery, Lost
  <2> QED
    BY <1>5, <2>5, <2>7, <2>8
<1> QED
  BY <1>7, <1>8, <1>9, <1>11, <1>12, <1>13, <1>14 DEF Terminal

LEMMA SandboxWatch ==
  ASSUME Shape, ~Awaited, WatchInv, Sandbox
  PROVE  WatchInv'
<1> USE DEF Shape
<1>1. /\ UNCHANGED <<lease, msgs, gate, work, lastRun>>
      /\ gate = "open" \/ UNCHANGED run
  BY SandboxStays DEF storage
<1>2. /\ run \in Run /\ LeaseOK
  BY TypeParts DEF StorageTypes
<1>3. run'.id = run.id /\ RunCalm
  <2>1. CASE \E i \in Instance : Disconnected(i)
    <3>1. run' = run \/ (run' = [run EXCEPT !.live = "off"] /\ Accepted(run.id) = {})
      BY <2>1 DEF Disconnected, Rearmed, ActiveWork
    <3> QED
      BY <1>2, <3>1, NothingAccepted DEF Run, RunCalm
  <2>2. CASE run' \in { run, Answered, Heard }
    BY <1>2, <2>2 DEF Answered, Heard, Run, RunCalm
  <2> QED
    BY <2>1, <2>2 DEF Sandbox, Started, Seal, Fails, Dies, Drops, Reconnect, Loses, Pong,
       Output, storage
<1>4. Calm
  BY <1>1, <1>2, <1>3, SameMsgsCalm, LeaseIsKept, KeepsCalm, SandboxCalm DEF Calm
<1>5. World'
  BY <1>4, CalmWorld DEF WatchInv
<1>6. Task' = Task /\ (Lost(Task.run)' => Lost(Task.run))
  BY <1>1, <1>3 DEF Lost, Current, Task
<1>7. Delivery'
  BY <1>1, <1>4, <1>6, CalmDelivery DEF WatchInv, Worker
<1>8. \A w \in Worker : Stops(w)'
  BY <1>1, <1>3 DEF WatchInv, Stops, Accepted, Queued
<1> QED
  BY <1>5, <1>7, <1>8 DEF WatchInv

(* A crash leaves no handler; what is stored is there as it was. *)
LEMMA CrashWatch ==
  ASSUME Shape, WatchInv, Crash
  PROVE  WatchInv'
<1> USE DEF Shape
<1>1. /\ UNCHANGED <<lease, run, msgs, lastRun>>
      /\ \A w \in Worker : work'[w].pc = "idle"
  BY CrashStays DEF storage
<1>2. LeaseOK /\ "alarm" \in Worker
  BY TypeParts DEF StorageTypes, Worker
<1>3. Calm
  BY <1>1, <1>2, SameMsgsCalm, LeaseIsKept, KeepsCalm, CrashCalm DEF Calm, RunCalm
<1>4. World'
  BY <1>3, CalmWorld DEF WatchInv
<1>5. Delivery'
  BY <1>1, <1>2, SegmentPc, LeftDelivery DEF Leaves
<1>6. \A w \in Worker : Stops(w)'
  BY <1>1 DEF Stops, Plain
<1> QED
  BY <1>4, <1>5, <1>6 DEF WatchInv

(* The alarm.  A step of its delivery leaves what the other handlers settle *)
(* as it is.                                                                *)
LEMMA AlarmWatchParts ==
  ASSUME Shape, ~Awaited, WatchInv, Turn("alarm"), World', Delivery',
         work'["alarm"].pc \notin { "settle", "clear", "stop-missing", "retain" },
         lastRun' >= lastRun, lastRun' \in 0..MaxRuns,
         run'.id \in { run.id, 0 } \/ run'.id = lastRun + 1
  PROVE  WatchInv'
<1>1. "alarm" \in Worker
  BY DEF Worker
<1>2. Stops("alarm")'
  BY DEF Stops
<1>3. \A v \in Worker \ { "alarm" } : Stops(v)'
  BY <1>1, StopsOfOther DEF WatchInv
<1> QED
  BY <1>2, <1>3 DEF WatchInv

LEMMA CalmAlarm ==
  ASSUME Shape, ~Awaited, WatchInv, Turn("alarm"), Calm, Delivery',
         work'["alarm"].pc \notin { "settle", "clear", "stop-missing", "retain" }
  PROVE  WatchInv'
<1>1. World'
  BY CalmWorld DEF Shape, WatchInv
<1>2. lastRun \in 0..MaxRuns /\ lastRun' = lastRun /\ run'.id \in { run.id, 0 }
  BY TypeParts DEF Shape, StorageTypes, Calm, RunCalm
<1>3. lastRun' >= lastRun /\ lastRun' \in 0..MaxRuns
  BY <1>2, WrapperAssumption
<1> QED
  BY <1>1, <1>2, <1>3, AlarmWatchParts

(* The alarm begins, or its delivery is over. *)
LEMMA LeavesWatch ==
  ASSUME Shape, ~Awaited, WatchInv, Turn("alarm"),
         \/ AlarmFires \/ AlarmIsSet \/ ServerIdles
         \/ SendHeld \/ ObservesUnexpected \/ Refused \/ ExecuteFails \/ Delivered
         \/ ForcedRecheck /\ Return("alarm")
  PROVE  WatchInv'
<1> USE DEF Shape
<1>1. /\ "alarm" \in Worker /\ work \in [Worker -> Work] /\ run \in Run /\ LeaseOK
      /\ gate \in { "open", "alarm" } /\ lastRun \in 0..MaxRuns
  BY TypeParts DEF Worker, StorageTypes, Turn
<1>2. Leaves("alarm") /\ work'["alarm"].pc \in { "cleanup", "idle", "flush", "rearm" }
  <2>1. CASE AlarmFires
    <3>1. work'["alarm"].pc = "cleanup"
      BY <1>1, <2>1, BeginType DEF AlarmFires
    <3> QED
      BY <3>1, SegmentPc DEF Leaves, Plain
  <2>2. CASE AlarmIsSet
    <3>1. work'["alarm"] = IdleWork
      BY <1>1, <2>2 DEF AlarmIsSet
    <3> QED
      BY <3>1, IdleType, SegmentPc DEF Leaves
  <2>3. CASE ServerIdles
    <3>1. Leaves("alarm") /\ Moves("alarm", "flush")
      BY <1>1, <2>3, PlainTurn DEF ServerIdles, Plain
    <3> QED
      BY <3>1 DEF Moves
  <2>4. CASE Return("alarm")
    BY <1>1, <2>4, ReturnTurn
  <2> QED
    BY <2>1, <2>2, <2>3, <2>4 DEF SendHeld, ObservesUnexpected, Refused, ExecuteFails, Delivered
<1>3. Delivery'
  BY <1>2, LeftDelivery
<1>4. WrapperCalm /\ lastRun' = lastRun
  BY SameWrapperCalm DEF AlarmFires, AlarmIsSet, ServerIdles, SendHeld, ObservesUnexpected,
     Refused, ExecuteFails, Delivered, ForcedRecheck, bounds
<1>5. LeaseCalm
  <2>1. Keeps(lease, lease')
    <3>1. CASE Delivered
      BY <1>1, <3>1, DeadlineIsKept DEF Delivered
    <3> QED
      BY <1>1, <3>1, LeaseIsKept DEF AlarmFires, AlarmIsSet, ServerIdles, SendHeld,
         ObservesUnexpected, Refused, ExecuteFails, ForcedRecheck, storage
  <2> QED
    BY <2>1, KeepsCalm
<1>6. MsgsCalm
  <2>1. CASE UNCHANGED msgs
    BY <2>1, SameMsgsCalm
  <2>2. CASE SettleOnce(Task.msg) /\ Task.pc \in Pending
    <3>1. PICK m \in Message : m = Task.msg
      BY <2>2, TaskIsTyped
    <3> QED
      BY <2>2, <3>1, SettledCalm
  <2> QED
    BY <2>1, <2>2 DEF AlarmFires, AlarmIsSet, ServerIdles, SendHeld, ObservesUnexpected,
       Refused, ExecuteFails, Delivered, ForcedRecheck, storage, Task, DeliveryFails, May,
       Executing, Pending, Sends, Carries, Executes
<1>7. RunCalm
  <2>1. CASE AlarmIsSet
    <3>1. run' = run \/ (run' = [run EXCEPT !.live = "off"] /\ Accepted(run.id) = {})
      BY <2>1 DEF AlarmIsSet, Rearmed, ActiveWork
    <3> QED
      BY <1>1, <3>1, NothingAccepted DEF Run, RunCalm
  <2>2. CASE Refused \/ Delivered
    BY <1>1, <2>2 DEF Refused, Delivered, UpdateIfCurrent, Run, RunCalm
  <2>3. CASE ExecuteFails
    <3>1. CASE Task.fresh
      <4>1. /\ run' = IF Current(Task.run) THEN NoRun ELSE run
            /\ Task.pc \in Executes \cup { "accepted" }
        BY <2>3, <3>1 DEF ExecuteFails, ClearIdentity, Task, Executing, May, Executes
      <4>2. NoneAccepted(Task.run)
        BY <3>1, <4>1 DEF WatchInv, Delivery
      <4>3. NoRun.id = 0
        BY DEF NoRun, NewRun
      <4> QED
        BY <4>1, <4>2, <4>3 DEF RunCalm, Current
    <3>2. CASE ~Task.fresh
      BY <1>1, <2>3, <3>2 DEF ExecuteFails, UpdateIfCurrent, Task, Run, RunCalm
    <3> QED
      BY <3>1, <3>2
  <2> QED
    BY <2>1, <2>2, <2>3 DEF AlarmFires, ServerIdles, SendHeld, ObservesUnexpected,
       ForcedRecheck, storage, RunCalm
<1>8. Calm
  BY <1>4, <1>5, <1>6, <1>7 DEF Calm
<1> QED
  BY <1>2, <1>3, <1>8, CalmAlarm

(* The message is chosen, and the wrapper for it is observed. *)
LEMMA SendsWatch ==
  ASSUME Shape, ~Awaited, WatchInv, Turn("alarm"),
         \/ \E m \in Message : Flush(m)
         \/ Observe \/ Reauthorize
         \/ ForcedRecheck /\ ~Return("alarm")
  PROVE  WatchInv'
<1> USE DEF Shape
<1>1. "alarm" \in Worker /\ work \in [Worker -> Work] /\ LeaseOK
  BY TypeParts DEF Worker, StorageTypes
<1>2. UNCHANGED <<run, msgs, wrapper, lastRun>>
  BY DEF Flush, Observe, Reauthorize, ForcedRecheck, storage, bounds
<1>3. Keeps(lease, lease')
  BY <1>1, LeaseIsKept DEF Flush, Observe, Reauthorize, ForcedRecheck, storage
<1>4. Calm
  BY <1>2, <1>3, SameMsgsCalm, SameWrapperCalm, KeepsCalm DEF Calm, RunCalm
<1>5. /\ work'["alarm"].pc \in { "forced", "forced-join", "send", "observe" }
      /\ msgs[work'["alarm"].msg].status # None /\ ~WasAccepted(work'["alarm"].msg)
  <2>1. ASSUME NEW m \in Message, Flush(m) PROVE <1>5
    <3>1. work'["alarm"].msg = m /\ work'["alarm"].pc \in { "forced", "forced-join", "send" }
      BY <1>1, <2>1 DEF Flush, Work
    <3>2. msgs[m].status = "queued"
      BY <2>1 DEF Flush, Queued
    <3> QED
      BY <3>1, <3>2 DEF WasAccepted, None
  <2>2. CASE Observe \/ Reauthorize \/ (ForcedRecheck /\ ~Return("alarm"))
    <3>1. work["alarm"].pc \in Pending
      BY <2>2 DEF Observe, Reauthorize, ForcedRecheck, May, Pending, Sends
    <3>2. msgs[work["alarm"].msg].status # None /\ ~WasAccepted(work["alarm"].msg)
      BY <3>1 DEF WatchInv, Delivery, Task
    <3>3. /\ work'["alarm"].pc \in { "send", "observe" }
          /\ work'["alarm"].msg = work["alarm"].msg
      <4>1. CASE Observe
        BY <1>1, <4>1 DEF Observe, Work
      <4>2. CASE Go("alarm", "send")
        BY <1>1, <4>2, GoType DEF Moves, Pc, Sends
      <4> QED
        BY <2>2, <4>1, <4>2 DEF Reauthorize, ForcedRecheck
    <3> QED
      BY <3>2, <3>3
  <2> QED
    BY <2>1, <2>2
<1>6. ASSUME work'["alarm"].pc = "observe", work'["alarm"].fresh PROVE Unused'
  <2>1. ~Go("alarm", "send")
    BY <1>1, <1>6, GoType DEF Moves, Pc, Sends
  <2>5. ASSUME NEW m \in Message, Flush(m) PROVE FALSE
    <3>1. work'["alarm"].pc \in { "forced", "forced-join", "send" }
      BY <1>1, <2>5 DEF Flush, Work
    <3> QED
      BY <1>6, <3>1
  <2>2. Observe
    BY <2>1, <2>5 DEF Reauthorize, ForcedRecheck
  <2>3. work'["alarm"].fresh = KeptWarm(lease)
    <3> DEFINE old == work["alarm"]
               warm == KeptWarm(lease)
               new == [old EXCEPT !.pc = "observe", !.kind = lease.state, !.inst = lease.inst,
                                  !.run = lease.gen, !.fresh = warm]
    <3>1. old \in Work /\ work'["alarm"] = new
      BY <1>1, <2>2 DEF Observe
    <3> HIDE DEF old, warm
    <3>2. new.fresh = warm
      BY <3>1 DEF Work
    <3> HIDE DEF new
    <3> QED
      BY <3>1, <3>2 DEF warm
  <2>4. Unused
    BY <1>6, <2>3 DEF WatchInv, World, WarmIsUnused
  <2> QED
    BY <1>2, <1>4, <2>4, CalmUnused DEF Calm
<1>7. Delivery'
  BY <1>2, <1>5, <1>6 DEF Delivery, Task, Prepared, Carries, Executes, WasAccepted
<1> QED
  BY <1>4, <1>5, <1>7, CalmAlarm

LEMMA ReuseWatch ==
  ASSUME Shape, ~Awaited, WatchInv, Turn("alarm"), Reuse
  PROVE  WatchInv'
<1> USE DEF Shape
<1>1. /\ "alarm" \in Worker /\ work \in [Worker -> Work] /\ LeaseOK
      /\ lastRun \in 0..MaxRuns
  BY TypeParts DEF Worker, StorageTypes
<1>2. /\ UNCHANGED <<run, msgs, wrapper, lastRun>>
      /\ work["alarm"].pc = "observe" /\ lease.state = "owns_wrapper"
      /\ lease.inst = work["alarm"].inst /\ Observed = { lease.inst }
  BY DEF Reuse, May, SameAuthorization, bounds
<1>3. lease'.state = "owns_wrapper" /\ lease'.inst = lease.inst
  BY <1>1, <1>2, WarmLease DEF Reuse
<1>4. /\ work'["alarm"].pc = "identity" /\ work'["alarm"].msg = work["alarm"].msg
      /\ work'["alarm"].inst = work["alarm"].inst
      /\ work'["alarm"].fresh = work["alarm"].fresh
  BY <1>1, GoType DEF Reuse, Moves, Pc, Sends
<1>5. work["alarm"].fresh => Unused
  BY <1>2 DEF WatchInv, Delivery, Task
<1>6. Unused' = Unused /\ Observed' = Observed
  BY <1>2 DEF Unused, NoneAccepted, WasAccepted, Observed
<1>7. WarmIsUnused'
  <2>1. CASE work["alarm"].fresh
    BY <1>5, <1>6, <2>1 DEF WarmIsUnused
  <2>2. CASE ~work["alarm"].fresh
    <3>1. lease' = lease
      BY <2>2 DEF Reuse
    <3> QED
      BY <1>2, <3>1, SameWarm DEF WatchInv
  <2> QED
    BY <2>1, <2>2
<1>8. World'
  BY <1>2, <1>3, <1>6, <1>7
     DEF WatchInv, World, CurrentIsWatched, HeldIsCurrent, WasAccepted, Current
<1>9. \A j \in Instance : run.id # 0 /\ wrapper[j].run = run.id => j = work["alarm"].inst
  BY <1>2 DEF WatchInv, World
<1>10. msgs[work["alarm"].msg].status # None /\ ~WasAccepted(work["alarm"].msg)
  BY <1>2 DEF WatchInv, Delivery, Task, Pending, Sends
<1>11. Delivery'
  BY <1>2, <1>3, <1>4, <1>5, <1>6, <1>9, <1>10
     DEF Delivery, Task, Bound, WasAccepted, Prepared, Carries, Executes
<1> QED
  BY <1>1, <1>2, <1>4, <1>8, <1>11, AlarmWatchParts, WrapperAssumption

LEMMA AllocateWatch ==
  ASSUME Shape, ~Awaited, WatchInv, Turn("alarm"), AllocateInstance
  PROVE  WatchInv'
<1> USE DEF Shape
<1>1. /\ "alarm" \in Worker /\ work \in [Worker -> Work] /\ LeaseOK /\ WorkHolds("alarm")
      /\ lastRun \in 0..MaxRuns
  BY TypeParts DEF Worker, StorageTypes
<1>2. /\ UNCHANGED <<run, msgs, wrapper, lastRun>>
      /\ work["alarm"].pc = "observe" /\ Observed = {} /\ ~Cleaning(lease)
  BY <1>1 DEF AllocateInstance, May, SameAuthorization, ObservedAbsent, WorkHolds, Cleaning,
     None, bounds
<1>3. lease'.state = "owns_wrapper" /\ lease'.inst = lease.gen /\ lease'.deadline = "startup"
  BY <1>1, <1>2, AllocatedLease DEF AllocateInstance
<1>4. /\ work'["alarm"].pc = "identity" /\ work'["alarm"].msg = work["alarm"].msg
      /\ work'["alarm"].inst = lease.gen /\ work'["alarm"].fresh
  <2> DEFINE old == work["alarm"]
             new == [old EXCEPT !.pc = "identity", !.inst = lease.gen, !.fresh = TRUE]
  <2>1. old \in Work /\ work'["alarm"] = new
    BY <1>1 DEF AllocateInstance
  <2> HIDE DEF old
  <2>2. new.pc = "identity" /\ new.msg = old.msg /\ new.inst = lease.gen
    BY <2>1 DEF Work
  <2>3. new.fresh = TRUE
    BY <2>1 DEF Work
  <2> HIDE DEF new
  <2> QED
    BY <2>1, <2>2, <2>3 DEF old
<1>5. Observed' = {}
  BY <1>2 DEF Observed
<1>6. World'
  BY <1>2, <1>3, <1>5
     DEF WatchInv, World, WarmIsUnused, KeptWarm, CurrentIsWatched, HeldIsCurrent, WasAccepted,
         Current
<1>7. msgs[work["alarm"].msg].status # None /\ ~WasAccepted(work["alarm"].msg)
  BY <1>2 DEF WatchInv, Delivery, Task, Pending, Sends
<1>8. Delivery'
  BY <1>2, <1>3, <1>4, <1>5, <1>7
     DEF Delivery, Task, WasAccepted, Prepared, Carries, Executes
<1> QED
  BY <1>1, <1>2, <1>4, <1>6, <1>8, AlarmWatchParts, WrapperAssumption

LEMMA IdentifyEffect ==
  ASSUME TypeInv, RoomForRun, Identify
  PROVE  /\ lastRun' >= lastRun /\ lastRun' \in 0..MaxRuns
         /\ work'["alarm"].pc = "execute" /\ work'["alarm"].run = run'.id
         /\ work'["alarm"].msg = work["alarm"].msg /\ work'["alarm"].inst = work["alarm"].inst
         /\ IF work["alarm"].fresh \/ run.id = 0
              THEN work'["alarm"].fresh /\ run'.id = lastRun + 1 /\ lastRun' = lastRun + 1
              ELSE ~work'["alarm"].fresh /\ run' = run /\ lastRun' = lastRun
<1> DEFINE old == work["alarm"]
           fresh == old.fresh \/ run.id = 0
           new == [old EXCEPT !.pc = "execute", !.fresh = fresh, !.run = run'.id]
<1>1. /\ old \in Work /\ work' = [work EXCEPT !["alarm"] = new]
      /\ run' = IF fresh THEN NewRun(lastRun + 1) ELSE run
      /\ lastRun' = IF fresh THEN lastRun + 1 ELSE lastRun
      /\ lastRun \in 0..MaxRuns
      /\ work \in [Worker -> Work] /\ "alarm" \in Worker
  BY TypeParts DEF Identify, StorageTypes, Worker
<1>2. fresh => lastRun < MaxRuns
  BY DEF Identify, May, RoomForRun
<1>3. lastRun' >= lastRun /\ lastRun' \in 0..MaxRuns
  BY <1>1, <1>2, WrapperAssumption
<1>4. NewRun(lastRun + 1).id = lastRun + 1
  BY DEF NewRun
<1> HIDE DEF old, fresh
<1>5. new.pc = "execute" /\ new.run = run'.id /\ new.msg = old.msg /\ new.inst = old.inst
  BY <1>1 DEF Work
<1>6. new.fresh = fresh
  BY <1>1 DEF Work
<1> HIDE DEF new
<1>7. work'["alarm"] = new
  BY <1>1
<1> QED
  BY <1>1, <1>3, <1>4, <1>5, <1>6, <1>7 DEF old, fresh

LEMMA IdentifyWatch ==
  ASSUME Shape, ~Awaited, WatchInv, Turn("alarm"), Identify
  PROVE  WatchInv'
<1> USE DEF Shape
<1> DEFINE self == work["alarm"]
           fresh == self.fresh \/ run.id = 0
<1>1. /\ "alarm" \in Worker /\ "wrapper" \in Worker /\ LeaseOK
      /\ lastRun \in Nat /\ run.id \in Nat
      /\ \A m \in Message : msgs[m].run \in Nat
      /\ \A i \in Instance : wrapper[i].run \in Nat
      /\ self.msg \in Message /\ self.pc = "identity"
  <2>1. /\ lastRun \in 0..MaxRuns /\ run.id \in 0..MaxRuns
        /\ \A m \in Message : msgs[m].run \in 0..MaxRuns
        /\ \A i \in Instance : wrapper[i].run \in 0..MaxRuns
    BY TypeParts DEF StorageTypes, Run, Process
  <2>2. "alarm" \in Worker /\ "wrapper" \in Worker /\ LeaseOK /\ self.pc = "identity"
    BY TypeParts DEF Worker, StorageTypes, Identify, May
  <2>3. self.msg \in Message
    BY <2>2, TypeParts DEF WorkHolds, Sends
  <2> QED
    BY <2>1, <2>2, <2>3, WrapperAssumption
<1>2. /\ UNCHANGED <<lease, msgs, wrapper>> /\ work["wrapper"] = work'["wrapper"]
      /\ work["wrapper"].pc = "idle"
  <2>1. gate = "alarm" /\ UNCHANGED <<lease, msgs, wrapper>>
    BY <1>1 DEF RoomForRun, Identify
  <2> QED
    BY <1>1, <2>1 DEF WatchInv, Stops, Turn, OthersStay
<1>3. /\ lastRun' >= lastRun /\ lastRun' \in 0..MaxRuns
      /\ work'["alarm"].pc = "execute" /\ work'["alarm"].run = run'.id
      /\ work'["alarm"].msg = self.msg /\ work'["alarm"].inst = self.inst
      /\ IF fresh
           THEN work'["alarm"].fresh /\ run'.id = lastRun + 1 /\ lastRun' = lastRun + 1
           ELSE ~work'["alarm"].fresh /\ run' = run /\ lastRun' = lastRun
  BY IdentifyEffect
<1>4. /\ lease.state = "owns_wrapper" /\ lease.inst = self.inst
      /\ IF self.fresh THEN Unused \/ Observed = {} ELSE Bound
      /\ msgs[self.msg].status # None /\ ~WasAccepted(self.msg)
  BY <1>1 DEF WatchInv, Delivery, Task, Pending, Sends
<1>5. self.inst \in Instance
  <2>1. lease.inst \in 0..MaxInstances /\ lease.inst # 0
    BY <1>1, <1>4 DEF LeaseOK, Lease, WellFormed
  <2> QED
    BY <1>4, <2>1, WrapperAssumption DEF Instance
<1>6. /\ run.id <= lastRun /\ \A m \in Message : msgs[m].run <= lastRun
      /\ \A i \in Instance : wrapper[i].run <= lastRun
      /\ CurrentIsWatched /\ HeldIsCurrent
  BY DEF WatchInv, World
<1>7. Observed' = Observed /\ \A m \in Message : WasAccepted(m)' = WasAccepted(m)
  BY <1>2 DEF Observed, WasAccepted
<1>8. CASE ~fresh
  <2>3. WarmIsUnused'
    BY <1>2, <1>3, <1>8, SameWarm DEF WatchInv
  <2>1. World'
    BY <1>2, <1>3, <1>7, <1>8, <2>3
       DEF WatchInv, World, CurrentIsWatched, HeldIsCurrent, Current
  <2>2. Delivery'
    <3>1. run.id \in 1..lastRun /\ Bound
      BY <1>1, <1>4, <1>6, <1>8
    <3>2. /\ Task'.pc = "execute" /\ Task'.run = run.id /\ ~Task'.fresh /\ run' = run
          /\ lastRun' = lastRun /\ Task'.msg = self.msg /\ Task'.inst = self.inst
      BY <1>3, <1>8 DEF Task
    <3>3. Bound' /\ Current(Task.run)' /\ ~Lost(Task.run)'
      BY <1>1, <1>2, <1>8, <3>1, <3>2 DEF Bound, Task, Current, Lost
    <3> QED
      BY <1>1, <1>2, <1>4, <1>5, <1>7, <3>1, <3>2, <3>3 DEF Delivery, Prepared
  <2> QED
    BY <1>3, <1>8, <2>1, <2>2, AlarmWatchParts
<1>9. CASE fresh
  <2>1. /\ run'.id = lastRun + 1 /\ lastRun' = lastRun + 1 /\ run'.id # 0
        /\ \A m \in Message : msgs'[m].run # run'.id /\ msgs'[m].run <= lastRun'
        /\ \A i \in Instance : wrapper'[i].run # run'.id /\ wrapper'[i].run <= lastRun'
        /\ run'.id <= lastRun' /\ run'.id \in 1..lastRun'
    BY <1>1, <1>2, <1>3, <1>6, <1>9
  <2>2. HeldIsCurrent'
    <3> SUFFICES ASSUME NEW m \in Message, NEW i \in Observed', WasAccepted(m)',
                        m \in wrapper'[i].held, wrapper'[i].run = msgs'[m].run
                 PROVE  FALSE
      BY DEF HeldIsCurrent
    <3>1. i \in Observed /\ Current(msgs[m].run) /\ wrapper[i].run = msgs[m].run
      BY <1>2, <1>6, <1>7 DEF HeldIsCurrent
    <3>2. WasAccepted(m) /\ msgs[m].run = run.id /\ run.id # 0
      BY <1>2, <1>7, <3>1 DEF Current
    <3>3. ~Unused
      BY <3>2 DEF Unused, NoneAccepted
    <3> QED
      BY <1>4, <1>9, <3>1, <3>2, <3>3
  <2>5. WarmIsUnused'
    BY <2>1 DEF WarmIsUnused, Unused, NoneAccepted
  <2>3. World'
    BY <1>2, <1>4, <2>1, <2>2, <2>5 DEF World, CurrentIsWatched, Current
  <2>4. Delivery'
    <3>1. /\ Task'.pc = "execute" /\ Task'.run = run'.id /\ Task'.fresh
          /\ Task'.msg = self.msg /\ Task'.inst = self.inst
      BY <1>3, <1>9 DEF Task
    <3>2. Bound' /\ Current(Task.run)' /\ ~Lost(Task.run)' /\ NoneAccepted(Task.run)'
      BY <1>1, <1>2, <2>1, <3>1 DEF Bound, Task, Current, Lost, NoneAccepted
    <3> QED
      BY <1>1, <1>2, <1>4, <1>5, <1>7, <2>1, <3>1, <3>2 DEF Delivery, Prepared
  <2> QED
    BY <1>3, <2>1, <2>3, <2>4, AlarmWatchParts
<1> QED
  BY <1>8, <1>9

(* What a step that carries the delivery on leaves of it. *)
CarriesOn(pc) ==
  /\ UNCHANGED <<msgs, lastRun>> /\ run'.id = run.id /\ run'.live = run.live
  /\ work["alarm"].pc \in Carries /\ work'["wrapper"] = work["wrapper"]
  /\ work'["alarm"].pc = pc /\ work'["alarm"].msg = work["alarm"].msg
  /\ work'["alarm"].run = work["alarm"].run /\ work'["alarm"].inst = work["alarm"].inst
  /\ work'["alarm"].fresh = work["alarm"].fresh

LEMMA CarriedDelivery ==
  ASSUME Shape, WatchInv, NEW pc \in { "launched", "prompt", "accepted" }, CarriesOn(pc),
         Task.pc \in Executes,
         lease'.state = "owns_wrapper" => lease.state = "owns_wrapper" /\ lease'.inst = lease.inst,
         pc \in Prepared /\ KeptWarm(lease') => run.id = 0,
         Bound', msgs[Task.msg].status = "queued" /\ Lost(Task.run) => Unheld'
  PROVE  Delivery'
<1>1. /\ Task'.pc = pc /\ Task'.msg = Task.msg /\ Task'.run = Task.run
      /\ Task'.inst = Task.inst /\ Task'.fresh = Task.fresh
  BY DEF CarriesOn, Task
<1>6. (KeptWarm(lease))' = KeptWarm(lease')
  BY DEF KeptWarm
<1>2. /\ pc \in Carries /\ pc \in Pending /\ pc \notin { "identity", "accept", "observe" }
      /\ Task.pc \in Carries /\ Task.pc \in Pending
  BY DEF Carries, Pending, Executes
<1>3. Lost(Task.run)' = Lost(Task.run) /\ Current(Task.run)' = Current(Task.run)
  BY <1>1 DEF Lost, Current, CarriesOn
<1>4. WasAccepted(Task.msg)' = WasAccepted(Task.msg)
  BY <1>1 DEF WasAccepted, CarriesOn
<1>5. NoneAccepted(Task.run)' = NoneAccepted(Task.run)
  BY <1>1 DEF NoneAccepted, WasAccepted, CarriesOn
<1> QED
  BY <1>1, <1>2, <1>3, <1>4, <1>5, <1>6 DEF WatchInv, Delivery, CarriesOn

LEMMA CarriedWatch ==
  ASSUME Shape, ~Awaited, WatchInv, Turn("alarm"),
         NEW pc \in { "launched", "prompt", "accepted" }, CarriesOn(pc), World', Delivery'
  PROVE  WatchInv'
<1>1. lastRun \in 0..MaxRuns /\ lastRun' = lastRun /\ run'.id = run.id
  BY TypeParts DEF Shape, StorageTypes, CarriesOn
<1>2. lastRun' >= lastRun
  BY <1>1, WrapperAssumption
<1>3. work'["alarm"].pc \notin { "settle", "clear", "stop-missing", "retain" }
  BY DEF CarriesOn
<1> QED
  BY <1>1, <1>2, <1>3, AlarmWatchParts

LEMMA LaunchWatch ==
  ASSUME Shape, ~Awaited, WatchInv, Turn("alarm"), Launch
  PROVE  WatchInv'
<1> USE DEF Shape
<1>1. /\ work["alarm"].pc = "execute" /\ UNCHANGED <<lease, run, msgs, lastRun>>
      /\ Moves("alarm", "launched") /\ Observed = {}
      /\ "alarm" \in Worker /\ "wrapper" \in Worker
      /\ wrapper \in [Instance -> Process]
  BY TypeParts, AwaitType, LaunchEffect
     DEF Launch, May, storage, bounds, Pc, Delivers, Executes, Worker, StorageTypes
<1>2. CarriesOn("launched") /\ Task.pc \in Executes /\ Task.pc \in Carries
  BY <1>1 DEF CarriesOn, Moves, OthersStay, Worker, Carries, Executes, Task
<1>3. /\ \A j \in Instance :
           /\ wrapper'[j].run = wrapper[j].run /\ wrapper'[j].linked = wrapper[j].linked
           /\ wrapper[j].linked # "yes"
      /\ \A j \in Observed' : j = Task.inst /\ wrapper'[j].held = {}
  BY <1>1, LaunchEffect DEF Observed, Task, LinkedIsUp
<1>4. /\ Bound /\ Task.inst \in Instance
      /\ lease.state = "owns_wrapper" => lease.inst = Task.inst
  BY <1>2 DEF WatchInv, Delivery
<1>5. Bound'
  BY <1>1, <1>2, <1>3, <1>4 DEF Bound, CarriesOn, Task
<1>6. Unheld'
  BY <1>2, <1>3, <1>4 DEF Unheld, CarriesOn, Task, Executes
<1>7. Delivery'
  BY <1>1, <1>2, <1>5, <1>6, CarriedDelivery DEF Prepared
<1>8. World'
  <2>1. \A j \in Instance : run.id # 0 /\ wrapper[j].run = run.id => j = Task.inst
    BY <1>4 DEF Bound
  <2>2. WarmIsUnused'
    BY <1>1, SameWarm DEF WatchInv
  <2> QED
    BY <1>1, <1>3, <1>4, <2>1, <2>2
       DEF WatchInv, World, CurrentIsWatched, HeldIsCurrent, Current, WasAccepted
<1> QED
  BY <1>2, <1>7, <1>8, CarriedWatch

LEMMA ReadyWatch ==
  ASSUME Shape, ~Awaited, WatchInv, Turn("alarm"), WorkspaceReady
  PROVE  WatchInv'
<1> USE DEF Shape
<1> DEFINE i == work["alarm"].inst
           r == work["alarm"].run
<1>1. /\ work["alarm"].pc \in { "execute", "launched" } /\ UNCHANGED <<msgs, lastRun>>
      /\ Moves("alarm", "prompt") /\ Binds(i, r)
      /\ "alarm" \in Worker /\ "wrapper" \in Worker /\ LeaseOK /\ run \in Run
  BY TypeParts, AwaitType
     DEF WorkspaceReady, Executing, May, bounds, Pc, Delivers, Executes, Worker, StorageTypes
<1>2. run'.id = run.id /\ run'.live = run.live
  BY <1>1 DEF WorkspaceReady, UpdateIfCurrent, Run
<1>3. CarriesOn("prompt") /\ Task.pc \in Executes /\ Task.pc \in Carries
  BY <1>1, <1>2 DEF CarriesOn, Moves, OthersStay, Worker, Carries, Executes, Task
<1>4. /\ lease'.state = lease.state /\ lease'.inst = lease.inst
      /\ KeptWarm(lease') => lease' = lease /\ ~Owns(lease, i)
  BY <1>1 DEF WorkspaceReady, WithDeadline, KeptWarm, Owns, LeaseOK, Lease
<1>5. /\ \A j \in Instance :
           /\ wrapper'[j].phase = wrapper[j].phase /\ wrapper'[j].linked = wrapper[j].linked
           /\ wrapper'[j].held = wrapper[j].held
           /\ IF j = i THEN wrapper'[j].run = r ELSE wrapper'[j] = wrapper[j]
      /\ Observed' = Observed
  BY ReadyEffect DEF Observed
<1>6. /\ Bound /\ Task.inst \in Instance /\ r \in 1..lastRun /\ run.id \in { 0, r }
      /\ lease.state = "owns_wrapper" => lease.inst = Task.inst
      /\ ~Current(r) => NoneAccepted(r)
  BY <1>3 DEF WatchInv, Delivery, Task
<1>7. Bound'
  BY <1>2, <1>3, <1>5, <1>6 DEF Bound, CarriesOn, Task
<1>8. ASSUME msgs[Task.msg].status = "queued", Lost(Task.run) PROVE Unheld'
  <2>1. wrapper[i].linked # "yes" \/ (wrapper[i].sealed /\ wrapper[i].run = r)
    BY <1>3, <1>8 DEF WatchInv, Delivery, Unheld, Task
  <2>2. wrapper[i].linked # "yes"
    BY <1>1, <2>1 DEF Binds
  <2> QED
    BY <1>3, <1>5, <1>6, <2>2 DEF Unheld, CarriesOn, Task, Executes
<1>11. ~KeptWarm(lease')
  BY <1>1, <1>4, <1>6 DEF KeptWarm, Owns, LeaseOK, WellFormed, Task, None
<1>9. Delivery'
  BY <1>3, <1>4, <1>7, <1>8, <1>11, CarriedDelivery
<1>10. World'
  <2>1. \A j \in Instance : run.id # 0 /\ wrapper'[j].run = run.id => j = Task.inst
    BY <1>5, <1>6 DEF Bound, Task
  <2>2. r <= lastRun
    BY <1>6
  <2>3. HeldIsCurrent'
    <3> SUFFICES ASSUME NEW m \in Message, NEW j \in Observed', WasAccepted(m)',
                        m \in wrapper'[j].held, wrapper'[j].run = msgs'[m].run
                 PROVE  Current(msgs[m].run)'
      BY DEF HeldIsCurrent
    <3>1. WasAccepted(m) /\ j \in Observed /\ m \in wrapper[j].held /\ msgs'[m].run = msgs[m].run
      BY <1>1, <1>5 DEF WasAccepted, Observed
    <3>2. Current(msgs[m].run)
      <4>1. CASE j = i
        BY <1>5, <1>6, <3>1, <4>1 DEF NoneAccepted, Observed
      <4>2. CASE j # i
        BY <1>5, <3>1, <4>2 DEF WatchInv, World, HeldIsCurrent, Observed
      <4> QED
        BY <4>1, <4>2
    <3> QED
      BY <1>2, <3>1, <3>2 DEF Current
  <2>4. \A j \in Instance : wrapper'[j].run <= lastRun'
    BY <1>1, <1>5, <2>2 DEF WatchInv, World
  <2>5. CurrentIsWatched'
    BY <1>1, <1>2 DEF WatchInv, World, CurrentIsWatched, Current, WasAccepted
  <2>6. WarmIsUnused'
    BY <1>11 DEF WarmIsUnused, KeptWarm
  <2> QED
    BY <1>1, <1>2, <1>4, <1>5, <1>6, <2>1, <2>3, <2>4, <2>5, <2>6 DEF WatchInv, World
<1> QED
  BY <1>3, <1>9, <1>10, CarriedWatch

LEMMA PromptWatch ==
  ASSUME Shape, ~Awaited, WatchInv, Turn("alarm"), Prompt
  PROVE  WatchInv'
<1> USE DEF Shape
<1>1. /\ work["alarm"].pc = "prompt" /\ UNCHANGED <<lease, run, msgs, lastRun>>
      /\ Moves("alarm", "accepted") /\ gate \in { "open", "alarm" }
      /\ "alarm" \in Worker /\ "wrapper" \in Worker
  BY TypeParts, AwaitType DEF Prompt, May, bounds, Pc, Delivers, Worker
<1>2. CarriesOn("accepted") /\ Task.pc \in Executes /\ Task.pc \in Carries
  BY <1>1 DEF CarriesOn, Moves, OthersStay, Worker, Carries, Executes, Task
<1>3. /\ \A j \in Instance :
           /\ wrapper'[j].phase = wrapper[j].phase /\ wrapper'[j].run = wrapper[j].run
           /\ IF j = Task.inst
                THEN /\ wrapper'[j].held = wrapper[j].held \cup { Task.msg }
                     /\ ~wrapper[j].sealed /\ (wrapper[j].linked = "yes" \/ Current(Task.run))
                ELSE wrapper'[j] = wrapper[j]
      /\ Observed' = Observed
  BY PromptEffect DEF Observed, Task
<1>4. /\ Bound /\ Task.inst \in Instance /\ ~WasAccepted(Task.msg)
  BY <1>2 DEF WatchInv, Delivery, Pending
<1>5. Bound'
  BY <1>1, <1>2, <1>3, <1>4 DEF Bound, CarriesOn, Task
<1>6. ASSUME msgs[Task.msg].status = "queued", Lost(Task.run) PROVE FALSE
  <2>1. Unheld
    BY <1>2, <1>6 DEF WatchInv, Delivery
  <2>2. Current(Task.run)
    BY <1>2, <1>3, <1>4, <2>1 DEF Unheld
  <2>3. gate = "wrapper"
    BY <1>1, <1>6, <2>2 DEF Lost, WatchInv, Stops
  <2> QED
    BY <1>1, <2>3
<1>9. KeptWarm(lease) => run.id = 0
  BY <1>1 DEF WatchInv, Delivery, Prepared, Task
<1>7. Delivery'
  BY <1>1, <1>2, <1>5, <1>6, <1>9, CarriedDelivery
<1>8. World'
  <2>1. HeldIsCurrent'
    BY <1>1, <1>3, <1>4 DEF WatchInv, World, HeldIsCurrent, Current, WasAccepted, Observed
  <2>2. WarmIsUnused'
    BY <1>1, SameWarm DEF WatchInv
  <2> QED
    BY <1>1, <1>3, <2>1, <2>2 DEF WatchInv, World, CurrentIsWatched, Current, WasAccepted
<1> QED
  BY <1>2, <1>7, <1>8, CarriedWatch

LEMMA WatchAcceptedWatch ==
  ASSUME Shape, ~Awaited, WatchInv, Turn("alarm"), WatchAccepted
  PROVE  WatchInv'
<1> USE DEF Shape
<1>1. /\ work["alarm"].pc = "accepted" /\ UNCHANGED <<lease, msgs, wrapper, lastRun>>
      /\ Moves("alarm", "accept") /\ LeaseOK /\ run \in Run
      /\ "alarm" \in Worker /\ "wrapper" \in Worker
  BY TypeParts, GoType DEF WatchAccepted, May, bounds, Pc, Delivers, Worker, StorageTypes
<1>2. /\ run'.id = run.id /\ RunCalm
      /\ Current(Task.run) => run'.live # "off"
  <2>1. run' = IF Current(Task.run) THEN [Heard EXCEPT !.idle = FALSE] ELSE run
    BY DEF WatchAccepted, UpdateIfCurrent, Task
  <2>2. /\ Heard \in Run /\ Heard.id = run.id /\ Heard.live # "off"
    BY <1>1, RunTypes DEF Heard, Run
  <2>3. /\ [Heard EXCEPT !.idle = FALSE].id = run.id
        /\ [Heard EXCEPT !.idle = FALSE].live # "off"
    BY <2>2 DEF Run
  <2> QED
    BY <2>1, <2>3 DEF RunCalm
<1>3. Calm
  BY <1>1, <1>2, SameMsgsCalm, SameWrapperCalm, LeaseIsKept, KeepsCalm DEF Calm
<1>4. /\ Task'.pc = "accept" /\ Task'.msg = Task.msg /\ Task'.run = Task.run
      /\ Task'.inst = Task.inst /\ Task.pc = "accepted"
      /\ work'["wrapper"] = work["wrapper"]
  BY <1>1 DEF Moves, OthersStay, Worker, Task
<1>5. /\ Task.pc \in Carries /\ Task.pc \in Pending /\ "accept" \notin Executes \cup { "accepted" }
      /\ Task.pc \notin Executes /\ Task.pc \in Prepared
  BY <1>4 DEF Carries, Pending, Executes, Prepared
<1>6. Bound' /\ WasAccepted(Task.msg)' = WasAccepted(Task.msg)
      /\ Lost(Task.run)' = Lost(Task.run) /\ Current(Task.run)' = Current(Task.run)
  <2>1. Bound
    BY <1>5 DEF WatchInv, Delivery
  <2> QED
    BY <1>1, <1>2, <1>4, <2>1 DEF Bound, WasAccepted, Lost, Current
<1>7. Unheld => Unheld'
  BY <1>1, <1>4, <1>5 DEF Unheld, Observed
<1>9. (KeptWarm(lease))' = KeptWarm(lease)
  BY <1>1 DEF KeptWarm
<1>8. Delivery'
  BY <1>1, <1>2, <1>4, <1>5, <1>6, <1>7, <1>9 DEF WatchInv, Delivery
<1> QED
  BY <1>3, <1>4, <1>8, CalmAlarm DEF Task

LEMMA AcceptWatch ==
  ASSUME Shape, ~Awaited, WatchInv, Turn("alarm"), Accept
  PROVE  WatchInv'
<1> USE DEF Shape
<1>1. /\ Task.pc = "accept" /\ UNCHANGED <<lease, run, wrapper, lastRun>>
      /\ Moves("alarm", "delivered") /\ "alarm" \in Worker
      /\ msgs \in [Message -> MessageState] /\ lastRun \in 0..MaxRuns
  BY TypeParts, GoType
     DEF Accept, May, bounds, Pc, Delivers, Worker, StorageTypes, MessageState, Status, Task
<1>2. /\ Task.run \in 1..lastRun /\ Task.pc \notin Executes
      /\ Current(Task.run) => run.live # "off"
      /\ msgs[Task.msg].status = "queued" /\ Lost(Task.run) => Unheld
      /\ KeptWarm(lease) => run.id = 0
  BY <1>1 DEF WatchInv, Delivery, Prepared, Carries, Executes
<1>3. PICK m \in Message : m = Task.msg
  BY <1>1, TaskIsTyped DEF Carries, Pending
<1>4. CASE UNCHANGED msgs
  <2>1. Calm
    BY <1>1, <1>4, TypeParts, SameMsgsCalm, SameWrapperCalm, LeaseIsKept, KeepsCalm
       DEF Calm, RunCalm, StorageTypes
  <2> QED
    BY <1>1, <2>1, LeftDelivery, CalmAlarm DEF Moves
<1>5. CASE msgs[m].status = "queued"
  <2>1. /\ msgs'[m].run = Task.run
        /\ \A n \in Message \ { m } : msgs'[n] = msgs[n]
    BY <1>1, <1>3, <1>5 DEF Accept, Task
  <2>2. \A n \in Message : msgs'[n].run <= lastRun'
    BY <1>1, <1>2, <2>1 DEF WatchInv, World
  <2>3. CurrentIsWatched'
    BY <1>1, <1>2, <2>1 DEF WatchInv, World, CurrentIsWatched, Current, WasAccepted
  <2>4. HeldIsCurrent'
    <3> SUFFICES ASSUME NEW n \in Message, NEW i \in Observed', WasAccepted(n)',
                        n \in wrapper'[i].held, wrapper'[i].run = msgs'[n].run
                 PROVE  Current(msgs[n].run)'
      BY DEF HeldIsCurrent
    <3>1. i \in Observed /\ n \in wrapper[i].held /\ wrapper[i].run = msgs'[n].run
      BY <1>1 DEF Observed
    <3>2. CASE n = m
      <4>1. ~Lost(Task.run)
        BY <1>2, <1>3, <1>5, <2>1, <3>1, <3>2 DEF Unheld
      <4> QED
        BY <1>1, <2>1, <3>2, <4>1 DEF Lost, Current
    <3>3. CASE n # m
      BY <1>1, <2>1, <3>1, <3>3 DEF WatchInv, World, HeldIsCurrent, WasAccepted, Current
    <3> QED
      BY <3>2, <3>3
  <2>7. WarmIsUnused'
    BY <1>1, <1>2 DEF WarmIsUnused, Unused, KeptWarm
  <2>5. World'
    BY <1>1, <1>2, <2>2, <2>3, <2>4, <2>7 DEF WatchInv, World, Observed
  <2>6. Delivery' /\ lastRun' >= lastRun
    BY <1>1, LeftDelivery, WrapperAssumption DEF Moves
  <2> QED
    BY <1>1, <2>5, <2>6, AlarmWatchParts DEF Moves
<1> QED
  BY <1>3, <1>4, <1>5 DEF Accept, Task

LEMMA AlarmWatch ==
  ASSUME Shape, ~Awaited, WatchInv, Alarm
  PROVE  WatchInv'
<1>1. Turn("alarm")
  BY AlarmTurn DEF Shape
<1> QED
  BY <1>1, LeavesWatch, SendsWatch, ReuseWatch, AllocateWatch, IdentifyWatch, LaunchWatch,
     ReadyWatch, PromptWatch, WatchAcceptedWatch, AcceptWatch DEF Alarm, Deliver

LEMMA WatchStarts == Init => WatchInv
<1> SUFFICES ASSUME Init PROVE WatchInv
  OBVIOUS
<1>1. \A w \in Worker : work[w].pc = "idle"
  BY IdleType DEF Init
<1>2. /\ run.id = 0 /\ lastRun = 0 /\ lease.deadline = None
      /\ \A m \in Message : msgs[m].run = 0 /\ msgs[m].status = None
      /\ \A i \in Instance : wrapper[i].run = 0
  BY DEF Init, NoRun, NewRun, NewProcess, EmptyLease
<1>3. World
  BY <1>2 DEF World, WarmIsUnused, Unused, CurrentIsWatched, HeldIsCurrent, WasAccepted, None
<1>4. Delivery
  <2>1. Task.pc = "idle"
    BY <1>1 DEF Task, Worker
  <2> QED
    BY <2>1 DEF Delivery, Pending, Prepared, Sends, Carries, Executes
<1>5. \A w \in Worker : Stops(w)
  BY <1>1 DEF Stops, Plain
<1> QED
  BY <1>3, <1>4, <1>5 DEF WatchInv

LEMMA WatchStep ==
  ASSUME Shape, ~Awaited, WatchInv, [Next]_vars
  PROVE  WatchInv'
<1>1. CASE UNCHANGED vars
  BY <1>1 DEF vars, storage, bounds, WatchInv, World, Delivery, Stops, CurrentIsWatched,
     HeldIsCurrent, WarmIsUnused, Unused, KeptWarm, Bound, NoneAccepted, Lost, Unheld, Task,
     WasAccepted, Current, Observed, Accepted, Queued
<1> QED
  BY <1>1, MaintainWatch, SettleWatch, SettleEndsWatch, ClearWatch, UserWatch, TerminalWatch,
     AlarmWatch, SandboxWatch, CrashWatch DEF Next, Settling

(* A message that a live wrapper works on is watched until it is settled,   *)
(* whatever is interrupted, breaks, answers late or crashes: the run whose  *)
(* wrapper has accepted work keeps its identity, and its deadlines, until   *)
(* a handler settles that work (wrapper-runtime-state.ts:636,               *)
(* wrapper-supervisor.ts:1114).  The hypothesis is that what follows a      *)
(* settled message is not awaited; where it is, an interrupt takes the      *)
(* identity from a run that was allocated while it waited.                  *)
THEOREM WhatIsHeldIsWatched ==
  ASSUME ~Awaited
  PROVE  Spec => []HeldIsWatched
<1>1. WatchInv => HeldIsWatched
  BY DEF WatchInv, World, CurrentIsWatched, HeldIsCurrent, HeldIsWatched, Supervised
<1>2. Shape /\ WatchInv /\ [Next]_vars => WatchInv'
  BY WatchStep
<1> QED
  BY <1>1, <1>2, ShapeStarts, ShapeStep, WatchStarts, PTL DEF Spec

=============================================================================
