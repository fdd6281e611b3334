----------------------------- MODULE PendingFlush -----------------------------
(***************************************************************************)
(* One pending row through the delivery attempts that fail: the row waits  *)
(* out its delay, is flushed again, fails again with whatever code the     *)
(* attempt reports, and leaves the cycle when it is marked                 *)
(* terminalization-pending.  The order of the codes is unconstrained: that *)
(* is the hazard, since a mode the policy calls reset-eligible starts the  *)
(* attempt counter anew.                                                   *)
(***************************************************************************)
EXTENDS PendingFlushPolicy

VARIABLES
  delivery,        \* the delivery record of the row
  failures         \* history: failed attempts since the row was admitted

vars == <<delivery, failures>>

Init ==
  /\ delivery = NewDelivery
  /\ failures = 0

(* Mutant: the comparison with nextFlushAttemptAt is the wrong way round. *)
MayAttemptInverted == delivery.waiting /\ delivery.disposition = None

(* shouldSkipPendingFlush and the terminalization-pending early return. *)
MayAttempt == ~ delivery.waiting /\ delivery.disposition = None

(* A flush attempts the delivery, and it fails. *)
FlushFails(code, override) ==
  /\ MayAttempt
  /\ delivery' = RecordFlushFailure(delivery, code, override)
  /\ failures' = failures + 1

(* nextFlushAttemptAt passes. *)
DelayElapses ==
  /\ delivery.waiting
  /\ delivery' = [delivery EXCEPT !.waiting = FALSE]
  /\ UNCHANGED failures

Next ==
  \/ \E code \in FailureCode, override \in Overrides : FlushFails(code, override)
  \/ DelayElapses

Spec == Init /\ [][Next]_vars

(* Time passes, and the alarm drains a row that is due. *)
Fairness == WF_vars(Next)

FairSpec == Spec /\ Fairness

-----------------------------------------------------------------------------
(* The delivery record keeps its type. *)
TypeOK ==
  /\ delivery \in Delivery
  /\ failures \in Nat

(* However the failure modes alternate, a message sees at most one failure  *)
(* outside the reset-eligible modes before it enters one, and then at most  *)
(* the longest budget and the attempt that exceeds it: resets of the        *)
(* counter (recordPendingFlushFailure) cannot be chained.                   *)
FailuresBounded == failures <= Budget["other"] + MaxBudget + 1

(* A row that will be flushed again has not used up the budget of the mode  *)
(* it last failed in (attempts indexes that mode's list of delays).         *)
WithinBudget ==
  delivery.disposition = None /\ delivery.cause # None =>
    delivery.attempts \in 1 .. RetryBudget(delivery.cause)

(* A failure that leaves the row in the queue always delays the next        *)
(* attempt: the delay list is never indexed out of range, which would make  *)
(* nextFlushAttemptAt undefined and the alarm retry at once.                *)
RetryIsDelayed ==
  [][failures' > failures /\ delivery'.disposition = None => delivery'.waiting]_vars

(* The cause kept for the user never degrades: a code that names no cause   *)
(* is only recorded over nothing or over another such code, and never       *)
(* INTERNAL over UNKNOWN.                                                   *)
CauseNeverDegrades ==
  [][/\ delivery'.cause \in Ambiguous => delivery.cause \in Ambiguous \cup {None}
     /\ delivery'.cause = "INTERNAL" => delivery.cause \in {"INTERNAL", None}]_vars

(* A message whose every delivery fails is given up: the retries end.       *)
EventuallyExhausted == <>(delivery.disposition = "terminalization-pending")
=============================================================================
