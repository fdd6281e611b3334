-------------------------- MODULE PendingFlushPolicy --------------------------
(***************************************************************************)
(* The retry policy of one queued message: what recordPendingFlushFailure  *)
(* (session/pending-messages.ts) writes back to the pending row when a     *)
(* delivery attempt fails.  No state of its own: SessionMessageQueue and   *)
(* PendingFlush are built from these operators.                            *)
(*                                                                         *)
(* A failure is a flush code together with the workspace failure subtype,  *)
(* and only the distinctions the policy makes are kept:                    *)
(*   SANDBOX_CONNECT_FAILED, WRAPPER_CLEANUP_EXHAUSTED  themselves         *)
(*   sandbox_storage_full, git_rate_limited   WORKSPACE_SETUP_FAILED with  *)
(*                                            that subtype                 *)
(*   WORKSPACE_SETUP_FAILED   with any other subtype, or none              *)
(*   TRANSIENT    the other retryable codes (KILO_SERVER_FAILED,           *)
(*                WRAPPER_START_FAILED, COMPUTE_STOPPING, ...)             *)
(*   PERMANENT    the codes that are not retried (BAD_REQUEST, ...)        *)
(*   INTERNAL, UNKNOWN    codes that do not name a cause                   *)
(***************************************************************************)
EXTENDS Integers

CONSTANTS
  Budget,          \* mode of failure -> number of redeliveries it is granted
  MaxBudget        \* the longest of them

ResetEligible == { "SANDBOX_CONNECT_FAILED", "WRAPPER_CLEANUP_EXHAUSTED",
                   "sandbox_storage_full", "git_rate_limited" }

Ambiguous == { "INTERNAL", "UNKNOWN" }

FailureCode == ResetEligible \cup Ambiguous
                 \cup { "WORKSPACE_SETUP_FAILED", "TRANSIENT", "PERMANENT" }

None == "none"

(* Every mode outside the reset-eligible ones shares one budget, the        *)
(* cold-init or warm-followup delays; both lists hold a single delay.       *)
BudgetAssumption ==
  /\ MaxBudget \in Nat
  /\ Budget \in [ResetEligible \cup {"other"} -> 0 .. MaxBudget]
  /\ Budget["other"] <= 1

ASSUME BudgetIsBounded == BudgetAssumption

RetryBudget(cause) ==
  IF cause \in ResetEligible THEN Budget[cause] ELSE Budget["other"]

IsRetryableFlushCode(cause) == cause \notin { "PERMANENT", "INTERNAL" }

-----------------------------------------------------------------------------
(* The delivery record of a pending row.  attempts: flushAttempts; cause:   *)
(* lastFlushFailureCode with its subtype; waiting: nextFlushAttemptAt lies  *)
(* in the future; disposition: "terminalization-pending" once exhausted.    *)
Delivery == [ attempts : Nat, cause : FailureCode \cup {None},
              waiting : BOOLEAN, disposition : {None, "terminalization-pending"} ]

(* Mutant: the counter of a new row starts below zero. *)
NewDeliveryBelowZero == [ attempts |-> -1, cause |-> None,
                          waiting |-> FALSE, disposition |-> None ]

NewDelivery == [ attempts |-> 0, cause |-> None,
                 waiting |-> FALSE, disposition |-> None ]

(* A code that names no cause never overwrites one that does. *)
PreservesExistingFailure(old, code) ==
  /\ old # None
  /\ code = "INTERNAL" \/ (code = "UNKNOWN" /\ old # "INTERNAL")

(* Mutant: the latest code always wins. *)
FlushFailureCauseLatest(old, code) == code

FlushFailureCause(old, code) ==
  IF PreservesExistingFailure(old, code) THEN old ELSE code

(* Mutant: every failure in a reset-eligible mode starts a fresh budget. *)
AttemptsAlwaysReset(old, cause, attempts) ==
  IF cause \in ResetEligible THEN 1 ELSE attempts + 1

(* Entering a reset-eligible mode from outside starts a fresh budget. *)
Attempts(old, cause, attempts) ==
  IF cause \in ResetEligible /\ old \notin ResetEligible THEN 1 ELSE attempts + 1

(* An ExecutionError carries its own retryable flag; "unset" without one. *)
Overrides == { "unset", "retryable", "permanent" }

Retryable(cause, override) ==
  override = "retryable" \/ (override = "unset" /\ IsRetryableFlushCode(cause))

(* Mutant: the list of delays is indexed with the attempt itself. *)
HasRetryDelayOffByOne(cause, attempts) == attempts \in 0 .. RetryBudget(cause) - 1

(* The attempt is the next index into the mode's list of delays. *)
HasRetryDelay(cause, attempts) == attempts - 1 \in 0 .. RetryBudget(cause) - 1

(* Mutant: one redelivery more than the mode has delays. *)
ExhaustedLate(cause, override, attempts) ==
  ~ Retryable(cause, override) \/ attempts > RetryBudget(cause) + 1

Exhausted(cause, override, attempts) ==
  ~ Retryable(cause, override) \/ attempts > RetryBudget(cause)

RecordFlushFailure(d, code, override) ==
  LET cause == FlushFailureCause(d.cause, code)
      attempts == Attempts(d.cause, cause, d.attempts)
      exhausted == Exhausted(cause, override, attempts)
  IN [ attempts |-> attempts,
       cause |-> cause,
       waiting |-> ~ exhausted /\ HasRetryDelay(cause, attempts),
       disposition |-> IF exhausted THEN "terminalization-pending" ELSE None ]
=============================================================================
