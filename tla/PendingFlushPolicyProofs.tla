----------------------- MODULE PendingFlushPolicyProofs -----------------------
(***************************************************************************)
(* Lemmas about the retry policy (pending-messages.ts), used wherever a    *)
(* delivery attempt fails.                                                 *)
(***************************************************************************)
EXTENDS PendingFlushPolicy, TLAPS

(* RetryBudget is one of the budgets, hence at most MaxBudget. *)
LEMMA RetryBudgetType ==
  ASSUME NEW cause
  PROVE  RetryBudget(cause) \in 0 .. MaxBudget
<1> USE BudgetIsBounded DEF BudgetAssumption, RetryBudget, ResetEligible
<1>1. CASE cause \in ResetEligible
  BY <1>1
<1>2. CASE cause \notin ResetEligible
  BY <1>2
<1> QED
  BY <1>1, <1>2

(* recordPendingFlushFailure writes a well-formed record with a cause, and *)
(* one attempt at least.                                                   *)
LEMMA RecordFlushFailureType ==
  ASSUME NEW d \in Delivery, NEW code \in FailureCode, NEW override \in Overrides
  PROVE  LET r == RecordFlushFailure(d, code, override)
         IN r \in Delivery /\ r.cause \in FailureCode /\ r.attempts >= 1
  BY DEF RecordFlushFailure, Delivery, FlushFailureCause, Attempts,
         PreservesExistingFailure, None

(* A failure that does not exhaust the row stays within the budget of the  *)
(* mode it is recorded in.                                                 *)
LEMMA RetryStaysWithinBudget ==
  ASSUME NEW d \in Delivery, NEW code \in FailureCode, NEW override \in Overrides,
         RecordFlushFailure(d, code, override).disposition = None
  PROVE  LET r == RecordFlushFailure(d, code, override)
         IN r.attempts \in 1 .. RetryBudget(r.cause)
<1> DEFINE r == RecordFlushFailure(d, code, override)
<1>1. r \in Delivery /\ r.attempts >= 1
  BY RecordFlushFailureType
<1>2. ~ Exhausted(r.cause, override, r.attempts)
  BY DEF RecordFlushFailure, None
<1>3. RetryBudget(r.cause) \in Nat
  BY RetryBudgetType, BudgetIsBounded DEF BudgetAssumption
<1> QED
  BY <1>1, <1>2, <1>3 DEF Exhausted, Delivery
=============================================================================
