-------------------------- MODULE PendingFlushProofs --------------------------
(***************************************************************************)
(* Proofs about the retry policy of a pending row, for every assignment of *)
(* budgets that grants the ordinary modes at most one redelivery.          *)
(***************************************************************************)
EXTENDS PendingFlush, PendingFlushPolicyProofs

(* The inductive strengthening of FailuresBounded: how the history of the  *)
(* row relates to its attempt counter.  While the row is outside the       *)
(* reset-eligible modes the counter is the history; inside them, at most   *)
(* Budget["other"] failures came before the counter was reset.             *)
History ==
  /\ delivery.cause = None => failures = 0 /\ delivery.attempts = 0
                              /\ delivery.disposition = None
  /\ delivery.disposition = None /\ delivery.cause \notin ResetEligible =>
       failures = delivery.attempts /\ failures <= Budget["other"]
  /\ delivery.disposition = None /\ delivery.cause \in ResetEligible =>
       failures <= Budget["other"] + delivery.attempts

IInv == TypeOK /\ WithinBudget /\ History /\ FailuresBounded

LEMMA InitEstablishesIInv == Init => IInv
<1> USE BudgetIsBounded DEF BudgetAssumption
<1> SUFFICES ASSUME Init PROVE IInv
  OBVIOUS
<1>1. TypeOK
  BY DEF Init, NewDelivery, TypeOK, Delivery
<1>2. Budget["other"] \in 0 .. MaxBudget
  BY DEF ResetEligible
<1>3. WithinBudget /\ History /\ FailuresBounded
  BY <1>2 DEF Init, NewDelivery, WithinBudget, History, FailuresBounded, None, ResetEligible
<1> QED
  BY <1>1, <1>3 DEF IInv

LEMMA FlushFailsPreservesIInv ==
  ASSUME IInv, NEW code \in FailureCode, NEW override \in Overrides,
         FlushFails(code, override)
  PROVE  IInv'
<1> DEFINE cause == FlushFailureCause(delivery.cause, code)
<1>1. delivery \in Delivery /\ failures \in Nat
  BY DEF IInv, TypeOK
<1>2. /\ delivery' = RecordFlushFailure(delivery, code, override)
      /\ failures' = failures + 1
      /\ delivery.disposition = None
  BY DEF FlushFails, MayAttempt
<1>3. TypeOK' /\ delivery'.cause \in FailureCode /\ delivery'.attempts >= 1
  BY <1>1, <1>2, RecordFlushFailureType DEF TypeOK
<1>4. WithinBudget'
  BY <1>1, <1>2, RetryStaysWithinBudget DEF WithinBudget
<1>5. /\ delivery'.cause = cause
      /\ delivery'.attempts = Attempts(delivery.cause, cause, delivery.attempts)
  BY <1>2 DEF RecordFlushFailure
<1>6. /\ Budget["other"] \in 0 .. MaxBudget /\ Budget["other"] <= 1 /\ MaxBudget \in Nat
      /\ \A c : RetryBudget(c) \in 0 .. MaxBudget
  BY BudgetIsBounded, RetryBudgetType DEF BudgetAssumption, ResetEligible
<1>7. delivery'.disposition = None => delivery'.attempts \in 1 .. RetryBudget(cause)
  BY <1>1, <1>2, <1>5, RetryStaysWithinBudget
<1>8. None \notin FailureCode /\ None \notin ResetEligible
  BY DEF None, FailureCode, ResetEligible, Ambiguous
<1>9. History' /\ FailuresBounded'
  <2>1. CASE delivery.cause \notin ResetEligible /\ cause \in ResetEligible
    <3>1. failures <= Budget["other"] /\ delivery'.attempts = 1
      BY <1>2, <1>5, <2>1 DEF IInv, History, Attempts
    <3> QED
      BY <3>1, <1>1, <1>2, <1>3, <1>5, <1>6, <1>8, <2>1 DEF History, FailuresBounded
  <2>2. CASE delivery.cause \notin ResetEligible /\ cause \notin ResetEligible
    <3>1. /\ failures = delivery.attempts /\ failures <= Budget["other"]
          /\ delivery'.attempts = delivery.attempts + 1
      BY <1>2, <1>5, <2>2 DEF IInv, History, Attempts
    <3>2. RetryBudget(cause) = Budget["other"]
      BY <2>2 DEF RetryBudget
    <3> QED
      BY <3>1, <3>2, <1>1, <1>2, <1>3, <1>5, <1>6, <1>7, <1>8, <2>2
         DEF History, FailuresBounded
  <2>3. CASE delivery.cause \in ResetEligible
    <3>1. /\ failures <= Budget["other"] + delivery.attempts
          /\ delivery.attempts \in 1 .. RetryBudget(delivery.cause)
          /\ delivery'.attempts = delivery.attempts + 1
      BY <1>2, <1>5, <1>8, <2>3 DEF IInv, History, WithinBudget, Attempts
    <3>2. failures' <= Budget["other"] + MaxBudget + 1
      BY <3>1, <1>1, <1>2, <1>6
    <3>3. CASE cause \in ResetEligible
      BY <3>1, <3>2, <3>3, <1>1, <1>2, <1>3, <1>5, <1>6, <1>8 DEF History, FailuresBounded
    <3>4. CASE cause \notin ResetEligible
      <4>1. RetryBudget(cause) <= 1
        BY <3>4, <1>6 DEF RetryBudget
      <4>2. RetryBudget(delivery.cause) \in Nat /\ RetryBudget(cause) \in Nat
        BY <1>6
      <4>3. delivery'.attempts > RetryBudget(cause)
        BY <3>1, <4>1, <4>2, <1>1 DEF Delivery
      <4>4. delivery'.disposition # None
        BY <4>3, <4>2, <1>7, <1>3 DEF TypeOK, Delivery
      <4> QED
        BY <4>4, <3>2, <3>4, <1>3, <1>5, <1>8 DEF History, FailuresBounded
    <3> QED
      BY <3>3, <3>4
  <2> QED
    BY <2>1, <2>2, <2>3
<1> QED
  BY <1>3, <1>4, <1>9 DEF IInv

LEMMA DelayElapsesPreservesIInv ==
  ASSUME IInv, DelayElapses
  PROVE  IInv'
<1>1. /\ delivery \in Delivery /\ failures' = failures
      /\ delivery' = [delivery EXCEPT !.waiting = FALSE]
  BY DEF IInv, TypeOK, DelayElapses
<1>2. /\ delivery' \in Delivery
      /\ delivery'.attempts = delivery.attempts
      /\ delivery'.cause = delivery.cause
      /\ delivery'.disposition = delivery.disposition
  BY <1>1 DEF Delivery
<1> QED
  BY <1>1, <1>2 DEF IInv, TypeOK, WithinBudget, History, FailuresBounded

LEMMA StepPreservesIInv == IInv /\ [Next]_vars => IInv'
<1> SUFFICES ASSUME IInv, [Next]_vars PROVE IInv'
  OBVIOUS
<1>1. CASE \E code \in FailureCode, override \in Overrides : FlushFails(code, override)
  BY <1>1, FlushFailsPreservesIInv
<1>2. CASE DelayElapses
  BY <1>2, DelayElapsesPreservesIInv
<1>3. CASE UNCHANGED vars
  BY <1>3 DEF vars, IInv, TypeOK, WithinBudget, History, FailuresBounded
<1> QED
  BY <1>1, <1>2, <1>3 DEF Next

(* Everything the invariant runs check holds for all budgets. *)
THEOREM Invariance == Spec => []IInv
  BY InitEstablishesIInv, StepPreservesIInv, PTL DEF Spec

(* The delivery record and the counter keep their types (TypeOK). *)
THEOREM TypeCorrect == Spec => []TypeOK
<1>1. IInv => TypeOK
  BY DEF IInv
<1> QED
  BY <1>1, Invariance, PTL

(* The attempts of a message end within Budget["other"] + MaxBudget + 1    *)
(* failures, whatever the order of the failure modes (FailuresBounded).    *)
THEOREM RetriesAreBounded == Spec => []FailuresBounded
<1>1. IInv => FailuresBounded
  BY DEF IInv
<1> QED
  BY <1>1, Invariance, PTL

(* A failure that keeps the row in the queue always has a delay to wait    *)
(* out (RetryIsDelayed).                                                   *)
THEOREM RetriesAreDelayed == Spec => RetryIsDelayed
<1>1. IInv /\ [Next]_vars =>
        [failures' > failures /\ delivery'.disposition = None => delivery'.waiting]_vars
  <2> SUFFICES ASSUME IInv, Next, failures' > failures, delivery'.disposition = None
               PROVE  delivery'.waiting
    OBVIOUS
  <2>1. PICK code \in FailureCode, override \in Overrides : FlushFails(code, override)
    BY DEF Next, DelayElapses, IInv, TypeOK
  <2>2. delivery \in Delivery /\ delivery' = RecordFlushFailure(delivery, code, override)
    BY <2>1 DEF FlushFails, IInv, TypeOK
  <2>3. delivery'.attempts \in 1 .. RetryBudget(delivery'.cause)
    BY <2>2, RetryStaysWithinBudget
  <2>4. RetryBudget(delivery'.cause) \in Nat
    BY RetryBudgetType, BudgetIsBounded DEF BudgetAssumption
  <2>5. HasRetryDelay(delivery'.cause, delivery'.attempts)
    BY <2>3, <2>4 DEF HasRetryDelay
  <2> DEFINE cause == FlushFailureCause(delivery.cause, code)
             attempts == Attempts(delivery.cause, cause, delivery.attempts)
             exhausted == Exhausted(cause, override, attempts)
  <2>6. /\ delivery'.cause = cause /\ delivery'.attempts = attempts
        /\ delivery'.disposition = (IF exhausted THEN "terminalization-pending" ELSE None)
        /\ delivery'.waiting = (~ exhausted /\ HasRetryDelay(cause, attempts))
    BY <2>2 DEF RecordFlushFailure
  <2>7. ~ exhausted
    BY <2>6 DEF None
  <2>8. HasRetryDelay(cause, attempts)
    BY <2>5, <2>6
  <2> HIDE DEF cause, attempts, exhausted
  <2> QED
    BY <2>6, <2>7, <2>8
<1> QED
  BY <1>1, Invariance, PTL DEF Spec, RetryIsDelayed

(* A row that will be flushed again always has a delay left to wait out in *)
(* the mode it last failed in (WithinBudget).                              *)
THEOREM RetriesStayWithinBudget == Spec => []WithinBudget
<1>1. IInv => WithinBudget
  BY DEF IInv
<1> QED
  BY <1>1, Invariance, PTL

(* A failure that names no cause never replaces one that does, and an      *)
(* internal error never an unknown one (CauseNeverDegrades).               *)
THEOREM CausesAreKept == Spec => CauseNeverDegrades
<1>1. IInv /\ [Next]_vars =>
        [/\ delivery'.cause \in Ambiguous => delivery.cause \in Ambiguous \cup {None}
         /\ delivery'.cause = "INTERNAL" => delivery.cause \in {"INTERNAL", None}]_vars
  <2> SUFFICES ASSUME IInv, Next
               PROVE  /\ delivery'.cause \in Ambiguous => delivery.cause \in Ambiguous \cup {None}
                      /\ delivery'.cause = "INTERNAL" => delivery.cause \in {"INTERNAL", None}
    OBVIOUS
  <2>1. CASE \E code \in FailureCode, override \in Overrides : FlushFails(code, override)
    <3>1. PICK code \in FailureCode : delivery'.cause = FlushFailureCause(delivery.cause, code)
      BY <2>1 DEF FlushFails, RecordFlushFailure
    <3>2. CASE PreservesExistingFailure(delivery.cause, code)
      <4>1. delivery'.cause = delivery.cause
        BY <3>1, <3>2 DEF FlushFailureCause
      <4> QED
        BY <4>1
    <3>3. CASE ~ PreservesExistingFailure(delivery.cause, code)
      <4>1. delivery'.cause = code
        BY <3>1, <3>3 DEF FlushFailureCause
      <4> QED
        BY <4>1, <3>3 DEF PreservesExistingFailure, Ambiguous
    <3> QED
      BY <3>2, <3>3
  <2>2. CASE DelayElapses
    <3>1. delivery'.cause = delivery.cause
      BY <2>2 DEF DelayElapses, IInv, TypeOK, Delivery
    <3> QED
      BY <3>1
  <2> QED
    BY <2>1, <2>2 DEF Next
<1> QED
  BY <1>1, Invariance, PTL DEF Spec, CauseNeverDegrades
=============================================================================
