SPECIFICATION Spec
CONSTANTS
  m1 = m1
  c1 = c1
  Message = {m1}
  Caller = {c1}
  Budget <- MCBudget
  MaxBudget = 1
  Limit = 1
  BillingChecked = FALSE
  CloneReporting = FALSE
  Failures <- MCTransient
  MaxRows = 1
  MaxInterrupts = 0
  MaxCrashes = 0
INVARIANTS
  CanceledStaysDropped
