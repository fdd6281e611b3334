SPECIFICATION FairSpec
CONSTANTS
  m1 = m1
  m2 = m2
  c1 = c1
  Message = {m1, m2}
  Caller = {c1}
  Budget <- MCBudget
  MaxBudget = 1
  Limit = 1
  BillingChecked = TRUE
  CloneReporting = TRUE
  Failures <- MCTransient
  MaxRows = 2
  MaxInterrupts = 0
  MaxCrashes = 1
INVARIANTS
  QueueBounded
PROPERTIES
  ImplementsLifecycle
  AckedIsSettled
  ResidueIsRemoved
