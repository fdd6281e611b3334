SPECIFICATION Spec
CONSTANTS
  m1 = m1
  m2 = m2
  m3 = m3
  c1 = c1
  Message = {m1, m2, m3}
  Caller = {c1}
  Budget <- MCBudget
  MaxBudget = 1
  Limit = 2
  BillingChecked = FALSE
  CloneReporting = FALSE
  Failures <- MCFailures
  MaxRows = 3
  MaxInterrupts = 1
  MaxCrashes = 0
SYMMETRY MCSymmetry
INVARIANTS
  QueueBounded
PROPERTIES
  FirstInFirstOut
