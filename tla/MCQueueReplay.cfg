SPECIFICATION Spec
CONSTANTS
  m1 = m1
  c1 = c1
  c2 = c2
  Message = {m1}
  Caller = {c1, c2}
  Budget <- MCBudget
  MaxBudget = 1
  Limit = 1
  BillingChecked = TRUE
  CloneReporting = FALSE
  Failures <- MCTransient
  MaxRows = 2
  MaxInterrupts = 0
  MaxCrashes = 0
SYMMETRY MCSymmetry
PROPERTIES
  SettledOnce
