SPECIFICATION FairSpec
CONSTANTS
  m1 = m1
  m2 = m2
  c1 = c1
  Message = {m1, m2}
  Caller = {c1}
  Budget <- MCBudget
  MaxBudget = 1
  Limit = 2
  BillingChecked = FALSE
  CloneReporting = FALSE
  Failures <- MCTransient
  MaxRows = 2
  MaxInterrupts = 1
  MaxCrashes = 0
PROPERTIES
  ChatStaysUsable
