SPECIFICATION FairSpec
CONSTANTS
  Budget <- MCBudget
  MaxBudget = 3
INVARIANTS
  TypeOK
  FailuresBounded
  WithinBudget
PROPERTIES
  RetryIsDelayed
  CauseNeverDegrades
  EventuallyExhausted
CHECK_DEADLOCK FALSE
