SPECIFICATION FairSpec
CONSTANTS
  m1 = m1
  m2 = m2
  Message = {m1, m2}
  Kind = {"prompt", "command"}
  MaxRuns = 2
  MaxRequests = 3
  MaxUpsets = 1
INVARIANTS TypeOK OneCompletePerRun OwedIsAdmitted WorkIsDone
PROPERTIES SealedBatchStays OwedIsEnded
CHECK_DEADLOCK FALSE
