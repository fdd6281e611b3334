CONSTANTS
  Idle = 8
  Reaper = 6
  MaxDelay = 4
  MaxRows = 3
SPECIFICATION FairSpec
INVARIANTS TypeOK DeadlineIsCovered CountedIsPrompt
PROPERTIES PendingIsTried
