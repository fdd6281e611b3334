CONSTANTS
  m1 = m1
  m2 = m2
  Message <- MCOneMessage
  MaxStops = 2
  Awaited = FALSE
  MaxInstances = 1
  MaxRuns = 3
  MaxFaults = 1
  MaxCrashes = 1
SPECIFICATION FairSpec
PROPERTIES StopIsSettled HoldIsReleased AcceptedIsSettled
CHECK_DEADLOCK FALSE
