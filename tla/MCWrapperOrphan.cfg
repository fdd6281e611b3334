CONSTANTS
  m1 = m1
  m2 = m2
  Message <- MCMessage
  MaxStops = 1
  Awaited = FALSE
  MaxInstances = 2
  MaxRuns = 2
  MaxFaults = 0
  MaxCrashes = 0
SPECIFICATION Spec
SYMMETRY Symmetric
INVARIANTS AcceptedIsWatched
CHECK_DEADLOCK FALSE
