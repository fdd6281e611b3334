CONSTANTS
  m1 = m1
  m2 = m2
  Message <- MCMessage
  MaxStops = 1
  Awaited = TRUE
  MaxInstances = 2
  MaxRuns = 2
  MaxFaults = 1
  MaxCrashes = 0
SPECIFICATION Spec
SYMMETRY Symmetric
INVARIANTS HeldIsWatched
CHECK_DEADLOCK FALSE
