SPECIFICATION Spec
CONSTANTS
  m1 = m1
  m2 = m2
  h1 = h1
  pass = pass
  Message <- OneMessage
  Required <- OneMessage
  Handler <- OneHandler
  Result <- OneResult
  Push = TRUE
  GateExpected = TRUE
  MaxRuns = 1
  MaxCrashes = 2
INVARIANTS
  EventBeforeCallback
  CallbackCovered
CHECK_DEADLOCK FALSE
