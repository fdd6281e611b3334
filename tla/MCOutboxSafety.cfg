SPECIFICATION Spec
CONSTANTS
  m1 = m1
  m2 = m2
  h1 = h1
  pass = pass
  Message <- TwoMessages
  Required <- TwoMessages
  Handler <- OneHandler
  Result <- OneResult
  Push = FALSE
  GateExpected = TRUE
  MaxRuns = 2
  MaxCrashes = 0
SYMMETRY Alike
INVARIANTS
  TypeOK
  EventBeforeCallback
  CallbackCovered
  GateIsKept
CHECK_DEADLOCK FALSE
