SPECIFICATION FairSpec
CONSTANTS
  m1 = m1
  m2 = m2
  h1 = h1
  pass = pass
  Message <- OneMessage
  Required <- OneMessage
  Handler <- OneHandler
  Result <- OneResult
  Push = FALSE
  GateExpected = TRUE
  MaxRuns = 1
  MaxCrashes = 0
PROPERTIES
  CallbackIsSent
CHECK_DEADLOCK FALSE
