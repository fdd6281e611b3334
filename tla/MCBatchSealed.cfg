SPECIFICATION Spec
CONSTANTS
  m1 = m1
  m2 = m2
  Message = {m1, m2}
  Kind = {"prompt", "command"}
  MaxRuns = 2
  MaxRequests = 3
  MaxUpsets = 2
SYMMETRY Alike
INVARIANT SealedIsCompleted
CHECK_DEADLOCK FALSE
