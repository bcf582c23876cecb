SPECIFICATION ExecSpec
CONSTANTS
  e1 = e1
  e2 = e2
  ExecCalls = {e1, e2}
  Requests <- MCRequests
  DefaultLimit = 3
  Sizes = {1, 2}
CHECK_DEADLOCK FALSE
INVARIANTS
  CutByOwnLimit
