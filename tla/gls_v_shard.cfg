SPECIFICATION Spec
CONSTANTS
  MaxGs = 2
  MaxGoid = 3
  shardsCount = 1
  MaxLabels = 3
  MaxDms = 3
  Keys = {1}
  MaxItems = 1
  MaxFuncs = 1
  MaxProf = 0
  Callers = {2,3}
  Ops <- NoPprof
  Reuse = TRUE
INVARIANT Isolation
CHECK_DEADLOCK FALSE
