SPECIFICATION FairSpec
CONSTANTS
  MaxGs = 3
  MaxGoid = 3
  shardsCount = 1
  MaxLabels = 4
  MaxDms = 2
  Keys = {1}
  MaxItems = 1
  MaxFuncs = 1
  MaxProf = 1
  Callers = {2,3}
  Ops <- SetAtExitResetPprof
  Reuse = FALSE
INVARIANT NoHandlerLost
PROPERTY ReleasedOnceAllExit
CHECK_DEADLOCK FALSE
