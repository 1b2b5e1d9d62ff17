SPECIFICATION FairSpec
CONSTANTS
  MaxGs = 2
  MaxGoid = 3
  shardsCount = 2
  MaxLabels = 3
  MaxDms = 3
  Keys = {1}
  MaxItems = 0
  MaxFuncs = 1
  MaxProf = 0
  Callers = {2,3}
  Ops <- SetAtExit
  Reuse = TRUE
PROPERTY ReleasedOnceAllExit
CHECK_DEADLOCK FALSE
