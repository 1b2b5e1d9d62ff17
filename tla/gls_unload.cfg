SPECIFICATION Spec
CONSTANTS
  MaxGs = 3
  MaxGoid = 4
  shardsCount = 2
  MaxLabels = 3
  MaxDms = 3
  Keys = {1}
  MaxItems = 2
  MaxFuncs = 1
  MaxProf = 1
  Callers = {2,4}
  Ops <- UnloadClear
  Reuse = TRUE
INVARIANTS OnlyInherited NoClosedDataVisible
CHECK_DEADLOCK FALSE
