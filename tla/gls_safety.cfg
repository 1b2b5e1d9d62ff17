SPECIFICATION ApartSpec
CONSTANTS
  MaxGs = 3
  MaxGoid = 4
  shardsCount = 2
  MaxLabels = 4
  MaxDms = 2
  Keys = {1}
  MaxItems = 1
  MaxFuncs = 2
  MaxProf = 1
  Callers = {2,4}
  Ops <- WithPprof
  Reuse = TRUE
INVARIANTS TypeOK NoPrematureExit Isolation RanOnceInFiloOrder
CHECK_DEADLOCK FALSE
