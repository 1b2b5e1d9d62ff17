SPECIFICATION Spec
CONSTANTS
  MaxProcs = 2
  Keys <- MCKeys
  SHARD_COUNT = 2
  KeyHash <- MCKeyHash
  InitKeys = {1}
  MaxVals = 3
  MaxCalls = 1
  Ops <- NXCalls
  LoopOps = {}
  Breaks = FALSE
INVARIANT SetNXReports
CHECK_DEADLOCK FALSE
