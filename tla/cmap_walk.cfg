SPECIFICATION Spec
CONSTANTS
  MaxProcs = 2
  Keys <- MCKeys
  SHARD_COUNT = 2
  KeyHash <- MCKeyHash
  InitKeys = {1, 3}
  MaxVals = 2
  MaxCalls = 2
  Ops <- WalkCalls
  LoopOps = {"Set"}
  Breaks = TRUE
INVARIANTS TypeOK ScanBounds IterBounds
PROPERTY ShardFrozen
CHECK_DEADLOCK FALSE
