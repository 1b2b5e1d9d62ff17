SPECIFICATION FairSpec
CONSTANTS
  MaxProcs = 2
  Keys <- MCKeys
  SHARD_COUNT = 2
  KeyHash <- MCKeyHash
  InitKeys = {1, 3}
  MaxVals = 2
  MaxCalls = 1
  Ops <- LiveCalls
  LoopOps = {}
  Breaks = FALSE
INVARIANTS TakenIsGone IterBounds
PROPERTIES AtomicPerKey CallsComplete 
CHECK_DEADLOCK FALSE
