SPECIFICATION ArraySpec
CONSTANTS
  Vals = {1, 2}
  MaxLen = 3
  MaxSpare = 1
INVARIANT RemovesValue
