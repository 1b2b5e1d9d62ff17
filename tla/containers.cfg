SPECIFICATION ContainersSpec
CONSTANTS
  MaxElems = 4
  MaxPops = 4
  Vals = {1, 2}
  MaxLen = 3
  MaxSpare = 1
INVARIANTS TypesOK LengthIsContents EditsAreExact PopsConserve ShufflePermutes  RemovesValueWhenQuiet
PROPERTIES IsFifo IsLifo
CHECK_DEADLOCK FALSE
