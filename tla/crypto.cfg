SPECIFICATION CryptoSpec
CONSTANTS
  Parties = {"alice", "bob"}
  Half = 8
  p = 61
  g = 5
  Panic = Panic
  Callers = {1, 2}
  BlockSize = 2
  Bytes = {0, 1, 2}
  Size = 4
  KeySizes = {8, 16}
  None = None
  Error = Error
INVARIANTS TypesOK PowersAreExact SecretsAgree NeverPanics RoundTrip
CHECK_DEADLOCK FALSE
