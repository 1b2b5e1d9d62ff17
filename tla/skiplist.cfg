SPECIFICATION Spec
CONSTANTS
  p1 = p1
  p2 = p2
  n1 = n1
  n2 = n2
  n3 = n3
  Header = Header
  Nil = Nil
  NoScore = NoScore
  Procs <- TwoProcs
  Elems <- SomeNodes
  Keys = {0, 1, 2}
  Scores = {1, 2}
  MaxLevel = 2
  MaxRaced = 1
SYMMETRY Symmetry
INVARIANTS TypeOK SpansMeasure RanksAgree BothWays DescMirrors OnceUnlessRaced
PROPERTY IsSortedSet
