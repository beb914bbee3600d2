SPECIFICATION Spec
CONSTANTS
  DataLines = {"d1"}
  NameLines = {"n1", "n2"}
  IdLines = {"i1"}
  RetryLines = {"r1"}
  OtherLines = {"comment"}
  Selected = {"n1"}
  Args <- MCArgs
  MaxData = 4
  RawBound = 6
  LaterBound = 4
  map1 = map1
  map2 = map2
SYMMETRY Symmetry
INVARIANTS
  PlainEventsFaithful
  JsonEventsFaithful
  NoPartialResult
