SPECIFICATION Spec
CONSTANTS
  NumberCapacity = 3
  IoCapacity = 2
  Values <- MCValues
  Keys <- MCKeys
  Strings <- MCStrings
  Numbers <- MCNumbers
  Scalars <- MCScalars
  Readers <- MCReaders
  Children <- MCChildren
  Pieces <- MCPieces
  ItemLists <- MCItemLists
  Capacities = {0, 2}
  MappedCapacities = {0, 1, 3}
  ChildCapacity = 2
  FirstFrames = 1
  MaxNumberBytes = 2
  MaxValueBytes = 9
  MaxText = 5
  MaxLong = 4
  MaxRewinds = 1
  FirstCapacity = 5
  SizeMax = 16
  Shots <- MCShots
  Documents <- MCDocuments
CHECK_DEADLOCK FALSE
INVARIANTS
  FinishVouches
