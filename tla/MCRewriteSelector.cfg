SPECIFICATION ValuesSpec
CONSTANTS
  Byte <- MCByte
  Chunks <- MCChunks
  Capacities = {1, 3}
  MemoryLimit = 2
  MaxBytes = 5
  StorageBound = 7
  Jobs <- MCJobs
  FreeBytes <- MCFreeBytes
  MaxFree = 5
  MaxRead = 3
  MaxCalls = 3
  PlainCapacity = 3
  MaxFrames = 7
  MaxSegments = 2
  MaxParents = 1
  Tasks <- MCTasks
  LooseTokens <- MCLooseTokens
  MaxLoose = 7
  MaxPiece = 2
  FieldBytes = 2
  BodyBytes = {"-", "b", "CR", "LF"}
  Boundary <- MCBoundary
  Headers <- MCHeaders
  ContentLength <- MCContentLength
  MaxLine = 5
  MaxHeaders = 1
  MaxBuffered = 6
  RawBound = 7
  LaterBound = 5
  PartBound = 2
  Ceiling = 7
  Sizes = {1, 3}
  Addresses = {1, 2}
INVARIANTS
  SelectorExact
