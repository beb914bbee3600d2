SPECIFICATION MultipartSpec
CONSTANTS
  BodyBytes = {"-", "b", "CR", "LF"}
  Boundary <- MCBoundary
  Headers <- MCHeaders
  ContentLength <- MCContentLength
  MaxLine = 5
  MaxHeaders = 1
  MaxBuffered = 6
  RawBound = 7
  LaterBound = 5
  PartBound = 2
INVARIANTS
  DelimiterStartsLine
