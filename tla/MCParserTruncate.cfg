SPECIFICATION Spec
CONSTANTS
  Streams <- MCStreams
  FieldKind <- MCFieldKind
  Required <- MCRequired
  RejectDuplicates = TRUE
  ArrayCapacity = 1
  Policy = "truncate"
  StopAtRoot = TRUE
  MaxDepth = 3
  FrameBytes = 1
  WorkspaceSize = 8
INVARIANTS
  RejectsOnlyInvalid
