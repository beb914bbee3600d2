SPECIFICATION Spec
CONSTANTS
  Streams <- MCStreams
  FieldKind <- MCFieldKind
  Required <- MCRequired
  RejectDuplicates = TRUE
  ArrayCapacity = 1
  Policy = "silent"
  StopAtRoot = TRUE
  MaxDepth = 3
  FrameBytes = 1
  WorkspaceSize = 8
INVARIANTS
  KeyNamesField
