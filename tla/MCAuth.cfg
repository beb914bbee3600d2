SPECIFICATION Spec
CONSTANTS
  Absent = Absent
  Scenes = {"flow", "bearer", "m2m"}
  Int64Max = 4
  \* the token flow
  MaxFlowTime = 2
  Lifetimes = {3}
  Skews <- MCSkews
  DefaultSkew = 1
  DefaultRetries = 1
  MaxTokens = 3
  MaxLogins = 2
  \* bearer validation
  MaxKeyTime = 3
  Contexts = {c1}
  Policies <- MCPolicies
  Body <- MCBody
  Documents = {1, 2, 3, 4}
  Unanswered = 0
  Tokens <- MCTokens
  ClaimPolicy <- MCClaimPolicy
  ClaimSkews = {1}
  \* machine credentials
  Claims = {reader, writer}
  NoClaim = NoClaim
  MaxRecords = 2
  MaxIssued = 2
  MaxInvited = 1
INVARIANTS
  FlowTracksServer
  AcceptedIsGenuine
  M2mExact
CHECK_DEADLOCK FALSE
