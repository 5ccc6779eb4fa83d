SPECIFICATION Spec
CONSTANTS
  q1 = q1
  q2 = q2
  Requests <- MCRequests
  Kinds <- MCPushes
  MaxDeployments = 3
  MaxRuns = 3
  MaxCommit = 3
  Unsupported = {}
  MAX_CUSTOMER_RETRY_DEPTH = 1
  NoRun = NoRun
  StartMarker = StartMarker
PROPERTY NoOldCodeBack
CHECK_DEADLOCK FALSE
