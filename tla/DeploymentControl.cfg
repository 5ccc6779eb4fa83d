SPECIFICATION Spec
CONSTANTS
  q1 = q1
  q2 = q2
  Requests <- MCRequests
  Kinds <- MCKinds
  MaxDeployments = 3
  MaxRuns = 2
  MaxCommit = 2
  Unsupported = {}
  MAX_CUSTOMER_RETRY_DEPTH = 1
  NoRun = NoRun
  StartMarker = StartMarker
CONSTRAINT MCConstraint
INVARIANTS RecordedRunIsLastClaim RetryLineageSound
PROPERTY TerminalStays
CHECK_DEADLOCK FALSE
