\* Two overlapping orchestrations, one verification by hand and one customer
\* request, two health attempts.
CONSTANTS
  Orchestrations = {o1, o2}
  Operators = {p1}
  Customers = {c1}
  MaxAttempts = 2
  MaxTries = 2
  Build = b1
  NULL = NULL
SPECIFICATION FairSpec
\* Every run may have ended and nobody has to start another.
CHECK_DEADLOCK FALSE
INVARIANTS
  TypeOK
  AttemptsAccounted
PROPERTIES
  LiveAfterHealthPass
  TerminalFrozen
  RefinesLifecycle
  HealthLoopBounded
