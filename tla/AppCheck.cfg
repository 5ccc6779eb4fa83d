\* Five visits of three visitors in two hours, and the scan of 26 kinds of site with its real budget.
CONSTANTS
  v1 = v1
  v2 = v2
  v3 = v3
  v4 = v4
  v5 = v5
  alice = alice
  bob = bob
  carol = carol
  Visits = {v1, v2, v3, v4, v5}
  Visitor <- MCVisitor
  PER_VISITOR_PER_HOUR = 2
  GLOBAL_PER_HOUR = 3
  MaxHours = 2
  MAX_REQUESTS = 16
  MAX_REDIRECTS = 3
  MAX_SCRIPTS = 8
  Sites <- MCSites
SPECIFICATION CheckSpec
SYMMETRY MCVisitSymmetry
CONSTRAINT MCConstraint
INVARIANTS
  AllowanceKept
  FailuresOnlyHide
  SaysOneThing
CHECK_DEADLOCK FALSE
