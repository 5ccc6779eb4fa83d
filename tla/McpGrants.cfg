\* Two sessions of one customer, one client, two codes, three token rows.
CONSTANTS
  Visits = {v1, v2}
  Clients = {k1}
  TokenRequests = {t1, t2}
  MaxCodes = 2
  MaxRows = 3
SPECIFICATION GrantsSpec
SYMMETRY MCSymmetry
INVARIANTS
  EndedStaysEnded
  OneFamilyPerCode
  FirstWorkspaceOnce
CHECK_DEADLOCK FALSE
