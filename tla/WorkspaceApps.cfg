\* Two requests and names, limits of one and two apps; two repositories, three apps, two commits, one crash.
CONSTANTS
  Requests = {q1, q2}
  Names = {n1, n2}
  Limits = {1, 2}
  MaxRepos = 2
  MaxApps = 3
  MaxCommits = 2
  MaxFaults = 1
SPECIFICATION Spec
SYMMETRY MCSymmetry
INVARIANTS
  OneAppPerName
  NoLostUpload
PROPERTIES
  NeverGrowsPastLimit
CHECK_DEADLOCK FALSE
