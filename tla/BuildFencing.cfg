\* Two execute-build runs race with one reconciliation and one timeout or
\* abandonment over two provider deployments.
CONSTANTS
  Runs = {r1, r2}
  Checkers = {c1}
  Operators = {o1}
  Stoppers = {s1}
  RemoteIds = {d1, d2}
  MaxPosts = 2
  NULL = NULL
SYMMETRY Symmetry
SPECIFICATION Spec
INVARIANTS
  TypeOK
  RowsAgree
  ResultsTraced
  DeployingHasReadyBuild
  ContainmentEvidence
PROPERTIES
  NoCreateOnceObserved
  RefinesLifecycle
