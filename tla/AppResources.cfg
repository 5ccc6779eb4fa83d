\* Two deployments, two provisioning runs and a deletion run.
CONSTANTS
  Deployments = {d1, d2}
  Provisioners = {p1, p2}
  Deleters = {x1}
SPECIFICATION Spec
SYMMETRY Symmetry
INVARIANTS
  TypeOK
  OneDatabaseProject
  DatabaseTraceable
  QuietDeletionComplete
PROPERTIES
  NothingAttachedAfterDelete
CHECK_DEADLOCK FALSE
