\* Two deployments of an app, up to two web requests and up to two orchestrations at once.
CONSTANTS
  k1 = k1
  k2 = k2
  q1 = q1
  Requests = {q1, q2}
  Runs = {r1, r2}
  Keys <- MCKeys
  Sources <- MCSources
  MaxDeployments = 2
  max_env_vars = 1
  max_deployments_per_day = 2
  max_concurrent_provider_operations = 1
  DEFAULT_FAILURE_COOLDOWN_THRESHOLD = 1
SPECIFICATION Spec
SYMMETRY MCSymmetry
CONSTRAINT MCConstraint
INVARIANTS
  BuiltConfigured
  OperationsWithinLimit
  FewAfterRefusal
CHECK_DEADLOCK FALSE
