\* Three deployments and two clicks on each kind of page.
CONSTANTS
  MaxDeployments = 3
  MaxCommits = 2
  MaxClicks = 2
  MaxPolls = 2
  MaxFailures = 1
  Openings <- MCOpenings
  Nothing = Nothing
SPECIFICATION PageSpec
INVARIANT SubmitsOnce
PROPERTY CatchesUp
CHECK_DEADLOCK FALSE
