\* Two tasks at once and as many events as a deployment needs to go live.
CONSTANTS
  Tasks = {t1, t2}
  eventLimit = 2
  ProviderErrors = {"VERCEL_RATE_LIMIT"}
  MaxAttempts = 1
  MaxRepeats = 1
  MaxEvents = 9
  NULL = NULL
SPECIFICATION ReportsSpec
SYMMETRY MCSymmetry
INVARIANTS
  TimelineExplainsReport
CONSTRAINT MCConstraint MCAside
CHECK_DEADLOCK FALSE
