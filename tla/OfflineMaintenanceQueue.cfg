SPECIFICATION Spec
CONSTANTS
  Workers = {w1}
  None = none
  Retention = retention
  MaxJobs = 1
  Timeout = 1
  StaleAge = 2
  MaxFaults = 0
INVARIANT OfflineBoundary
CHECK_DEADLOCK FALSE
