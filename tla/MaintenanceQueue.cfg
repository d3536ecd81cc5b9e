SPECIFICATION Spec
CONSTANTS
  Workers = {w1, w2}
  None = none
  Retention = retention
  MaxJobs = 2
  Timeout = 1
  StaleAge = 2
  MaxFaults = 1
INVARIANT TypeOK
INVARIANT ActionsExclusive
INVARIANT RunnerRecorded
INVARIANT OkMeansDone
PROPERTY ServiceReturns
CHECK_DEADLOCK FALSE
