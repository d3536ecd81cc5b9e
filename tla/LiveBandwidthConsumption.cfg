SPECIFICATION FairSpec
CONSTANTS
  PushSeconds = 2
  BucketSeconds = 3
  Jitter = 1
  MaxPending = 2
  RetentionSeconds = 3
  TokenBound = TRUE
  MaxClock = 8
  MaxBytes = 0
  MaxFaults = 1
  MaxAdmin = 0
PROPERTY ListDrains
ACTION_CONSTRAINT Prompt
CHECK_DEADLOCK FALSE
