SPECIFICATION Spec
CONSTANTS
  PushSeconds = 2
  BucketSeconds = 3
  Jitter = 1
  MaxPending = 1
  RetentionSeconds = 3
  TokenBound = FALSE
  MaxClock = 8
  MaxBytes = 2
  MaxFaults = 1
  MaxAdmin = 1
INVARIANT ValidBucketAcknowledged
CHECK_DEADLOCK FALSE
