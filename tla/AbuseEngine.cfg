SPECIFICATION Spec
CONSTANTS
  Admins = {a1, a2}
  Required = 2
  ReplayBuckets = 1
  MaxBuckets = 3
  MaxPushes = 3
  MaxActs = 2
INVARIANT TypeOK
INVARIANT SustainedOnly
INVARIANT AbuseRecorded
PROPERTY RecoveryCloses
CHECK_DEADLOCK FALSE
