SPECIFICATION Spec
CONSTANTS
  MaxFiles = 2
  MaxTime = 2
  MaxRetries = 2
  RetainAcked = 1
  MaxFaults = 1
INVARIANT TypeOK
INVARIANT StoredOnce
INVARIANT NoResurrection
INVARIANT NothingLost
PROPERTY ImplementsStore
PROPERTY Drained
CHECK_DEADLOCK FALSE
