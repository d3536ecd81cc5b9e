SPECIFICATION FairSpec
CONSTANTS
  PushSeconds = 1
  OutageBounded = TRUE
  MaxClock = 3
  MaxTraffic = 1
  MaxFaults = 1
INVARIANTS
  TypeOK
  CreditedOnce
  ExactWhenUndisturbed
  WindowOnce
  BooksBalance
PROPERTIES
  WindowsKept
  ImplementsExactlyOnce
  PendingDrains
ACTION_CONSTRAINT ReadSoon
CHECK_DEADLOCK FALSE
