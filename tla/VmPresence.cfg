SPECIFICATION FairSpec
CONSTANTS
  Nodes = {n1, n2}
  None = None
  ConfirmPushes = 2
  ConfirmSeconds = 1
  StaleSeconds = 0
  DeleteSeconds = 0
  PurgeSeconds = 1
  MaxClock = 2
  MaxMoves = 3
  MaxAdmin = 1
INVARIANT TypeOK
PROPERTIES
  MigrationConfirmed
  HiddenStays
  LocationFollows
CHECK_DEADLOCK FALSE
