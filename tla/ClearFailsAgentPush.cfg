SPECIFICATION Spec
CONSTANTS
  PushSeconds = 1
  OutageBounded = TRUE
  MaxClock = 3
  MaxTraffic = 1
  MaxFaults = 1
INVARIANT NoDoubleCount
ACTION_CONSTRAINT ReadSoon
CHECK_DEADLOCK FALSE
