CONSTANTS
  MaxPlugs = 3
  MaxDeaths = 2
  MaxMissed = 1
  MaxMessages = 2
  Newest = 3
  MaxCalls = 2
  MaxStops = 1
  MaxInstalls = 1
SPECIFICATION DaemonSpec
INVARIANTS ConnectionCoherent ImageIsWhole
PROPERTIES ShownInTheEnd NewComesUp
CHECK_DEADLOCK FALSE
