CONSTANTS
  Newest = 2
  MaxCalls = 2
  MaxStops = 0
  MaxInstalls = 0
SPECIFICATION Spec
INVARIANTS SkippedIsHidden
CHECK_DEADLOCK FALSE
