CONSTANTS
  Plugins = {p1, p2}
  Keys = {k1, k2}
  Values = {v1, v2}
  All = All
  Unset = Unset
  Nothing = Nothing
  Capacity = 1
  MaxPushes = 3
SPECIFICATION FairSpec
INVARIANTS LatestWins
PROPERTIES ImplementsPluginValues Drains
\* The task ends after the sender is dropped.
CHECK_DEADLOCK FALSE
