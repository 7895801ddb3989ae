CONSTANTS
  Macros = {"a", "b"}
  Contents <- Offered
  NKeys = 2
  PageIds = {1, 2, 3}
  Loaded <- OnePage
  Library <- OneMacro
  Outside <- Elsewhere
  Groups <- OneGroup
  Limit = 2
  MaxEdits = 3
  Actions = {"press"}
  Sockets = {1, 3}
  Requests = {2}
  Timers = {1}
  Sizes = {1}
  Places = 2
  Room = 1
  MaxSockets = 1
  MaxFetches = 1
  MaxTimers = 1
  MaxUnsent = 1
  MaxSends = 2
  MaxStarted = 2
SPECIFICATION ApartSpec
INVARIANTS StaysSound RoomIsKept NothingForgotten
PROPERTIES ImplementsEditHistory
CHECK_DEADLOCK FALSE
