CONSTANTS
  Calls = {c, d}
  Secrets = {old, new}
  None = None
  MaxCalls = 2
  MaxStops = 1
  MaxMessages = 1
  Profiles = {p, q}
  MaxEdits = 2
  MaxTurns = 2
SPECIFICATION ServiceSpec
INVARIANTS NothingLost AllDoAsSaid SecretsStay
PROPERTIES NewestWins PendingIsSent ServiceLosesNothing
CHECK_DEADLOCK FALSE
