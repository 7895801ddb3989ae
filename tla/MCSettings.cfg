CONSTANTS
  c = c
  d = d
  old = old
  new = new
  Calls = {c, d}
  Secrets = {old, new}
  None = None
  MaxCalls = 3
  MaxStops = 1
  MaxMessages = 1
SPECIFICATION Spec
INVARIANTS OldCopyCannotWin
