CONSTANTS
  hold = hold
  tap = tap
  shift = shift
  enter = enter
  Slots = {hold, tap}
  Keys = {shift, enter}
  ControlOf <- OneControl
  Steps <- TwoMacros
  Triggers <- TypesOf
  Runs = {1, 2}
  None = None
  MaxQueued = 1
SPECIFICATION FairSpec
INVARIANTS MacrosCoherent CutShortHoldsNothing
PROPERTIES RunsEnd
