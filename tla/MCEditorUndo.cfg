CONSTANTS
  Macros = {"a", "b"}
  Contents <- Offered
  NKeys = 2
  PageIds = {1}
  Loaded <- OnePage
  Library <- OneMacro
  Outside = {}
  Groups = {}
  Limit = 3
  MaxEdits = 3
SPECIFICATION Spec
INVARIANTS AnyChangeIsUndone
