CONSTANTS
  Attempts = {a1, a2}
  Tables = {t1, t2}
  Secrets = {}
  None = None
  Broken = Broken
SPECIFICATION FairSpec
INVARIANTS SettingsReachInstance
PROPERTIES NothingHangs
