CONSTANTS
  Versions = {u, s}
  Signed = {s}
  Absent = Absent
  None = None
  Broken = Broken
  MaxFailures = 3
  Attempts = {a1, a2, a3}
  Tables = {t1}
  Secrets = {s1}
SPECIFICATION PluginSpec
INVARIANTS HostCoherent ValuesHaveAnOwner SecretsKept TrustIsEarned ListedIsInPlace
PROPERTIES Survives
SYMMETRY Symmetry
CHECK_DEADLOCK FALSE
