SPECIFICATION Spec
CONSTANTS
  None = None
  Scopes = {s1}
  Threads = {t1}
  Hosted = TRUE
  MaxKeys = 1
  MaxRows = 1
  MaxFaults = 1
INVARIANTS
  AckedSurvivesRestore
