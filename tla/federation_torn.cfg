SPECIFICATION MCSpec
CONSTANTS
  Legs = {l1}
  MaxFaults = 2
  Torn = TRUE
  Again = TRUE
  Grants = {g0, g1}
  Default = g0
  Nonces = {n1, n2}
  MaxRetries = 2
  r1 = r1
  r2 = r2
  Runs = {r1, r2}
  ObsCount <- Observations
  Callers = {k1}
  MaxCrashes = 2
INVARIANTS
  ReleasedHeld
  
CHECK_DEADLOCK FALSE
