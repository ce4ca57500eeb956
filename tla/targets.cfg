SPECIFICATION MCSpec
CONSTANTS
  Items = {i1, i2}
  Legacy = {i2}
  Passes = {w1, w2}
  Sealers = {s1, s2}
  Sources = {v1, v2}
  v1 = v1
  Envelopes = {e1}
  MaxEpoch = 2
  MaxEdits = 1
  MaxInc = 2
  MaxRefusals = 1
  None = None
  d1 = d1
  d2 = d2
  ma = ma
  mb = mb
  mc = mc
  ta = ta
  tb = tb
  Decls = {d1, d2}
  Targets = {ta, tb}
  MembersOf <- MCMembersOf
  TargetOf <- MCTargetOf
  Cumulative <- MCCumulative
  Proposals = {mb}
  Panel = TRUE
  MaxTargetEdits = 1
  MaxAttempts = 2
  MaxCrashes = 1
INVARIANTS
  SealsFrozen
  AdmittedUse
  AckHonoured
  

  
SYMMETRY Symmetry
CHECK_DEADLOCK FALSE
