SPECIFICATION MCSpec
CONSTANTS
  Builds <- MCBuilds
  Events <- MCEvents
  LState <- MCState
  L0 = 0
  Evolve <- MCEvolve
  Every = 2
  Codec = TRUE
  Protected = {"record"}
  Readers = {r1}
  MaxRows = 4
  MaxBatch = 2
  RecordNone = RecordNone
  n1 = n1
  n2 = n2
  org = org
  Scopes = {org, audit}
  Chain = audit
  RecordKeys = {k1, k2}
  RecordSnaps = {n1, n2}
  Facts <- MCFacts
  Governed = {n1}
  MaxClaims = 1
  MaxEvents = 3
  FenceNone = FenceNone
  Threads = {t1, t2}
  FenceKeys = {f1}
  Phases = {"boundary", "input"}
  TaskPhase = "input"
  MaxAuthority = 2
  MaxNow = 1
  MaxWork = 4
  MaxFlips = 2
  GuardNone = GuardNone
  GuardRequests = {q1, q2, q3}
  GuardKeys = {g1, g2}
  Staff = {g2}
  Bodies = {b1, b2}
INVARIANTS
  FoldsTrue
  ErasedRefuses
  FactsExact
  OrderKept
  
  ResultsExact
  RunOnce
PROPERTIES
  OutcomesTrue
SYMMETRY Symmetry
