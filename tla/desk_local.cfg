SPECIFICATION MCSpec
CONSTANTS
  None = None
  Scopes = {s1}
  Threads = {t1, t2}
  Hosted = FALSE
  MaxKeys = 2
  MaxRows = 2
  MaxFaults = 1
  Requests = {q1, q2, q3, q4}
  UploadNone = UploadNone
  Chunks = 4
  Inodes = 3
  Detached = {}
  alice = alice
  Identities = {alice, bob}
  Policies <- OnePolicy
  Outage = 2
  MaxAge = 1
  Expiry = 3
  Never <- MCNever
  MaxWall = 3
  Settings = {1}
  MaxChecks = 1
  MaxRev = 3
  MaxOrg = 1
  MaxEpoch = 1
  Faults = {"back", "restore"}
INVARIANTS
  MemoAgrees
  
PROPERTIES
  NoReplacementKey
  RevocationFinal
  WorkInsideBounds
SYMMETRY Symmetry
