SPECIFICATION MCSpec
CONSTANTS
  None = None
  Scopes = {s1}
  Threads = {t1}
  Hosted = TRUE
  MaxKeys = 2
  MaxRows = 1
  MaxFaults = 3
  Requests = {q1, q2, q3}
  UploadNone = UploadNone
  Chunks = 3
  Inodes = 3
  Detached = {"create", "write"}
  alice = alice
  Identities = {alice}
  Policies <- TwoPolicies
  Outage = 2
  MaxAge = 1
  Expiry = 9
  Never <- MCNever
  MaxWall = 4
  Settings = {3}
  MaxChecks = 1
  MaxRev = 3
  MaxOrg = 1
  MaxEpoch = 1
  Faults = {}
INVARIANTS
  
  ConfirmedStaysErased
  UploadSafe
PROPERTIES
  LeaseBounded
SYMMETRY Symmetry
