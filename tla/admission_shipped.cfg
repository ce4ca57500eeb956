SPECIFICATION FairSpec
CONSTANTS
  None = None
  Scopes = {s1}
  Workers = {w1, w2}
  Commands <- MCCommands
  LState <- MCLState
  L0 <- MCL0
  Decide <- MCDecide
  Authorities = {a1}
  Intents = {r1}
  Full = FALSE
  StatementErrors = FALSE
  Keys = {k1, k2}
  Ops = {"Propose"}
  ReconcileAtStartup = FALSE
  DirectCalls = FALSE
  MaxUnkeyed = 0
  MaxFaults = 1
PROPERTIES
  Settles
