SPECIFICATION FairSpec
CONSTANTS
  None = None
  Scopes = {s1}
  Workers = {w1, w2}
  Commands <- MCCommands
  LState <- MCLState
  L0 <- MCL0
  Decide <- MCDecide
  Authorities = {a1}
  Intents = {r1}
  Full = FALSE
  StatementErrors = FALSE
  Keys = {k1}
  Ops = {"Propose", "Consent"}
  ReconcileAtStartup = TRUE
  DirectCalls = TRUE
  MaxUnkeyed = 2
  MaxFaults = 2
INVARIANTS
  EffectsOnce
PROPERTIES
  Settles
  ImplementsAtMostOnce
