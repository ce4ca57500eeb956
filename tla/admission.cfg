SPECIFICATION Spec
CONSTANTS
  None = None
  Scopes = {s1}
  Workers = {w1, w2}
  Commands <- MCCommands
  LState <- MCLState
  L0 <- MCL0
  Decide <- MCDecide
  Keys = {k1, k2}
  Authorities = {a1, a2}
  Intents = {r1}
  Ops = {"Propose", "Consent", "Revoke", "Release"}
  Full = TRUE
  ReconcileAtStartup = TRUE
  DirectCalls = FALSE
  StatementErrors = TRUE
  MaxUnkeyed = 3
  MaxFaults = 2
INVARIANTS
  AnswersTrue
  SafeRelease
PROPERTIES
  ClaimsStand
SYMMETRY Symmetry
