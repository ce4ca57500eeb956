SPECIFICATION StandingSpec
CONSTANTS
  Members = {m1}
  Scim = {s1}
  Console = {}
  MaxCommands = 4
PROPERTIES
  ScimCommitApplies
CHECK_DEADLOCK FALSE
