SPECIFICATION MCSpec
CONSTANTS
  Amounts = {1, 2}
  MaxEpoch = 2
  Chats = {c1, c2}
  NoChat = NoChat
  Calls = 2
  Hold = 2
  Costs = {1, 5}
  Grants = {4, 5}
  MaxEntries = 2
  MaxPlans = 2
  MaxReleases = 1
  Members = {m1, m2}
  Scim = {s1}
  Console = {o1, o2}
  MaxCommands = 4
INVARIANTS
  OneAuthority
  ChargeCovered
PROPERTIES
  Fenced
  CreditSafe
  StandingSafe
SYMMETRY Symmetry
CHECK_DEADLOCK FALSE
