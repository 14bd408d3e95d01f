SPECIFICATION LiveSpec
CONSTANTS
  Operators = {p1, p2}
  None = None
  Archives = {a1, a2, a3}
  MaxImages = 2
  MaxCommands = 2
  MaxFailures = 2
  MaxKills = 1
  MaxForeign = 1
INVARIANTS SeedIntact
PROPERTIES NothingSpoiled Recovers
CHECK_DEADLOCK FALSE
