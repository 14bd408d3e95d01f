SPECIFICATION LiveSpec
CONSTANTS
  Owners = {o1}
  Nobody = Nobody
  Jobs = {j1, j2}
  Waits = {w1, w2}
  Limit = 2
  WakeBudget = 1
INVARIANTS EndIsTold NoOrphans WokenWithinBudget
PROPERTIES FirstOutcomeStays TeardownIsQuiet TeardownsEnd
CHECK_DEADLOCK FALSE
