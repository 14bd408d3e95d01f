CONSTANTS
  Messages = {m1}
  MaxTurn = 2
  MaxStep = 2
  MaxCalls = 2
  MaxCrashes = 2
  Failures = TRUE
SPECIFICATION Spec
INVARIANTS
  RepairFits CheckpointsHold CallsAnswered
PROPERTIES
  DurabilityKept
CHECK_DEADLOCK FALSE
