CONSTANTS
  Messages = {m1, m2}
  Callers = {"followup", "cancel", "dispose"}
  Outcomes = {}
  Causes = {"user"}
  MaxStep = 2
  MaxCancels = 1
SPECIFICATION Spec
SYMMETRY Interchangeable
PROPERTIES
  TeardownWaitsOnNoTurn
CHECK_DEADLOCK FALSE
