CONSTANTS
  MaxHandles = 2
  MaxEvents = 3
  Callers = {}
  Compressed = TRUE
  Hazards = {"fails", "closes"}
SPECIFICATION Spec
PROPERTIES
  OwnedWrites
CHECK_DEADLOCK FALSE
