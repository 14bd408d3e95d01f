CONSTANTS
  MaxHandles = 1
  MaxEvents = 2
  Callers = {c1, c2}
  Compressed = FALSE
  Hazards = {}
SPECIFICATION Spec
PROPERTIES
  FlushCovers
CHECK_DEADLOCK FALSE
