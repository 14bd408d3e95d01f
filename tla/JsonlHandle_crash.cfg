CONSTANTS
  MaxHandles = 3
  MaxEvents = 4
  Callers = {c1, c2}
  Compressed = TRUE
  Hazards = {"fails", "crashes"}
SPECIFICATION Spec
INVARIANTS
  Accounted
PROPERTIES
  DurabilityKept OwnedWrites
SYMMETRY Interchangeable
CHECK_DEADLOCK FALSE
