CONSTANTS
  MaxHandles = 1
  MaxEvents = 3
  Callers = {c1, c2}
  Compressed = FALSE
  Hazards = {"fails", "closes", "late", "crashes"}
SPECIFICATION LiveSpec
PROPERTIES
  WriteBehind CloseDrains CallersServed
CHECK_DEADLOCK FALSE
