CONSTANTS
  N = 3
  MaxParallel = 2
  Faults = {"rejects", "errors", "shortcuts"}
SPECIFICATION LiveSpec
INVARIANTS
  BoundedOverlap BatchAnswered CodesTruthful
PROPERTIES
  AbortStartsNothing Ends
CHECK_DEADLOCK FALSE
