CONSTANTS
  a1 = a1
  a2 = a2
  Attempts = {a1, a2}
  Nobody = Nobody
  Entries = {"createAgent", "resume", "restore"}
  MaxEvents = 2
  Hazards = {"fails", "aborts", "unloads", "window"}
SPECIFICATION LiveSpec
CONSTRAINT InOrder
INVARIANTS
  RegisteredOwnsLog NothingLeft DriverBeforeScope EventsStored
PROPERTIES
  NoLatePublication EndingsEnd
CHECK_DEADLOCK FALSE
