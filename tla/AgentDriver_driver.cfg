CONSTANTS
  Messages = {m1, m2}
  Callers = {"followup", "steer", "inject", "prepend", "remove", "replace", "cancel", "maintain", "dispose"}
  Outcomes = {"throws", "rejects", "rewrites", "context", "fails", "retries", "tools", "max-tokens"}
  Causes = {"user"}
  MaxStep = 2
  MaxCancels = 2
SPECIFICATION LiveSpec
INVARIANTS
  LogWellFormed LatchOnlyWhenOwed InputAccounted
PROPERTIES
  AbortCommitsNothing ParkedStaysParked WakesServed ActivitiesEnd
CHECK_DEADLOCK FALSE
