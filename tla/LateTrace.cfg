SPECIFICATION PageSpec
CONSTANTS
  RunIds = {a, b}
  Listed = {a, b}
  NoRun = NoRun
  MaxInFlight = 1
CHECK_DEADLOCK FALSE
INVARIANTS
  TraceIsOfTheRun
