SPECIFICATION HealthySpec
CONSTANTS
  Calls = {c1, c2}
  Starters = {c1}
  NoCall = NoCall
  ToolActions = {read, rollback}
  Keyed = {rollback}
  Gated = {rollback}
  Writes = {rollback}
  NoAction = NoAction
  Decisions = {yes, no}
  Allowing = {yes}
  NoDecision = NoDecision
  MaxActionSteps = 1
INVARIANTS
  StillProcessing
