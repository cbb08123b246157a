SPECIFICATION Spec
CONSTANTS
  Calls = {c1, c2, c3}
  Starters = {c1}
  NoCall = NoCall
  ToolActions = {lookup, update}
  Keyed = {lookup, update}
  Gated = {}
  Writes = {update}
  NoAction = NoAction
  Decisions = {yes}
  Allowing = {yes}
  NoDecision = NoDecision
  MaxActionSteps = 2
SYMMETRY CallSymmetry
INVARIANTS
  CheckpointsAreClaimed
PROPERTIES
  IndeterminateWritesAreLeft
