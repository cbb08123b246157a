SPECIFICATION Spec
CONSTANTS
  Calls = {c1, c2, c3}
  Starters = {c1}
  NoCall = NoCall
  ToolActions = {read, rollback}
  Keyed = {rollback}
  Gated = {rollback}
  Writes = {rollback}
  NoAction = NoAction
  Decisions = {yes, no}
  Allowing = {yes}
  NoDecision = NoDecision
  MaxActionSteps = 2
SYMMETRY CallSymmetry
INVARIANTS
  TypeOK
  OwnerIsCurrent
  CursorWithinBudget
  GatedCallsAreAllowed
  DenialIsObeyed
  TrailReplaysRun
PROPERTIES
  ReviewedActionIsKept
  ApprovalReplyIsSettled
  ImplementsDurableRun
