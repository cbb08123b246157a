SPECIFICATION LiveSpec
CONSTANTS
  Apps = {app, next}
  Names <- HandNames
  Suite <- HandSuite
  Catalogs <- HandCatalogs
  Reviewers = {alice}
  Evaluator = evaluator
  Observed = 1
  MaxRuns = 2
  MaxStarts = 2
  AdvanceBudget = 3
INVARIANTS
  TrailExplainsRow
  RunsItsScenario
  WritesAreAllowed
PROPERTIES
  ImplementsDurableRun
  RequestsEnd
