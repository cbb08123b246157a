SPECIFICATION Spec
CONSTANTS
  Apps = {app, next}
  Names <- FrozenNames
  Suite <- FrozenSuite
  Catalogs <- FrozenCatalogs
  Reviewers = {alice}
  Evaluator = evaluator
  Observed = 1
  MaxRuns = 12
  MaxStarts = 0
  AdvanceBudget = 6
SYMMETRY AppSymmetry
CHECK_DEADLOCK FALSE
INVARIANTS
  TracesAreGradable
  ReportsStayReadable
  VerdictOfSuite
