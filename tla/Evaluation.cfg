SPECIFICATION Spec
CONSTANTS
  Reviewer = reviewer
  Suite <- SmallSuite
  Contents <- SmallContents
  MaxWrites = 2
  MaxEdits = 1
CHECK_DEADLOCK FALSE
INVARIANTS
  EvidenceIsGenuine
  HonestReportsAreEvidence
  ReportRanItsSuite
  PassIsEarned
  ModesDifferByRetriesOnly
