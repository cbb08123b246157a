SPECIFICATION Spec
CONSTANTS
  Threads = {t1, t2}
  Nobody = Nobody
  Runs = {r1}
  Entries = {e1, e2}
  NoEntry = NoEntry
  MaxRequests = 3
  MaxSaves = 2
  Writers = {w1, w2}
  Readers = {q1, q2}
  NoWriter = NoWriter
  PageSize = 2
  MaxPages = 2
  MaxEvents = 6
  MaxBatch = 2
  RunIds = {a, b}
  Listed = {a}
  NoRun = NoRun
  MaxInFlight = 2
  Activities = {x, y, z}
  Connections = {h}
  MaxSlots = 1
  MaxServers = 2
  Items = {1, 2, 3}
  Bound = 4
CHECK_DEADLOCK FALSE
INVARIANTS
  OneRequestPerRun
  OneEvaluation
  AnswersCoverTheirRow
  TracesAreWhole
  SettledPageIsWhole
  ShownServerRuns
  RowIsLcs
  UnnecessaryIsFewest
  PercentileIsLeastCover
PROPERTIES
  RequestsEnd
  PendingEnds
