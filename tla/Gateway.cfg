SPECIFICATION Spec
CONSTANTS
  put = put
  peek = peek
  Callers = {c1, c2, c3}
  NoCaller = NoCaller
  Keys = {k1}
  NoKey = NoKey
  Requests = {put, peek}
  NoRequest = NoRequest
  Writes = {put}
  Malformed = {}
  MaxAttempts = 2
  Plans <- SomePlans
SYMMETRY CallerSymmetry
INVARIANTS
  WritesHappenOnce
  TraceTellsAnswer
PROPERTIES
  ImplementsIdempotentKey
