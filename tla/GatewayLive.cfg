SPECIFICATION LiveSpec
CONSTANTS
  put = put
  peek = peek
  Callers = {c1, c2}
  NoCaller = NoCaller
  Keys = {k1}
  NoKey = NoKey
  Requests = {put, peek, bad}
  NoRequest = NoRequest
  Writes = {put}
  Malformed = {bad}
  MaxAttempts = 2
  Plans <- SomePlans
PROPERTIES
  CallsEnd
