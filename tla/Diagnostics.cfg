SPECIFICATION Spec
CONSTANTS
  s1 = s1
  p1 = p1
  Seed = {s1}
  Other = {p1}
  Capacity = 2
  CONNECT_INITIAL_WAIT = 0
  CONNECT_TIMEOUT = 1
  RESPONSE_TIMEOUT = 1
  EnoughConnected = 2
  EnoughResponses = 1
  NoInfo = NoInfo
  MaxEvents = 4
  MaxNamed = 1
CHECK_DEADLOCK FALSE
INVARIANT OneCategory
INVARIANT ResponsesConnected
INVARIANT SeedsAnswered
PROPERTY FactsKept
PROPERTY DiagnosticEnds
