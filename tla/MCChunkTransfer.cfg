SPECIFICATION Spec
CONSTANTS
  Host = {h1, h2}
  Attempts = 2
  MaxBody = 2
  MaxReq = 2
  NoConn = NoConn
INVARIANTS OwnAnswer WholeBody
PROPERTY UsesUp
CHECK_DEADLOCK FALSE
