SPECIFICATION Spec
CONSTANTS
  c1 = c1
  c2 = c2
  s1 = s1
  s2 = s2
  p1 = p1
  p2 = p2
  u1 = u1
  u2 = u2
  nobody = nobody
  Client <- MCClient
  Source <- MCSource
  Pid <- MCPid
  Url <- MCUrl
  Nobody = nobody
  Detaching <- MCDetaching
  MaxEvents = 3
SYMMETRY MCSymmetry
INVARIANTS NoDangling KillsOnlyNew NoStall TimedUntilServed
PROPERTIES RoundErases ChannelSpec
CHECK_DEADLOCK FALSE
