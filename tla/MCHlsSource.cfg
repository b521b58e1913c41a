SPECIFICATION FairSpec
CONSTANTS
  h1 = h1
  h2 = h2
  Nowhere = Nowhere
  Host <- MCHost
  Origin = h1
  MaxBody = 2
  Packet = 2
  Redirects = 2
  ListRetries = 1
  ChunkRetries = 2
  Via = TRUE
INVARIANTS Own FailsOnlyIfSpoiled Aligned
PROPERTY GivesUp
CHECK_DEADLOCK FALSE
