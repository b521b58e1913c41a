SPECIFICATION Spec
CONSTANTS
  Client = {c1}
  Packet = 3
  CacheSize = 7
  Nothing = Nothing
  MaxTotal = 30
INVARIANTS OffersNew LossOnlyIfLapped InPhase
CHECK_DEADLOCK FALSE
