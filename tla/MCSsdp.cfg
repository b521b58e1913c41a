SPECIFICATION FairSpec
CONSTANTS
  QueueSize = 2
  MaxSock = 3
  MaxKids = 3
  MaxForkFails = 1
INVARIANTS NoLostChild AlarmKept
PROPERTY RenewedIfForks
CHECK_DEADLOCK FALSE
