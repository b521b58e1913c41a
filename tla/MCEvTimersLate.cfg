SPECIFICATION TimersFairSpec
CONSTANTS
  Client = {c1, c2}
  Null = Null
  Timeout = 2
  Late = 1
PROPERTY Dropped
