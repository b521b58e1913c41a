SPECIFICATION FairSpec
CONSTANTS
  Url = {u1}
  Pid = {p1, p2}
  NoStream = NoStream
  NoProc = NoProc
  Backlog = 1
  QueueMax = 2
  MaxMishaps = 2
PROPERTY Reclaimed
