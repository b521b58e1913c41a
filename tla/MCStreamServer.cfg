SPECIFICATION Spec
CONSTANTS
  Url = {u1, u2}
  Pid = {p1, p2, p3}
  NoStream = NoStream
  NoProc = NoProc
  Backlog = 1
  QueueMax = 2
  MaxMishaps = 2
SYMMETRY Symmetry
INVARIANTS RefsBacked ViewerKept LeaksOnlyLate NoLostChild OneProducer KillsOwnProducer DirKept
PROPERTY ServiceSpec
