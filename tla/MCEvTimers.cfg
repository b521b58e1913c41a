SPECIFICATION TimersSpec
CONSTANTS
  Client = {c1, c2, c3}
  Null = Null
  Timeout = 3
  Late = 2
SYMMETRY MCSymmetry
INVARIANTS Linked AlarmCovers
PROPERTY DropsExpired
