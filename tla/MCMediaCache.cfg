SPECIFICATION Spec
CONSTANTS
  Viewer = {w1}
  MaxSeq = 5
  CacheMs = 2
  Word = 8
  Duration <- MCDuration
  NoFile = NoFile
  MaxMade = 8
  MaxListed = 3
  MaxFails = 1
INVARIANTS WholeOnly DiskCounted WaitsForTurn
PROPERTIES InOrder WidensByLength
