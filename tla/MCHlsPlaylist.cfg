SPECIFICATION PlaylistSpec
CONSTANTS
  MaxItems = 2
  Attempts = 2
  MaxBase = 2
  MaxLen = 3
INVARIANT TailExact
PROPERTY InOrder
