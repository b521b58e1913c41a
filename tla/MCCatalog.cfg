SPECIFICATION Spec
CONSTANTS
  Attr = {via}
  Requested <- MCRequested
  Many = 2
  MaxFolders = 2
  MaxLines = 5
  MaxStarts = 2
INVARIANTS Attributed WholeList
