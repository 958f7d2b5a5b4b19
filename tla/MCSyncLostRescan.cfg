SPECIFICATION Spec
CONSTANTS
  b1 = b1
  b2 = b2
  Books = {b1, b2}
  Unnamed = {}
  Labelled = {b1}
  Configs <- MCConfigs
  InitialRows <- MCInitialRows
  InitialBookmarks <- MCInitialBookmarks
  MaxFaults = 1
  MaxEdits = 0
  MaxCrashes = 0
  MaxAttempts = 2
INVARIANT SuccessMeansVisible
