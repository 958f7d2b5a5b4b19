SPECIFICATION Spec
CONSTANTS
  b1 = b1
  b2 = b2
  Books = {b1, b2}
  Unnamed = {}
  Labelled = {b1}
  Configs <- MCConfigs
  InitialRows <- MCInitialRows
  InitialBookmarks <- MCInitialBookmarks
  MaxFaults = 2
  MaxEdits = 1
  MaxCrashes = 1
  MaxAttempts = 2
INVARIANT IInv
PROPERTIES FeedBooksSurvive ExitAnnounces
