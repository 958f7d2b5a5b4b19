SPECIFICATION MCSpec
CONSTANTS
  b1 = b1
  Books = {b1}
  Unnamed = {}
  Labelled = {b1}
  Configs <- Options
  InitialRows <- MCInitialRows
  InitialBookmarks <- Bookmarks
  MaxFaults = 1
  MaxEdits = 1
  MaxCrashes = 1
  MaxAttempts = 2
INVARIANT WatchedInv
PROPERTIES EveryPass EventuallyReported EventuallyMirrored EventuallyQuiet
