SPECIFICATION Spec
CONSTANTS
  b = b
  u = u
  Books <- MCBooks
  Unnamed <- MCUnnamed
  Configs <- MCConfigs
  InitialRows <- Row
  InitialBookmarks <- MCInitialBookmarks
  MaxFaults = 2
  MaxEdits = 1
INVARIANTS IInv QuietPassConverges
PROPERTIES OpenBooksSurvive ReportedBeforeRemoval OnlyStaleBooksGo ReadeckFollowsKobo
CHECK_DEADLOCK FALSE
