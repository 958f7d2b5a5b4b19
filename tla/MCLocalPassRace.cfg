SPECIFICATION Spec
CONSTANTS
  b = b
  u = u
  Books <- MCBooks
  Unnamed <- MCUnnamed
  Configs <- MCConfigs
  InitialRows <- Row
  InitialBookmarks <- MCInitialBookmarks
  MaxFaults = 0
  MaxEdits = 1
PROPERTY NeverRemovesOpenBook
CHECK_DEADLOCK FALSE
