SPECIFICATION Spec
CONSTANTS
  b = b
  u = u
  Books <- MCBooks
  Unnamed <- MCUnnamed
  Configs <- MCConfigs
  InitialRows <- Row
  InitialBookmarks <- MCInitialBookmarks
  MaxFaults = 0
  MaxEdits = 0
PROPERTY AnyPathFindsTheBook
CHECK_DEADLOCK FALSE
