SPECIFICATION FairSpec
CONSTANTS
  N = 4
  WorkerLimit = 2
INVARIANTS IInv SendNeverBlocks NoSendAfterClose
PROPERTIES ImplementsDownloads Terminates
CHECK_DEADLOCK FALSE
