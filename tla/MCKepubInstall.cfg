SPECIFICATION FairSpec
CONSTANTS
  Books <- MCBooks
  Illustrated <- MCIllustrated
  Jobs <- MCJobs
  BookOf <- MCBookOf
  MaxFaults = 2
  MaxCrashes = 2
INVARIANTS IInv NeverTornBook InstallsAreReported OnlyHurtDownloadsFail
           NothingLeftBehind InstallsAreFinished
PROPERTIES GoodStays InstallsAtomically EventuallyGood
