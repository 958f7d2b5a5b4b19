SPECIFICATION Spec
CONSTANTS
  Procs <- MCProcs
  Stems <- MCStems
  DefaultStem = 1
  Extends <- MCUnrelated
  RetainedFiles = 1
  None = None
  MaxRuns = 3
  MaxFaults = 1
  MaxKills = 1
  MaxClockSets = 1
  ClockTimes = {0}
INVARIANTS IInv NoDanglingRule OnlyMissingUninstalls RetentionBounded
PROPERTIES NewestLogsStay LockComesFree
