SPECIFICATION Spec
CONSTANTS
  Ids <- MCIds
  Tagged <- MCTagged
  BatchSize = 2
  Limits <- MCLimits
  MaxAttempts = 2
  MaxEdits = 2
INVARIANTS IInv QuietSelectionExact EnteringNeverHides LeavingNeverRepeats FailuresFit
PROPERTIES Terminates
CHECK_DEADLOCK FALSE
