SPECIFICATION Spec
CONSTANTS
  Ids <- MCIds
  Tagged <- MCTagged
  BatchSize = 2
  Limits <- MCNoLimit
  MaxAttempts = 1
  MaxEdits = 1
INVARIANTS AllAreListed
CHECK_DEADLOCK FALSE
