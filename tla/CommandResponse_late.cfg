SPECIFICATION FairSpec
CHECK_DEADLOCK FALSE
CONSTANTS
  Timeouts = {1}
  Factor = 3
  IntMax = 4
  MaxBytes = 3
  MaxNow = 20
INVARIANTS
  ReturnsInTime
