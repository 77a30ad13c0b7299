SPECIFICATION FairSpec
CHECK_DEADLOCK FALSE
CONSTANTS
  Timeouts = {1, 2, 3, 4}
  Factor = 3
  IntMax = 4
  MaxBytes = 4
  MaxNow = 20
INVARIANTS
  TypeOK
  TextIsWhatCame
  OkNotMissed
  NeverEarly
PROPERTIES
  ImplementsCall
  Returns
