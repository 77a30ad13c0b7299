SPECIFICATION FairSpec
CHECK_DEADLOCK FALSE
CONSTANTS
  MaxSignals = 3
  MaxStarts = 2
  MaxLosses = 2
INVARIANTS
  TypeOK
  EndsByCrash
  DestroyedOnce
PROPERTIES
  EndsWhenToldTo
  BootsWhenReady
