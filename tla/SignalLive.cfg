CONSTANTS
  Len = 4
  Workers0 = 2
  Raiser <- CollTermByAll
  Spawner = {}
  Quitter = {}
  Interactive = FALSE
  MayDestroy = TRUE
  Spurious = FALSE
  Started = TRUE
  MaxSignals = 2
SPECIFICATION FairSpec

PROPERTIES CollectionFinishes SignalReturns TermStops
CHECK_DEADLOCK FALSE
