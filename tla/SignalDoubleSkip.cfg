CONSTANTS
  Len = 5
  Workers0 = 1
  Raiser <- CollByWorkers
  Spawner = {1}
  Quitter = {}
  Interactive = FALSE
  MayDestroy = FALSE
  Spurious = FALSE
  Started = TRUE
  MaxSignals = 1
SPECIFICATION Spec
INVARIANT EpochsAgree
CHECK_DEADLOCK FALSE
