CONSTANTS
  Len = 4
  Workers0 = 1
  Raiser <- CollTermByAll
  Spawner = {2}
  Quitter = {2}
  Interactive = TRUE
  MayDestroy = TRUE
  Spurious = TRUE
  Started = FALSE
  MaxSignals = 2
SPECIFICATION Spec
INVARIANTS EpochsAgree EveryJobReported TermReachesAll TurnIsAlive BailSeesTerm
PROPERTIES RoundIsOrdered
CHECK_DEADLOCK FALSE
