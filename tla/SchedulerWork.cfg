SPECIFICATION FairSpec
CONSTANTS
  f1 = f1
  f2 = f2
  f3 = f3
  f4 = f4
  f5 = f5
  f6 = f6
  f7 = f7
  f8 = f8
  Top = 3
  Cap = 2
  Fiber <- MixedFibers
  Work <- MixedWork
  Program <- MixedProgram
  MayTerm = TRUE
  TermOnErr = FALSE
INVARIANTS OnePlace RanStaysHome NoneHalfRun
PROPERTIES EveryFiberFinishes
CHECK_DEADLOCK FALSE
