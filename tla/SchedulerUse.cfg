SPECIFICATION FairSpec
CONSTANTS
  f1 = f1
  f2 = f2
  f3 = f3
  f4 = f4
  f5 = f5
  f6 = f6
  f7 = f7
  f8 = f8
  Top = 2
  Cap = 2
  Fiber <- UsingFibers
  Work <- UsingWork
  Program <- UsingProgram
  MayTerm = FALSE
  TermOnErr = FALSE
PROPERTIES CallReturns
CHECK_DEADLOCK FALSE
