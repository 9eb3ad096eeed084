CONSTANTS
  Jobs = 1
  Objects = 3
  MaxKept = 0
  MaxQueued = 1
  MaxRounds = 2
  Locker = {1}
  Definer = {1}
  Reader = {1}
  Late = {}
  None = None
SPECIFICATION Spec
INVARIANT AllReclaimed

CHECK_DEADLOCK FALSE
