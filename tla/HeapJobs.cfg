CONSTANTS
  Jobs = 2
  Objects = 1
  MaxKept = 1
  MaxQueued = 1
  MaxRounds = 2
  Locker = {}
  Definer = {1,2}
  Reader = {1,2}
  Late = {}
  None = None
SPECIFICATION Spec
INVARIANTS ReachableIsLive  BuffersAreLive Accounting

CHECK_DEADLOCK FALSE
