CONSTANTS
  Jobs = 2
  Objects = 2
  MaxKept = 0
  MaxQueued = 1
  MaxRounds = 2
  Locker = {}
  Definer = {}
  Reader = {}
  Late = {"hand"}
  None = None
SPECIFICATION Spec
INVARIANTS ReachableIsLive

CHECK_DEADLOCK FALSE
