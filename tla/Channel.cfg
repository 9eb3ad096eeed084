SPECIFICATION FairSpec
CONSTANTS
  t1 = t1
  t2 = t2
  f1 = f1
  None = None
  Forever = Forever
  Thread = {t1, t2}
  Fiber = {f1}
  Closer = {t1}
  Terminable = {t1, f1}
  Tries = {1, Forever}
  Lens = {1}
  MaxCalls = 1
  MaxEpoch = 99
INVARIANTS IInv AtMostOnce SuccessMeansReceived TimeoutMeansWithdrawn BothOrNeither
PROPERTIES ImplementsRendezvous ReceivedPutReturns CallsReturn PutMeetsTake
CHECK_DEADLOCK FALSE
