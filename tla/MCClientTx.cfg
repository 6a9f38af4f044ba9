CONSTANTS
  RespCap = 1
  ErrCap = 1
  T2 = 3
  ResendBound = 4
  MaxRecv = 3
  MaxFail = 1
  MaxCancel = 1
SPECIFICATION FairSpec
INVARIANTS
  PanicNeedsTerminate
  ResendOnlyUnanswered
PROPERTIES
  UnansweredEnds
  ImplementsClientContract
CHECK_DEADLOCK FALSE
