CONSTANTS
  RespCap = 1
  ErrCap = 1
  T2 = 3
  ResendBound = 4
  MaxRecv = 2
  MaxFail = 1
  MaxCancel = 1
SPECIFICATION FairSpec
PROPERTY AcceptedEnds
CHECK_DEADLOCK FALSE
