CONSTANTS
  ChanCap = 1
  T2 = 3
  MaxRecv = 2
  MaxResp = 2
  MaxFail = 1
SPECIFICATION FairSpec
INVARIANTS
  OnlyAckPanics
  SilentOnceConfirmed
PROPERTIES
  AnsweredEnds
  ImplementsServerContract
CHECK_DEADLOCK FALSE
