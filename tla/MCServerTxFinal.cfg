CONSTANTS
  ChanCap = 1
  T2 = 3
  MaxRecv = 1
  MaxResp = 1
  MaxFail = 0
SPECIFICATION Spec
INVARIANT SendsTheFinalResponse
CHECK_DEADLOCK FALSE
