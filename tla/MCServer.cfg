CONSTANTS
  Reqs = {1, 2, 3}
  Methods = {"INVITE", "ACK"}
  Stoppers = {"app", "signal"}
  NoReq = 0
SPECIFICATION FairSpec
CONSTRAINT InOrder
INVARIANTS
  OneLateHandler
PROPERTY ShutdownEndsAll
CHECK_DEADLOCK FALSE
