CONSTANTS
  Reqs = {1, 2, 3}
  Methods = {"INVITE", "ACK"}
  Stoppers = {"app", "signal"}
  NoReq = 0
SPECIFICATION Spec
INVARIANT ShutdownWaitsForHandlers
CHECK_DEADLOCK FALSE
