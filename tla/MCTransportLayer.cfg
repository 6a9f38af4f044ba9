CONSTANTS
  Protocols = {"udp", "tcp"}
  LocalPorts = {5060, 5062}
  DefaultPort = 5060
  NoPort = 0
  ListenCalls = {l1, l2}
  SendCalls = {s1}
SPECIFICATION TransportFairSpec
CONSTRAINT Bounds
INVARIANTS
  ViaPortIsListened
  EndsWithItsProtocols
PROPERTY CancelEnds
CHECK_DEADLOCK FALSE
