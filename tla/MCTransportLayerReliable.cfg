CONSTANTS
  Protocols = {"udp", "tcp"}
  LocalPorts = {5060, 5062}
  DefaultPort = 5060
  NoPort = 0
  ListenCalls = {l1}
  SendCalls = {s1}
SPECIFICATION TransportSpec
INVARIANT ReliableIsKnown
CHECK_DEADLOCK FALSE
