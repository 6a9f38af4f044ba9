CONSTANTS
  MaxListeners = 2
  Ports = {p1}
  NoListener = NoListener
  MaxConns = 2
  Remotes = {r1}
  NoConn = NoConn
  Senders = {s1}
SPECIFICATION FairSpec
PROPERTY StopsGracefully
CHECK_DEADLOCK FALSE
