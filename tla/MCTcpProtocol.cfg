CONSTANTS
  MaxListeners = 2
  Ports = {p1}
  NoListener = NoListener
  MaxConns = 2
  Remotes = {r1, r2}
  NoConn = NoConn
  Senders = {s1}
SPECIFICATION FairSpec
INVARIANTS
  ErrorDropsItsOwn
  OneOwner
PROPERTIES
  AcceptedSettles
  BrokenListenerLeaves
CHECK_DEADLOCK FALSE
