CONSTANTS
  MaxHandlers = 2
  Keys = {k1}
  NoHandler = NoHandler
  MaxArrivals = 1
SPECIFICATION FairSpec
INVARIANTS
  LiveIsStored
  NothingLost
  StreamPanicNeedsLatePut
CHECK_DEADLOCK FALSE
PROPERTY StreamEnds
