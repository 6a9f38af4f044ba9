CONSTANTS
  MaxHandlers = 2
  Keys = {k1}
  NoHandler = NoHandler
  MaxArrivals = 2
SPECIFICATION FairSpec
PROPERTY StopsGracefully
CHECK_DEADLOCK FALSE
