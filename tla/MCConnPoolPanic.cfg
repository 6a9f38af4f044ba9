CONSTANTS
  MaxHandlers = 2
  Keys = {k1}
  NoHandler = NoHandler
  MaxArrivals = 2
SPECIFICATION Spec
INVARIANTS
  NoPanic
CHECK_DEADLOCK FALSE
