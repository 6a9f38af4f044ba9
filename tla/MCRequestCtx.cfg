CONSTANTS
  Cap = 1
  MaxUp = 3
SPECIFICATION FairCallSpec
INVARIANTS
  ResultIsVerdict
  ResponsesAreRead
PROPERTY CallReturns
CHECK_DEADLOCK FALSE
