CONSTANTS
  Messages <- MCMessages
  MaxMessages = 3
  MaxResets = 1
SPECIFICATION FairSpec
INVARIANTS
  DeliversWhatWasSent
  LosesNothing
PROPERTY
  StopEnds
CHECK_DEADLOCK FALSE
