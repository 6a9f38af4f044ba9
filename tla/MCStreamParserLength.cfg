CONSTANTS
  Messages <- MCMessages
  MaxMessages = 2
  MaxResets = 0
SPECIFICATION Spec
INVARIANT StopsWithoutLength
CHECK_DEADLOCK FALSE
