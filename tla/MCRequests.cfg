SPECIFICATION MessageSpec
CONSTANTS
  Methods = {"INVITE", "MESSAGE"}
  Setups <- MCSetups
  RecordRoutes <- MCRecordRoutes
  Small = 10
  MaxRequests = 2
  MaxTxs = 3
  MaxEdits = 3
CONSTRAINT Bounds
INVARIANTS
  HeadersAreOrdered
  ResponseFindsItsTx
  AckAndCancelMatch
  SentAsAsked
CHECK_DEADLOCK FALSE
