CONSTANTS
  ClientTxs = {c1, c2}
  MaxServerTxs = 3
  ServerKeys = {k1}
  NoTx = NoTx
  Cap = 1
  MaxMsgs = 4
SPECIFICATION LayerFairSpec
INVARIANTS
  OneLivePerKey
  StoredIsServed
  DoneEndsAll
PROPERTIES
  OnlyOwnerDrops
  RequestReturns
  CancelEnds
CHECK_DEADLOCK FALSE
