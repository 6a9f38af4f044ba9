CONSTANTS
  ClientTxs = {c1}
  MaxServerTxs = 2
  ServerKeys = {k1}
  NoTx = NoTx
  Cap = 1
  MaxMsgs = 2
SPECIFICATION LayerSpec
INVARIANT UnmatchedHasNoTx
CHECK_DEADLOCK FALSE
