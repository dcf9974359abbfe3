SPECIFICATION Spec
CONSTANTS
  m = m
  n = n
  t = t
  u = u
  Nodes = {m, n}
  Txs = {}
  Sender <- MCSender
  Nonce <- MCNonce
  BaseWork = 1
  Works = {1}
  Window = 2
  MaxReorgDepth = 2
  MaxBlockTxs = 1
  MaxMempoolTxs = 2
  MaxPending = 2
  Peers <- MCHomePeers
  MaxHeight = 4
  MaxFaults = 0
CHECK_DEADLOCK FALSE
PROPERTY
  RefusesOnlyTooDeep
