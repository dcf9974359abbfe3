SPECIFICATION Spec
CONSTANTS
  m = m
  n = n
  t = t
  u = u
  Nodes = {m, n}
  Txs = {t, u}
  Sender <- MCSender
  Nonce <- MCNonce
  BaseWork = 1
  Works = {1, 3}
  Window = 2
  MaxReorgDepth = 1
  MaxBlockTxs = 1
  MaxMempoolTxs = 2
  MaxPending = 2
  Peers <- MCPeers
  MaxHeight = 2
  MaxFaults = 0
SYMMETRY Symmetry
CHECK_DEADLOCK FALSE
INVARIANTS
  TypeOK
  HistoryIsSequential
PROPERTIES
  ImplementsForkChoice
