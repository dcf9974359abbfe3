SPECIFICATION FairSpec
CONSTANTS
  m = m
  n = n
  t = t
  u = u
  Nodes = {m, n}
  Txs = {}
  Sender <- MCSender
  Nonce <- MCNonce
  BaseWork = 1
  Works = {1, 3}
  Window = 2
  MaxReorgDepth = 2
  MaxBlockTxs = 1
  MaxMempoolTxs = 2
  MaxPending = 2
  Peers <- MCPeers
  MaxHeight = 2
  MaxFaults = 1
CHECK_DEADLOCK FALSE
INVARIANTS
  AnnouncedIsDurable
PROPERTIES
  Converges
