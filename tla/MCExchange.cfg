SPECIFICATION Spec
CONSTANTS
  a = a
  b = b
  Keyed = {a, b}
  Miners = {a, b}
  Treasury = Treasury
  FoundingPool = FoundingPool
  Reserve = Reserve
  MaxSupply = 8
  AllocMiningPool = 1
  AllocTreasury = 1
  FoundingSlots = 1
  FoundingEach = 1
  Genesis <- MCGenesis
  GenesisLlms = {b}
  InitialBlockReward = 1
  HalvingInterval = 2
  MinFee = 1
  Fees = {0, 1}
  Amounts = {1}
  MaxHeight = 3
  PacketId = {p1}
  EscrowId = {e1, e2}
  Prices = {1, 2}
  Scores = {2}
  EscrowTimeout = 1
SYMMETRY Symmetry
CHECK_DEADLOCK FALSE
INVARIANTS
  TypeOK
  SupplyConserved
  EscrowBacked
  ReputationIsEarned
PROPERTIES
  SettlementPaysOneParty
