SPECIFICATION Spec
CONSTANTS
  a = a
  b = b
  Keyed = {a, b}
  Miners = {a}
  Treasury = Treasury
  FoundingPool = FoundingPool
  Reserve = Reserve
  MaxSupply = 6
  AllocMiningPool = 0
  AllocTreasury = 5
  FoundingSlots = 1
  FoundingEach = 1
  Genesis <- MCGenesis
  GenesisLlms = {}
  InitialBlockReward = 1
  HalvingInterval = 3
  MinFee = 1
  Fees = {1}
  Amounts = {}
  MaxHeight = 4
  Registrars = {a}
  Threshold = 1
  Signers = {a}
  MaxApprovals = 1
  QuorumFees = {0}
  TierAmount <- MCTierAmount
  MinCorrespondents <- MCMinCorrespondents
  FoundingMinCorrespondents = 1
  GrantHalvingEvery = 1
  LetterFeeHalvingEvery = 1
  StarterPerBlock = 1
  GrantPerBlock = 1
  SeatsActivation = 3
  SealedActivation = 3
  ClaimantMinAge = 1
  CorrespondentMinAge = 1
  ServiceWindow = 2
  ServiceCap = 1
CHECK_DEADLOCK FALSE
INVARIANTS
  TypeOK
  PaidOncePerIdentity
  GrantsNeverGrow
  ClaimsArePaced
  QuorumReachable
