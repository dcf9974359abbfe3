SPECIFICATION Spec
CONSTANTS
  a = a
  b = b
  Keyed = {a, b}
  Miners = {a}
  Treasury = Treasury
  FoundingPool = FoundingPool
  Reserve = Reserve
  MaxSupply = 9
  AllocMiningPool = 0
  AllocTreasury = 3
  FoundingSlots = 2
  FoundingEach = 1
  Genesis <- MCFunded
  GenesisLlms = {b}
  InitialBlockReward = 1
  HalvingInterval = 3
  MinFee = 1
  Fees = {1}
  Amounts = {1}
  MaxHeight = 1
  Registrars = {a}
  Threshold = 1
  Signers = {a}
  MaxApprovals = 2
  QuorumFees = {0, 1}
  TierAmount <- MCTierAmount
  MinCorrespondents <- MCMinCorrespondents
  FoundingMinCorrespondents = 1
  GrantHalvingEvery = 1
  LetterFeeHalvingEvery = 1
  StarterPerBlock = 1
  GrantPerBlock = 1
  SeatsActivation = 3
  SealedActivation = 1
  ClaimantMinAge = 1
  CorrespondentMinAge = 1
  ServiceWindow = 2
  ServiceCap = 1
CHECK_DEADLOCK FALSE
INVARIANTS
  SupplyConserved
PROPERTIES
  MinorityIsPowerless
