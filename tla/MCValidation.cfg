SPECIFICATION ValidationSpec
CONSTANTS
  Candidates <- MCCandidates
  Genesis <- MCGenesis
  GenesisCoins <- MCGenesisCoins
  NullOutpoint <- MCNull
  MaxTxSize = 2
  MaxBlockBytes = 4
  DustLimit = 1
  FeePerByte = 1
  CoinMaturity = 1
  BlockReward = 5
  CollateralAmount = 2
  FutureLimit = 2
  RetargetInterval = 10
  LocktimeThreshold = 100
  KnownTickets <- MCKnownTickets
  KnownNodes <- MCKnownNodes
  MaxFailures = 3
  SlashPercent <- MCSlashPercent
  MaxClock = 3
CHECK_DEADLOCK FALSE
INVARIANTS
  WellFormedIsAccepted
