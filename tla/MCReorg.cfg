SPECIFICATION ChainSpec
CONSTANTS
  W = 100
  CoinbaseMaturity = 2
  DustLimit = 1
  FinalityDepth = 1
  VotersPerBlock = 1
  LotteryScore <- MCLotteryScore
  PosQuorum = 20
  MnQuorum = 50
  PosApproval = 75
  MnApproval = 66
  Blocks <- ReorgBlocks
  NullTxid <- MCNullTxid
  TicketMaturity = 1
  TicketExpiry = 10
  VotingPeriod = 2
  ActivationDelay = 1
  ProposalStake = 1
  HalvingInterval = 2
  InitialReward = 10
  PosRewardPercent = 30
  MinValidVotes = 1
  AdjustmentWindow = 10
  InitParams <- MCInitParams
  MnStatuses = {"Active"}
  ClientTxs = {}
  RelayedTxs <- MCRelayedTxs
  MempoolDust = 1
  MinFee = 1
  MaxFee <- MCMaxFee
INVARIANTS
  ChainLinked
PROPERTIES
  NoInflation
