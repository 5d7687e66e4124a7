SPECIFICATION NodeSpec
CONSTANTS
  Registry <- MCRegistry
  DefaultParams <- MCDefaults
  Changes <- MCChanges
  ChangeDelay = 1
  MaxParamHeight = 6
  Proposals <- MCProposals
  Ballots <- MCBallots
  Tickets = {"t"}
  MasternodeVoters = {"m", "n"}
  QuorumPercent <- MCQuorum
  SupermajorityPercent <- MCSupermajority
  MinVotingPeriod = 1
  MaxVotingPeriod = 2
  StakeAmount = 1000
  RequiredCollateral = 1
  FinalizationGrace = 1
  ParticipationGrace = 2
  SpamBurns = 0
  BurnDelay = 1
  ApprovalPercent <- MCApproval
  RequiredBp <- MCRequiredBp
  ActivationDelay = 1
  ActivationWindow = 1
  InitialTreasury = 5
  InitialMaxSize = 100
  MinMaxSize = 40
  HardMaxSize = 1000
  MedianPeriod = 3
  GrowthPercent = 10
  ShrinkPercent = 5
  BlockSizes = {10, 60, 90, 100}
  MaxSizeHeight = 7
  PoolTickets = {"t1", "t2", "t3"}
  CommitteeSize = 3
  ExpirationBlocks = 2
  PoolFinality = 1
  Rivals = {"a", "b"}
  MaxPoolHeight = 2
  MaxMisses = 1
  Radix = 4
  WordBytes = 8
  Precision = 16
  MaxFactor = 4
  ExpectedSpan = 8
  Spans = {0, 1, 2, 4, 7, 8, 9, 16, 31, 32, 33, 40}
  StartSizes = {1, 2, 3, 4, 5, 6}
  PmPeers = {"p1", "p2", "p3"}
  PmKinds = {"headers", "blocks", "proofs"}
  PmLimit <- MCLimit
  PmMaxOut = 1
  PmMaxIn = 1
  PmConnBound = 2
  PmSecond = 2
  PmMaxTime = 4
  PmMaxFailures = 1
  PmMaxViolations = 0
  PmFailureBound = 3
  PmMaxReputation = 1
  PmFailurePenalty = 1
  PmReputationFloor = 0
  PmMaxIdle = 0
  PmTraits <- MCTraits
  RelayTxs <- MCRelayTxs
  KnownCapacity = 2
  RelayMaxSize = 4
  RelayDust = 5
  TemplateSizes = {3, 5}
  MaxOpcodeCount = 9
  MaxStackDepth = 9
  MaxSigOps = 20
  ScLockTime = 5
  ScSequence <- MCSequence
  ScHeight = 5
  ScLockThreshold = 50
  ScMessage = 7
  WbAmount <- MCAmount
  WbScript <- MCScript
  WbCoinbases = {"c"}
  WbConfirmations = {0, 2}
  WbAnswers <- MCAnswers
  WbPayments = {2, 5}
  WbOutputs <- MCOutputs
  WbRates = {1}
  WbMaturity = 2
  WbDust = 2
  BaseSize = 1
  InputSize = 2
  OutputSize = 1
  MinRelayFee = 1
  WsSecrets = {"s1", "s2"}
  WsPasswords = {"p1", "p2"}
  MaxAttempts = 2
  MaxWsFaults = 2
  MaxWrong = 9
INVARIANTS
  TrackedSound
  
  
  FlatBranchesRun
  
  
  WrongPasswordsBounded
  OnlyApprovedTakesEffect
  SpendsAreCovered
  ReplayAgrees
  
  SlowerIsEasier
CHECK_DEADLOCK FALSE
