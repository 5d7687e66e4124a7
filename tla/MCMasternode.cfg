SPECIFICATION Spec
CONSTANTS
  Masternodes <- MCMasternodes
  PoseFailures <- MCPoseFailures
  SuccessPercent <- MCSuccessPercent
  MinActive = 3
  QuorumSize = 3
  QuorumDuration = 1
  Me = "m1"
  TargetSize = 3
  ThresholdPercent = 67
  Requests <- MCRequests
  Interval = 4
  SessionBlocks = 1
  ExpiryWindow = 4
  MaxBlockAge = 1
  RetryAge = 2
  MaxBlocks = 8
  Payees = {"a", "b", "c"}
  MixAmounts = {1000000, 1000001}
  MixSizes = {3, 7}
  Traffic = {"LowTraffic", "Congested"}
  MaxFees = 9000
  Nodes = {"u", "v", "w"}
  Us = "u"
  NumChallengers = 1
  MinForPose = 3
  ChallengePeriod = 2
  MaxFailures = 2
  OldAge = 1
  MaxRecords = 2
  Mns = {"m"}
  Versions = {1, 2}
  Peers = {"p", "q"}
  Tasks = {1, 2}
  BatchSize = 2
  Signers = {"a", "b", "d"}
  Txs = {"t1", "t2"}
  SpentBy <- MCSpentBy
  Collaterals = {"c"}
  RequestedThreshold = 1
  QuorumThresholdOf = 2
  CollateralValue = 10
  Cooldown = 1
  MaxSendHeight = 3
  MlIds = {"m1", "m2"}
  MlCapable = {"m1", "m2"}
  MlStatuses = {"Active"}
  MlCounts = {1, 2}
  MlMinRates = {0, 90}
  MlMaxHeight = 1
  MlMaxFailed = 1
  MlMaxSessions = 2
  SessionNames = {1, 2, 3}
  Coordinators = {"c", "d"}
  Mixers = {"p"}
  MaxSessionDuration = 2
  FailedRetention = 1
  MaxPerCoordinator = 1
INVARIANTS
  
  FeesNeverGrow
  
  
  
  
PROPERTY
  CleanupSparesOthers
CHECK_DEADLOCK FALSE
