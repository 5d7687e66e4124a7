SPECIFICATION SyncSpec
CONSTANTS
  SyncPeers = {"p", "q"}
  SyncHeights <- MCHeights
  SyncAnswers <- MCAnswers
  SyncUtxos <- MCUtxos
  SyncTickets = {"t1"}
  BatchSize = 2
  MaxInFlight = 3
  PeerSlack = 1
  CoinMaturity = 2
  MaxMoney = 10
  MaxIoCount = 3
  MaxBlockSize = 1
  MaxTimeDrift = 1
  BaseDifficulty = 1
  VotersPerBlock = 5
  MinValidVotes = 3
  MaxSyncs = 2
  NsTasks = {"x", "y"}
  NsPeers = {"p", "q"}
  NsHeights <- MCNsHeights
  NsAnswers <- MCNsAnswers
  NsBatch = 1
  MaxRetries = 1
  FailureLimit = 0
  Permits = 1
  HeaderReach = 2
  NsMaxSize = 1
  MaxCalls = 2
  TrieKeys <- MCTrieKeys
  TrieValues = {"v", "w"}
  MaxTrieOps = 4
  LcHeaders <- MCHeaders
  LcHeaderLists <- MCHeaderLists
  LcKeys <- MCKeys
  LcBatch <- MCBatch
  MaxBatchSize = 2
  MaxRequests = 3
  SnapBranches = {"a"}
  MaxSnapHeight = 3
  SnapshotInterval = 2
  MaxSnapshots = 1
  U64Range = 1000
  SnapCrashes = 1
INVARIANTS
  IndexLinked
  NeverAWrongValue
  
PROPERTIES
  
  RestartForgetsNothing
CHECK_DEADLOCK FALSE
