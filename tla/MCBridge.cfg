SPECIFICATION BridgeSpec
CONSTANTS
  NoHeight = NoHeight
  MalformedKey = "bad"
  RoundsUp <- MCRoundsUp
  PublicKeys = {"k1", "k2", "k3"}
  Sidechains = {"c1"}
  p1 = p1
  p2 = p2
  ProposalIds <- MCProposalIds
  GovernanceProposals <- MCProposalIds
  Federations <- MCFederations
  Heights = {0, 1, 2}
  MaxEpoch = 3
  i1 = i1
  i2 = i2
  PegRequests <- MCPegRequests
  PegIds <- MCPegIds
  RequiredConfirmations = 1
  UtxoSetAvailable = TRUE
  ZeroMessage = "zero"
  Burns <- MCBurns
  Mints <- MCMints
  CoordinationTxs = {"k1", "k2"}
  TransferHeights = {0, 2, 3, 6}
  Times = {0, 2, 4}
  MinSourceConfirmations = 2
  TransferTimeout = 3
  MinTransferAmount = 1
  MaxTransferAmount = 5
  W32 = 4
  Nothing = Nothing
  Chains = {"main", "c1", "c2"}
  Mainchain = "main"
  Federated = {"c1"}
  Messages <- MCMessages
  Malformed = Malformed
  HasInterface = TRUE
  MaxMessages = 2
SYMMETRY IdSymmetry
INVARIANTS
  CompletedIsBacked
  SubmittedOnce
PROPERTIES
  NoUpdateIsLost
  PegIsKept
