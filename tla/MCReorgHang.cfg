SPECIFICATION Spec
CONSTANTS
  NoHeight = NoHeight
  None = None
  MalformedKey = "bad"
  RoundsUp <- MCRoundsUp
  PublicKeys = {"k1", "k2", "k3"}
  c1 = c1
  c2 = c2
  p1 = p1
  Sidechains = {c1, c2}
  ProposalIds = {p1}
  GovernanceProposals = {p1}
  Federations <- MCFederations
  Heights = {1, 2}
  MaxEpoch = 2
  MinChallengeBond = 2
  VerificationTimeout = 1
  FraudProofReward = 3
  Headers <- ThreeHeaders
  Announced <- TwoHeaders
  Trustworthy <- TwoHeaders
  SideBlocks <- MCSideBlocks
  Proofs <- ThreeProofs
  Bonds = {1, 2}
  MaxChallenges = 3
  MaxReorgDepth = 0
  MinFederationSignatures = 2
CHECK_DEADLOCK FALSE
INVARIANT
  ReorgIsHandled
