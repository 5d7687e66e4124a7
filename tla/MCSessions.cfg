SPECIFICATION Spec
CONSTANTS
  ThresholdPercentage = 67
  PhaseTimeouts = 1
  SessionIds = {"s1", "s2"}
  Participants = {1, 2, 3}
  Self = 1
  MinParticipants = 3
  MaxParticipants = 3
  MaxConcurrent = 2
  SessionTimeout = 1
  Shares <- MCShares
  MaxHeight = 4
  NtClients = {"c1", "c2"}
  NtCapacity = 2
  MaxNotified = 3
  MaxConnections = 2
PROPERTIES
  RefinesLifecycle
  EverySessionEnds
  NotificationsArrive
CHECK_DEADLOCK FALSE
