CONSTANTS
  People = {1, 2}
  MaxOperations = 3
  MaxRotations = 1
  Requests = {1, 2}
  MaxRefreshes = 2
  MaxTickets = 2
  MaxDials = 3
  MaxSessions = 2
  MaxLive = 3
  Picks = {1}
  Words = {"a", "b", "c"}
  MaxLength = 2
  MaxFiles = 1
  MaxSends = 1
  MaxFetches = 2
  MaxSwitches = 2
  Values = {1, 2}
  MaxSets = 3
  MaxReads = 3
  MaxChecks = 2
  MaxFlows = 3
  MaxMounts = 2
SPECIFICATION ClientSpec
INVARIANTS ShownIsTrue CredentialsKept ChoicesKept
PROPERTY NothingWaitsForever
CHECK_DEADLOCK FALSE
