CONSTANTS
  MaxRevision = 4
  Providers = {"late", "refusing"}
  MaxDrops = 2
  Attempts = {1, 2}
  Voices = {"ash", "marin"}
  MaxRequests = 3
  MaxSample = 1
  MaxSessions = 1
  MaxTurns = 2
  RingMax = 2
  Sockets = {1, 2}
  MaxSteps = 3
  MaxCreates = 2
  MaxIssued = 1
  MaxSockets = 2
  MaxCommands = 1
  MaxSequence = 2
  Retained = 1
  Limit = 1
  MaxActions = 2
  MaxSnapshots = 1
  MaxTraces = 1
  Devices = {1, 2}
  MaxInstalls = 2
  MaxProcesses = 1
  Calls = {1, 2, 3}
  MaxVersion = 2
SPECIFICATION RealtimeSpec
INVARIANTS NoLostTransition BeliefIsLastWord BeliefMatchesServer NothingLeftOpen ToolsTellTheTruth
PROPERTIES NeverRetried EventuallySettles NobodyStuck
CHECK_DEADLOCK FALSE
