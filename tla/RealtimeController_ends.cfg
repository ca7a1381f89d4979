CONSTANTS
  MaxReconnectAttempts = 1
  MaxOperations = 3
  MaxAttempts = 4
SPECIFICATION FairSpec
PROPERTIES StopEnds RecoveryEnds
CHECK_DEADLOCK FALSE
