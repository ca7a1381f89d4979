CONSTANTS
  MaxReconnectAttempts = 2
  MaxOperations = 3
  MaxAttempts = 5
SPECIFICATION Spec
INVARIANT ErrorClosesMedia
CHECK_DEADLOCK FALSE
