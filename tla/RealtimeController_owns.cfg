CONSTANTS
  MaxReconnectAttempts = 2
  MaxOperations = 3
  MaxAttempts = 4
SPECIFICATION Spec
INVARIANTS MediaOwned FailedStaysClosed CallsHungUp
CHECK_DEADLOCK FALSE
