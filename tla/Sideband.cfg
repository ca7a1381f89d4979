CONSTANTS
  MaxNotes = 1
  MaxCalls = 3
  MaxTurns = 2
  MaxResponses = 4
  MaxInjections = 3
  SendMayFail = TRUE
SPECIFICATION FairSpec
INVARIANTS DeliveriesKept GateReopens CallsBoundToTheirItem
PROPERTY EventuallyDelivered
CHECK_DEADLOCK FALSE
