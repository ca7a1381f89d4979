CONSTANTS
  Calls = {c1, c2, c3}
  Keys = {k1, k2}
  None = None
  MaxToolCalls = 3
  MaxSteers = 1
  MaxCorrections = 1
  MaxSteerAttempts = 3
  MaxSteerDispatches = 2
  MaxProgressNotes = 1
  MaxRefusals = 1
SPECIFICATION FairSpec
PROPERTIES EveryCallAnswered ServiceKept
CHECK_DEADLOCK FALSE
