CONSTANTS
  Calls = {c1, c2, c3, c4, c5}
  Keys = {k1, k2, k3}
  None = None
  MaxToolCalls = 4
  MaxSteers = 2
  MaxCorrections = 1
  MaxSteerAttempts = 3
  MaxSteerDispatches = 2
  MaxProgressNotes = 0
  MaxRefusals = 1
SPECIFICATION Spec
SYMMETRY Symmetry
INVARIANTS OwnerExclusive ActiveIsLiveOwner InstructionLandsOnce RedirectsBounded SlotsAccountedFor
PROPERTIES CorrectionHitsItsTarget
CHECK_DEADLOCK FALSE
