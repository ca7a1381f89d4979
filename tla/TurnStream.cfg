CONSTANTS
  MaxReattach = 1
  MaxFrames = 3
  MaxTurns = 1
  MaxDrops = 2
  MaxEpochs = 2
SPECIFICATION Spec
INVARIANTS RecordsInOrder WatermarkSound PromptReachesUser RowTellsTheTurn SettledIsQuiet
CHECK_DEADLOCK FALSE
