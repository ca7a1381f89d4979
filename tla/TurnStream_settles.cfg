CONSTANTS
  MaxReattach = 1
  MaxFrames = 1
  MaxTurns = 2
  MaxDrops = 2
  MaxEpochs = 2
SPECIFICATION FairSpec
PROPERTY StreamSettles
CHECK_DEADLOCK FALSE
