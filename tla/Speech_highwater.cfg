SPECIFICATION Spec
CONSTANTS
  Batch = 2
  Capacity = 5
  HighWater = 3
  Slice = 2
  MaxPending = 5
  MaxAudio = 6
  Chunks = {1, 3}
  MaxText = 1
  Replies = 1
INVARIANT HighWaterKept
CHECK_DEADLOCK FALSE
