SPECIFICATION FairSpec
CONSTANTS
  InitLength = 2
  InitMaxThreshold = 2
  Thresholds = {1, 2, 3}
  GrowQueueMaxThreshold = TRUE
  GrowArgs <- NoGrows
  MaxItems = 3
  None = None
INVARIANTS NoLostWakeup NoMutualBlock
PROPERTIES CallsReturn LockReleased
