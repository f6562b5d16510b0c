SPECIFICATION Spec
CONSTANTS
  InitLength = 2
  InitMaxThreshold = 1
  Thresholds = {1, 2, 3}
  GrowQueueMaxThreshold = TRUE
  GrowArgs <- SomeGrows
  MaxItems = 4
  None = None
INVARIANTS PointersLive AssertsHold
PROPERTY ImplementsFifo
