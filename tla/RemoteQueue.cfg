SPECIFICATION Spec
CONSTANTS
  InitLength = 2
  InitMaxThreshold = 1
  Alpha <- Even
  MaxWrite = 0
  Thresholds = {1, 2}
  GrowQueueMaxThreshold = TRUE
  UseD4R = TRUE
  GrowArgs <- ToFour
  CanTerminate = {}
  FirstTag = {"read", "write"}
  MaxItems = 3
  MaxTags = 1
CONSTRAINT Followed
INVARIANTS ByteCount FIFO EndAfterData TagCurrent NoLostWakeup SameThreshold
