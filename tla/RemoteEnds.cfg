SPECIFICATION FairSpec
CONSTANTS
  InitLength = 2
  InitMaxThreshold = 1
  Alpha <- Even
  MaxWrite = 0
  Thresholds = {1}
  GrowQueueMaxThreshold = FALSE
  UseD4R = FALSE
  GrowArgs = {}
  CanTerminate = {"write"}
  FirstTag = {}
  MaxItems = 1
  MaxTags = 0
INVARIANT PacketsInOrder
PROPERTIES Released BothEnd
