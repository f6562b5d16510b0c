SPECIFICATION Spec
CONSTANTS
  QueueLen = 3
  MaxThresh = 2
  GrowArgs <- Grows
  MaxItems = 9
INVARIANT ReaderSees
PROPERTY ImplementsFifo
