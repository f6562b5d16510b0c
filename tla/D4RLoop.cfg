SPECIFICATION FairSpec
CONSTANTS
  q1 = q1
  q2 = q2
  q3 = q3
  NoNode = NoNode
  Node = {1, 2}
  Queue = {q1, q2}
  Reader <- LoopReader
  Writer <- LoopWriter
  InitLength <- UnitLength
  Requests = {1}
  GrowQueueMaxThreshold = TRUE
  NoSize = 100
  MaxOps = 3
INVARIANTS NoLostWakeup OneOfTwo
PROPERTIES DeadlockResolved TagsGrow
