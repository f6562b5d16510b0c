SPECIFICATION Spec
CONSTANTS
  q1 = q1
  q2 = q2
  q3 = q3
  NoNode = NoNode
  Node = {1, 2, 3}
  Queue = {q1, q2, q3}
  Reader <- TriReader
  Writer <- TriWriter
  InitLength <- TriLength
  Requests = {2}
  GrowQueueMaxThreshold = FALSE
  NoSize = 100
  MaxOps = 2
INVARIANTS OneDetector SmallestQueueGrows
