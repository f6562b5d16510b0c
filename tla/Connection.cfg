SPECIFICATION FairSpec
CONSTANTS
  k1 = k1  k2 = k2  q1 = q1  None = None
  Kernel = {k1, k2}
  Queue = {q1}
  Side <- OneWay
CHECK_DEADLOCK FALSE
INVARIANTS OneOwner CleanEnd
PROPERTIES Connected KernelEnds
