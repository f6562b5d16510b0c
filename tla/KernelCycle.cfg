CONSTANTS
  main = main  other = other  a = a  b = b  x = x  q1 = q1  None = None
  Clients = {main}
  Main = main
  Nodes = {a, b, x}
  External = {x}
  Creators = {main, a}
  Queues = {q1}
  Ends <- Output
  SwallowBrokenQueue = TRUE
  UnsignedMod = 256
SPECIFICATION Spec
INVARIANTS
  NodeAssertsHold
  LiveCountExact
  NodesEndFirst
  EndsShut
  KernelWakes
  ThreadsWake
CHECK_DEADLOCK FALSE
