CONSTANTS
  main = main  other = other  a = a  b = b  x = x  q1 = q1  None = None
  Clients = {main, other}
  Main = main
  Nodes = {a}
  External = {}
  Creators = {main}
  Queues = {q1}
  Ends <- Self
  SwallowBrokenQueue = TRUE
  UnsignedMod = 256
SPECIFICATION Spec
CHECK_DEADLOCK FALSE
PROPERTIES
  TerminateCompletes
  WaitReturns
