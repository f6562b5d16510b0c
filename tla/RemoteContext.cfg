CONSTANTS
  one = one  two = two
  Client = {one, two}
  Name <- Names
  Thread = {"mainA", "A", "mainB", "B", "n"}
  Home <- NetworkHome
  Program <- Network
  Crashes = {one, two}
SPECIFICATION FairSpec
CHECK_DEADLOCK FALSE
INVARIANTS
  AssertsHold
  NoticeOnItsWay
PROPERTIES
  WaitTruth
  NetworkEnds
