CONSTANTS
  FdLimit = 3
  MaxOthers = 1
  MaxConns = 2
  ThreadNums = {0, 2}
  MaxStarts = 2
SPECIFICATION FairSpec
CHECK_DEADLOCK FALSE
INVARIANTS
  TypeOK
  OneOwner
  Balanced
PROPERTIES
  BacklogDrained
  ClosedIsFreed
  DestroyReturns
