CONSTANTS
  Threads = {t1}
  LoopCalls = {"send", "shutdown", "forceClose", "forceCloseWithDelay"}
  ThreadCalls = {"send"}
  ServerDies = FALSE
  MaxCalls = 3
  MaxLen = 2
  MaxInput = 1
  highWaterMark_ = 2
SPECIFICATION FairSpec
CHECK_DEADLOCK FALSE
INVARIANTS
  TypeOK
  StreamInOrder
  WritingIffBuffered
  ShutdownDrains
  AssertionsHold
PROPERTIES
  ClosedIsDestroyed
  ShutdownCompletes
