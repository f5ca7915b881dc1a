CONSTANTS
  Threads = {t1}
  LoopCalls = {"send", "shutdown", "forceClose", "forceCloseWithDelay",
               "startRead", "stopRead"}
  ThreadCalls = {"send", "shutdown", "forceClose", "forceCloseWithDelay",
               "startRead", "stopRead"}
  ServerDies = TRUE
  MaxCalls = 2
  MaxLen = 2
  MaxInput = 1
  highWaterMark_ = 2
SPECIFICATION Spec
CHECK_DEADLOCK FALSE
INVARIANTS
  StreamInOrder
  WritingHasData
