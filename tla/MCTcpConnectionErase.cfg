CONSTANTS
  Threads = {t1}
  LoopCalls = {}
  ThreadCalls = {"forceClose"}
  ServerDies = FALSE
  MaxCalls = 3
  MaxLen = 1
  MaxInput = 1
  highWaterMark_ = 2
SPECIFICATION Spec
CHECK_DEADLOCK FALSE
INVARIANT EraseAssertion
