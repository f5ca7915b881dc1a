CONSTANTS
  kInitRetryDelayMs = 1
  kMaxRetryDelayMs = 3
  LoopCalls = {"connect", "stop", "enableRetry", "destroy"}
  ThreadCalls = {"connect", "disconnect"}
  MaxConnects = 2
  MaxCalls = 4
SPECIFICATION Spec
CHECK_DEADLOCK FALSE
INVARIANT StartsAlone
