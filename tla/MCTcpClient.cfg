CONSTANTS
  kInitRetryDelayMs = 1
  kMaxRetryDelayMs = 3
  LoopCalls = {"connect", "stop", "enableRetry", "destroy"}
  ThreadCalls = {"connect", "disconnect"}
  MaxConnects = 1
  MaxCalls = 4
SPECIFICATION FairSpec
CHECK_DEADLOCK FALSE
INVARIANTS
  TypeOK
  SocketsAccounted
  StartsAlone
  ClientNotCalledAfterDeath
PROPERTIES
  StopIsFinal
  ConnectSucceeds
