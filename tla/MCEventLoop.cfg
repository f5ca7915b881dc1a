CONSTANTS
  Threads = {t1, t2}
  Functors = {f1, f2}
  Channels = {c1}
  Wakeup = wakeup
  NoFunctor = none
SPECIFICATION FairSpec
INVARIANTS
  TypeOK
  FifoExactlyOnce
  NoSleepOnFunctors
  NoSleepOnQuit
PROPERTY
  ImplementsSerialExecutor
PROPERTIES
  FunctorsRun
  QuitEndsLoop
