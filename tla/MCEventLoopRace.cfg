CONSTANTS
  Threads = {t1}
  Functors = {f1, f2}
  Channels = {c1}
  Wakeup = wakeup
  NoFunctor = none
SPECIFICATION Spec
INVARIANT ThreadSafeQueueing
