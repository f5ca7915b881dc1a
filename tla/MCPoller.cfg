CONSTANTS
  Chans = {c1, c2, c3}
  Fds = {f1, f2}
  None = None
  kInitEventListSize = 1
SPECIFICATION FairSpec
INVARIANTS
  TypeOK
  KernelAgrees
  NoDanglingActive
PROPERTY ReadyIsServed
CHECK_DEADLOCK FALSE
