CONSTANTS
  Timers = {a, b}
  MaxTime = 9
  Microsecond = 2
  MinDelay = 2
  Second = 4
  Delays = {3}
  Intervals = {4}
  Off = off
SPECIFICATION Spec
CHECK_DEADLOCK FALSE
INVARIANT NoTimerDropped
