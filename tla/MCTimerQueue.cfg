CONSTANTS
  Timers = {a, b}
  MaxTime = 7
  Microsecond = 2
  MinDelay = 2
  Second = 4
  Delays = {0, 1, 3}
  Intervals = {2, 4}
  Off = off
SPECIFICATION FairSpec
CHECK_DEADLOCK FALSE
INVARIANTS
  TypeOK
  TimerfdArmed
  HeldOnce
PROPERTY
  NeverEarly
PROPERTY DueTimersRun
