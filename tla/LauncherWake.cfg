\* Sleep timers may pile up: a wake by the user does not stop them all.
CONSTANTS
  Paths = {a1}
  Pids = {p1}
  NoPath = NoPath
  NoPid = NoPid
  SleepTimeout = 2
  RetryTimeout = 1
  InactivityTimeout = 1
  Batch = 1
  MaxSleepTimers = 2
  CountdownDepth = 2
  ForkMayFail = FALSE
  DraftsChange = FALSE
SPECIFICATION Spec
PROPERTY WakeStopsTimer
CHECK_DEADLOCK FALSE
