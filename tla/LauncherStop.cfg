\* A kill button outlives its app by one loop iteration.
CONSTANTS
  Paths = {a1}
  Pids = {p1}
  NoPath = NoPath
  NoPid = NoPid
  SleepTimeout = 1
  RetryTimeout = 1
  InactivityTimeout = 1
  Batch = 1
  MaxSleepTimers = 1
  CountdownDepth = 2
  ForkMayFail = FALSE
  DraftsChange = FALSE
SPECIFICATION Spec
INVARIANT StopAssertHolds
CHECK_DEADLOCK FALSE
