\* A fork that fails leaves the launcher hidden behind a paused app.
CONSTANTS
  Paths = {a1, a2}
  Pids = {p1}
  NoPath = NoPath
  NoPid = NoPid
  SleepTimeout = 1
  RetryTimeout = 1
  InactivityTimeout = 1
  Batch = 1
  MaxSleepTimers = 1
  CountdownDepth = 2
  ForkMayFail = TRUE
  DraftsChange = FALSE
SPECIFICATION Spec
INVARIANT PauseAssertHolds
CHECK_DEADLOCK FALSE
