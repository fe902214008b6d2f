\* Draft files come and go, sleep timers pile up, and two events share an
\* iteration; two apps, two launches.
CONSTANTS
  Paths = {a1, a2}
  Pids = {p1, p2}
  NoPath = NoPath
  NoPid = NoPid
  SleepTimeout = 1
  RetryTimeout = 1
  InactivityTimeout = 1
  Batch = 2
  MaxSleepTimers = 2
  CountdownDepth = 2
  ForkMayFail = FALSE
  DraftsChange = TRUE
SPECIFICATION Spec
SYMMETRY Symmetry
INVARIANTS CurrentIsRunning EachChildHasOneApp HiddenBehindApp
PROPERTIES RemovalDeferred ListStands SleepFromLauncher
\* Rocket may quit, and a stale reference ends what is modelled.
CHECK_DEADLOCK FALSE
