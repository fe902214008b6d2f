\* Two events in an iteration and forks that fail; the drafts stay.  Dead
\* children are noticed, two that die together included.
CONSTANTS
  Paths = {a1, a2}
  Pids = {p1, p2}
  NoPath = NoPath
  NoPid = NoPid
  SleepTimeout = 1
  RetryTimeout = 1
  InactivityTimeout = 1
  Batch = 2
  MaxSleepTimers = 1
  CountdownDepth = 2
  ForkMayFail = TRUE
  DraftsChange = FALSE
SPECIFICATION FairSpec
INVARIANT OnlyCurrentRuns
PROPERTY DeathNoticed
\* Rocket may quit.
CHECK_DEADLOCK FALSE
