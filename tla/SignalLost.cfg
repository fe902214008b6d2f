\* The handler strikes anywhere: a callback may be lost.
CONSTANTS
  Pids = {p1, p2}
  NoPid = NoPid
  MaxLaters = 2
  QuietLaters = FALSE
SPECIFICATION FairSpec
PROPERTY ExitIsNoticed
CHECK_DEADLOCK FALSE
