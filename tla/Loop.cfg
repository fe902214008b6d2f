\* The handler strikes anywhere or not inside doAllLaters; handles drop the
\* timer they held; the pages of the calculator; yaft.
CONSTANTS
  Pids = {p1, p2, p3}
  NoPid = NoPid
  MaxLaters = 3
  QuietLaters = FALSE
  Timers = {t1, t2, t3}
  Handles = {h1}
  NoTimer = NoTimer
  Durations = {0, 1}
  Period = 1
  Horizon = 2
  Fingers = {f1, f2}
  Pen = pen
  NoPointer = NoPointer
  MaxEvents = 8
  MaxOutput = 2
SPECIFICATION MCSpec
INVARIANTS PopsWhatWasChecked ClosuresReferToLiveWidgets DialogButtonsAnswer
PROPERTIES ThreeTapsToLoseIt NoticedAfterDeath QuietNoticesAll NoBurst DueTimerRuns DialogComesUp EndsWithItsShell
\* Undefined behaviour, the end of a program and the bounds end what can happen.
CHECK_DEADLOCK FALSE
