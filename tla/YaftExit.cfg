\* The shell may end, or be stopped, at any time.
CONSTANT MaxOutput = 1
SPECIFICATION YaftSpec
INVARIANT ChildAliveIsTrue
CHECK_DEADLOCK FALSE
