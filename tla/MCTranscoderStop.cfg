SPECIFICATION FairSpec
CONSTANTS
  Callers = {c1, c2}
  Watcher = Watcher
PROPERTIES
  StopEndsProcess
CHECK_DEADLOCK FALSE
