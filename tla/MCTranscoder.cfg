SPECIFICATION FairSpec
CONSTANTS
  Callers = {c1, c2}
  Watcher = Watcher
INVARIANTS
  CancelAfterContext
  CancelledForAReason
PROPERTIES
  ExitCollected
  ParentCancelStops
CHECK_DEADLOCK FALSE
