SPECIFICATION ClientSpec
CONSTANTS
  Watchdog = Watchdog
  None = None
  Ids = {u1}
  Clients = {c1}
  Procs = {p1, p2}
  Retry = FALSE
  StartCanFail = FALSE
INVARIANTS
  RemovedPathClosed
CHECK_DEADLOCK FALSE
