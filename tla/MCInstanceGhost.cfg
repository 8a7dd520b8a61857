SPECIFICATION ClientSpec
CONSTANTS
  Watchdog = Watchdog
  None = None
  Ids = {u1}
  Clients = {c1}
  Procs = {p1, p2}
  Retry = TRUE
  StartCanFail = FALSE
INVARIANTS
  NoGhostUnit
CHECK_DEADLOCK FALSE
