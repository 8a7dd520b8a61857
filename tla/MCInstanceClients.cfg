SPECIFICATION UpSpec
CONSTANTS
  Watchdog = Watchdog
  None = None
  Ids = {u1}
  Clients = {c1}
  Procs = {p1, p2}
  Retry = TRUE
  StartCanFail = TRUE
INVARIANTS
  
  NoLostUnit
  UnitConfigured
  NoOrphanTranscoder
PROPERTIES
  UnitHealed
CHECK_DEADLOCK FALSE
