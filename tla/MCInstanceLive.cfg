SPECIFICATION SteadySpec
CONSTANTS
  Watchdog = Watchdog
  None = None
  Ids = {u1}
  Clients = {c1}
  Procs = {p1}
  Retry = TRUE
  StartCanFail = TRUE
PROPERTIES
  RequestsReturn
  ShutdownCompletes
  ShutdownStopsTranscoders
CHECK_DEADLOCK FALSE
