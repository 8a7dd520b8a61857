SPECIFICATION FairSpec
CONSTANTS
  Sessions = {s1}
  Conns = {c1}
  Streams = {k1, k2}
  None = None
INVARIANTS
  AttachedIsKnown
  OneServerStream
  CloseIsFinal
PROPERTIES
  DeadReadersLeave
  ServerEnds
CHECK_DEADLOCK FALSE
