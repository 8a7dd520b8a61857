SPECIFICATION FairSpec
CONSTANTS
  Sessions = {s1, s2}
  None = None
  OverridePublisher = FALSE
PROPERTIES
  ClosingEnds
  ShutdownCompletes
