SPECIFICATION Spec
CONSTANTS
  None = None
PROPERTIES
  ProbeReturns
CHECK_DEADLOCK FALSE
