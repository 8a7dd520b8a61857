SPECIFICATION MCSpec
CONSTANTS
  SeqWrap = 2
  UDPMaxPayloadSize = 2000
  Sizes = {1400, 2001}
  Paddings = {0, 700}
  MaxNALUs = 4
  MaxPackets = 2
  TagMod = 2
  ParamIds = {1, 2}
  None = None
INVARIANTS
  SizeBound
  OwnParameters
PROPERTIES
  NoGap
  OrderKept
  ImplementsRelay
CHECK_DEADLOCK FALSE
