SPECIFICATION Spec
CONSTANTS
  Sessions = {s1, s2, s3}
  None = None
  OverridePublisher = FALSE
SYMMETRY SessionSymmetry
INVARIANTS
  SlotNotLeaked
  RecordingOwnsStream
  NoStreamOverwritten
  ReaderServedOrClosing
  ReaderLeaksOnlyFailedSetup
PROPERTIES
  DroppedReaderIsClosed
  ImplementsSlot
