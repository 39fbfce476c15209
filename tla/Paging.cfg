SPECIFICATION Spec
CONSTANTS
  ENTRIES = 4
  Ends <- EveryEnd
  LOW = 4
  HIGH = 13
  MemoryMaps <- TwoSegments
INVARIANTS
  TypeOK
  LowerHalfIdentity
  HigherHalfMirrors
  RoundTrip
  LowerHalfGone
