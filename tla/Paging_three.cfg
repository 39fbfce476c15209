SPECIFICATION Spec
CONSTANTS
  ENTRIES = 8
  Ends = {1030}
  LOW = 4
  HIGH = 30
  MemoryMaps <- TwoSegments
INVARIANT
  HigherHalfMirrors
