SPECIFICATION FairSpec
CONSTANTS
  Cores = {c1, c2}
  Interrupted = {c1}
  Macros = {"info", "error"}
  WIDTH = 48
  HEIGHT = 48
  SCAN_WIDTH = 50
INVARIANTS
  
  PixelsOnScreen
  EscapesAreWhole
  ColorHasOwner
PROPERTIES
  ImplementsSpinLock
  StuckOnlyByInterrupt
