SPECIFICATION FairSpec
CONSTANTS
  Cores = {c1}
  Interrupted = {c1}
  Macros = {"info", "error"}
  WIDTH = 48
  HEIGHT = 48
  SCAN_WIDTH = 48
PROPERTY HandlerReturns
