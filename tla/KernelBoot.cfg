SPECIFICATION BootSpec
CONSTANTS
  MAX_ORDER = 3
  Cores = {c1}
  WORD_BITS = 8
  WORDS_PER_PAGE = 4
  PAGE_LIMIT = 24
  MAX_COUNT = 1
  MAX_BATCH = 1
  MemoryMaps <- Maps
  NULL = NULL
  DIRTY = DIRTY
  MAX_CORES = 8
INVARIANTS
  TablesApart
  InterruptsWork
  TssOnlyForOneCore
PROPERTIES
  BootEnds
