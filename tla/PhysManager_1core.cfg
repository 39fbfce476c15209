SPECIFICATION Spec
CONSTANTS
  MAX_ORDER = 2
  Cores = {c1}
  WORD_BITS = 2
  WORDS_PER_PAGE = 4
  PAGE_LIMIT = 8
  MAX_COUNT = 5
  MAX_BATCH = 2
  MemoryMaps <- AllMaps
  NULL = NULL
  DIRTY = DIRTY
INVARIANTS
  TypeOK
  LinksOK
  EveryBlockListed
  OneOwner
  NothingLost
  FullyMerged
  OutOfMemoryIsReal
  FreeInBounds
