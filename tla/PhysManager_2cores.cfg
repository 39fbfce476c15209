SPECIFICATION FairSpec
CONSTANTS
  MAX_ORDER = 1
  Cores = {c1, c2}
  WORD_BITS = 2
  WORDS_PER_PAGE = 4
  PAGE_LIMIT = 8
  MAX_COUNT = 3
  MAX_BATCH = 2
  MemoryMaps <- SmallMaps
  NULL = NULL
  DIRTY = DIRTY
PROPERTIES
  FrozenAfterPanic
  ImplementsSpinLock
  ImplementsPageAllocator
  StarvedOnlyByOthers
  CallsEnd
