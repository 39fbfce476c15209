SPECIFICATION Spec
CONSTANTS
  MAX_ORDER = 2
  Cores = {c1}
  WORD_BITS = 2
  WORDS_PER_PAGE = 4
  PAGE_LIMIT = 8
  MAX_COUNT = 3
  MAX_BATCH = 2
  MemoryMaps <- UnalignedMaps
  NULL = NULL
  DIRTY = DIRTY
INVARIANT AnyRegionCanBeAdded
