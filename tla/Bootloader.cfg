SPECIFICATION Spec
CONSTANTS
  PAGES = 26
  PAGE_WORDS = 16
  PER_PAGE = 2
  TABLES = 1
  STACK_PAGES = 2
  HIGH_MEM_BASE = 1024
  Images <- MCImages
  Machines <- MCMachines
  ModeLists <- MCModeLists
  EventPages = {8, 15}
  MAX_EVENTS = 1
INVARIANTS
  BootloaderTypeOK
  KernelMemoryKept
  NothingWithheld
  GrownOnlyByFirmware
  MapInBuffer
  ImageReady
PROPERTIES
  PrepareStaysInside
  BootloaderEnds
