\* Two flash memories of two planes on one channel; the planes of a memory
\* wait for each other.
CONSTANTS
  UINT_MAX = 7
  FLASH_NB = 2
  PLANES_PER_FLASH = 2
  CHANNEL_NB = 1
  IO_PARALLELISM = 0
  MAX_REQ_PAGES = 2
  MAX_REQUESTS = 2
  MAX_FAILED = 0
SPECIFICATION FairSpec
INVARIANTS
  Releasable
  PagesAccounted
PROPERTIES
  CommandReturns
