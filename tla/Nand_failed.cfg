\* Three flash memories that work in parallel, on two channels:
\* SSD_CH_ACCESS does not visit the third.  A write may be cut short.
CONSTANTS
  UINT_MAX = 7
  FLASH_NB = 3
  PLANES_PER_FLASH = 1
  CHANNEL_NB = 2
  IO_PARALLELISM = 1
  MAX_REQ_PAGES = 2
  MAX_REQUESTS = 2
  MAX_FAILED = 1
SPECIFICATION Spec
INVARIANTS
  NoLostEnd
  ListBounded
PROPERTIES
  RecordsOnlyIdle
