\* One flash memory with two planes; three of eight pages in use,
\* single-page requests: every call returns and none fails.
CONSTANTS
  FLASH_NB = 1
  BLOCK_NB = 4
  PAGE_NB = 2
  PLANES_PER_FLASH = 2
  GC_VICTIM_NB = 1
  HOST_PAGE_NB = 3
  MAX_REQ_PAGES = 1
  Data = {d1}
  NoData = NoData
SPECIFICATION FairSpec
INVARIANTS
  IInv
  SpareSuffices
PROPERTIES
  CallReturns
