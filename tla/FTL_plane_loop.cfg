\* Two flash memories with two planes each.
CONSTANTS
  FLASH_NB = 2
  BLOCK_NB = 2
  PAGE_NB = 2
  PLANES_PER_FLASH = 2
  GC_VICTIM_NB = 1
  HOST_PAGE_NB = 2
  MAX_REQ_PAGES = 2
  Data = {d1}
  NoData = NoData
SPECIFICATION FairSpec
PROPERTIES
  CallReturns
