\* Collection starts with exactly as many empty blocks as planes.
CONSTANTS
  FLASH_NB = 1
  BLOCK_NB = 3
  PAGE_NB = 2
  PLANES_PER_FLASH = 1
  GC_VICTIM_NB = 1
  HOST_PAGE_NB = 4
  MAX_REQ_PAGES = 2
  Data = {d1}
  NoData = NoData
SPECIFICATION Spec
PROPERTIES
  CollectsOnlyLow
