\* Two flash memories, two victims per collection, requests of up to two pages.
CONSTANTS
  FLASH_NB = 2
  BLOCK_NB = 2
  PAGE_NB = 2
  PLANES_PER_FLASH = 1
  GC_VICTIM_NB = 2
  HOST_PAGE_NB = 3
  MAX_REQ_PAGES = 2
  Data = {d1}
  NoData = NoData
SPECIFICATION Spec
INVARIANTS
  TotalsExact
  CopyCountRight
PROPERTIES
  ProgramOnlyErased
  CopyStaysInFlash
