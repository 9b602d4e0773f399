\* Three pages of three sectors: requests that begin and end inside a page and
\* have a whole page between; unsigned int has five bits.
CONSTANTS
  SECTORS_PER_PAGE = 3
  PAGE_MAPPING_ENTRY_NB = 3
  UINT_SIZE = 32
  MAX_LENGTH = 16
  Data = {d1}
  NoData = NoData
SPECIFICATION FairSpec
INVARIANTS
  TypeOK
  
  PagesAgree
  ReadsMapped
  WrittenSoFar
PROPERTIES
  OthersKept
  CallReturns
