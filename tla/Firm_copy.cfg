\* Overlapping writes.
CONSTANTS
  Modes = {"none"}
  WRITE_BUFFER_FRAME_NB = 6
  READ_BUFFER_FRAME_NB = 2
  SECTOR_NB = 4
  SECTORS_PER_PAGE = 2
  Requests <- ReadBack
  Data = {d1, d2}
  NoData = NoData
  FTL_FAILS = FALSE
SPECIFICATION Spec
INVARIANTS
  ReadsLatest
