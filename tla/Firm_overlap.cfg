\* Overlapping writes, and an FTL that fails.
CONSTANTS
  Modes = {"none", "1", "2"}
  WRITE_BUFFER_FRAME_NB = 6
  READ_BUFFER_FRAME_NB = 2
  SECTOR_NB = 4
  SECTORS_PER_PAGE = 2
  Requests <- ReadBeyond
  Data = {d1}
  NoData = NoData
  FTL_FAILS = TRUE
SPECIFICATION FairSpec
INVARIANTS
  WriteFrames
  NothingLost

  
