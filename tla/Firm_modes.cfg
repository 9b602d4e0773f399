\* The three builds.
CONSTANTS
  Modes = {"none", "1", "2"}
  WRITE_BUFFER_FRAME_NB = 3
  READ_BUFFER_FRAME_NB = 2
  SECTOR_NB = 2
  SECTORS_PER_PAGE = 1
  Requests <- TwoSectors
  Data = {d1, d2}
  NoData = NoData
  FTL_FAILS = FALSE
SPECIFICATION Spec
SYMMETRY DataSymmetry
INVARIANTS
  TypeOK
  Exclusive
  SleepsSafely
  FlushCounted
  QueueOrder
  WriteFrames
  RoomAtEnqueue
  CompletedInOrder
  ReadsLatest
  NothingLost
