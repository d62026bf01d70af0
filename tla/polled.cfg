CONSTANTS
  Ids = {v1, v2}
  Data = {d1}
  Erased = Erased
  Garbled = Garbled
  Missing = Missing
  Tears = {"errored"}
  FS_NUM_SECTORS = 4
  FDS_PER_SECTOR = 2
  FS_MIN_BLANKSECTORS = 2
  FD_MAX = 2
  PollsPerWrite = 3
SPECIFICATION FairSpec
INVARIANTS
  NestingInv
  WritesLandOnBlank
  ReserveSuffices
  FindsVictim
PROPERTIES
  ControlReturns
  ReserveReturns
  RelocationEnds
CHECK_DEADLOCK FALSE
