CONSTANTS
  Ids = {v1, v2}
  Data = {d1}
  Erased = Erased
  Garbled = Garbled
  Missing = Missing
  Tears = {"blank", "errored"}
  FS_NUM_SECTORS = 4
  FDS_PER_SECTOR = 2
  FS_MIN_BLANKSECTORS = 2
  FD_MAX = 2
SPECIFICATION Spec
VIEW DeadCellsAlike
SYMMETRY Symmetry
INVARIANT
  ReserveSuffices
CHECK_DEADLOCK FALSE
