CONSTANTS
  Ids = {v1, v2}
  Data = {d1}
  Erased = Erased
  Garbled = Garbled
  Missing = Missing
  Tears = {"dirty"}
  FS_NUM_SECTORS = 3
  FDS_PER_SECTOR = 2
  FS_MIN_BLANKSECTORS = 1
  FD_MAX = 2
SPECIFICATION SpecTorn
VIEW DeadCellsAlike
SYMMETRY Symmetry
INVARIANT
  IndexedIsKept
CHECK_DEADLOCK FALSE
