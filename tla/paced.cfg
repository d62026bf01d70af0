CONSTANTS
  Ids = {v1, v2, v3, v4}
  Data = {d1}
  Erased = Erased
  Garbled = Garbled
  Missing = Missing
  Tears = {"errored"}
  FS_NUM_SECTORS = 3
  FDS_PER_SECTOR = 6
  FS_MIN_BLANKSECTORS = 1
  FD_MAX = 4
  PollsPerWrite = 9
  MaxTorn = 1
SPECIFICATION SpecFilled
CONSTRAINT SecondRound
VIEW PacedView
SYMMETRY Symmetry
INVARIANTS
  PaceInv
  WritesFindRoom
PROPERTY
  EraseLosesNothing
CHECK_DEADLOCK FALSE
