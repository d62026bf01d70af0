CONSTANTS
  Ids = {v1, v2}
  Data = {d1, d2}
  Erased = Erased
  Garbled = Garbled
  Missing = Missing
  Tears = {"blank", "errored"}
  FS_NUM_SECTORS = 3
  FDS_PER_SECTOR = 2
  FS_MIN_BLANKSECTORS = 1
  FD_MAX = 2
SPECIFICATION Spec
VIEW DeadCellsAlike
SYMMETRY Symmetry
INVARIANTS
  TypeOK
  IndexAgreesWithFlash
  CopiesAreRanked
  OnlyActiveIsPartial
  AddressesAgreeWithFlash
  RelocationIsFresh
  VictimExists
  IInv
PROPERTY
  ImplementsStore
CHECK_DEADLOCK FALSE
