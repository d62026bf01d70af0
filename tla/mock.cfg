CONSTANTS
  FLASHMOCK_NUMSECTORS = 2
  FLASHMOCK_FIRSTSECTOR_ADDRESS = 5
  FLASHMOCK_SECTOR_SIZE = 4
  FLASHMOCK_CHUNK_MAX = 2
  FLASHMOCK_BUFFER_CHUNK_MAX = 2
  Word = 16
  Bits = {b1}
  BlockSize = 2
  Accesses = {1, 2, 3}
SPECIFICATION Spec
INVARIANTS
  TypeOK
  ChunksAreUnique
  NothingIsDropped
PROPERTY
  ImplementsMemory
CHECK_DEADLOCK FALSE
