----------------------------- MODULE FlashMock ------------------------------
(***************************************************************************)
(* FlashMock, the device under the tests of wormvars: each sector is a     *)
(* vector of chunks, and a chunk is found by the exact address of its      *)
(* first byte.  Clients access it at the first byte of their blocks, as    *)
(* wormvars does, and never beyond the end of a block; Accesses gives the  *)
(* sizes.  An address is an unsigned integer modulo Word.  The counters,   *)
(* statistics that only tests look at, are left out.                       *)
(***************************************************************************)
EXTENDS Integers, Sequences, FiniteSetsExt

CONSTANTS FLASHMOCK_NUMSECTORS, FLASHMOCK_FIRSTSECTOR_ADDRESS,
          FLASHMOCK_SECTOR_SIZE, FLASHMOCK_CHUNK_MAX,
          FLASHMOCK_BUFFER_CHUNK_MAX,
          Word,       \* bound: addresses, before they wrap
          Bits,       \* bits of a byte
          BlockSize,  \* bytes of a block of the clients
          Accesses    \* sizes of their writes

LastAddress == FLASHMOCK_FIRSTSECTOR_ADDRESS
                 + FLASHMOCK_NUMSECTORS * FLASHMOCK_SECTOR_SIZE - 1

ASSUME FlashGeometry ==
  /\ FLASHMOCK_NUMSECTORS \in Nat \ {0} /\ FLASHMOCK_SECTOR_SIZE \in Nat \ {0}
  /\ FLASHMOCK_FIRSTSECTOR_ADDRESS \in Nat /\ Word \in Nat
  /\ LastAddress < Word
ASSUME BlocksFillSectors == /\ BlockSize \in Nat \ {0}
                            /\ FLASHMOCK_SECTOR_SIZE % BlockSize = 0
ASSUME ChunkLimits == /\ FLASHMOCK_CHUNK_MAX \in Nat
                      /\ FLASHMOCK_BUFFER_CHUNK_MAX \in Nat
ASSUME WritesStayInBlocks ==
  /\ Accesses \subseteq Nat \ {0}
  /\ \A n \in Accesses : n <= FLASHMOCK_BUFFER_CHUNK_MAX => n <= BlockSize

VARIABLE flash    \* sector |-> vector of chunks

Byte == SUBSET Bits
Clean == Bits    \* 0xFF
Sectors == 0 .. FLASHMOCK_NUMSECTORS - 1
Words == 0 .. Word - 1

Init == flash = [s \in Sectors |-> <<>>]

(* Unsigned arithmetic: an address below the first sector wraps around. *)
Sector(address) ==
  ((address - FLASHMOCK_FIRSTSECTOR_ADDRESS) % Word) \div FLASHMOCK_SECTOR_SIZE
address_to_sector(address) == Sector(address) < FLASHMOCK_NUMSECTORS

(* The places, in the vector of its sector, of the chunks that have this   *)
(* address: reads and writes go to the first.                              *)
ChunksAt(address) ==
  LET chunks == flash[Sector(address)]
  IN  {n \in DOMAIN chunks : chunks[n].address = address}
BufferAt(address) ==
  LET places == ChunksAt(address)
  IN  IF places = {} THEN <<>> ELSE flash[Sector(address)][Min(places)].buffer

(* The bytes that read puts into the buffer. *)
BytesAt(address, size) ==
  LET buffer == BufferAt(address)
  IN  [k \in 1 .. size |-> IF k <= Len(buffer) THEN buffer[k] ELSE Clean]

(* Seeded fault: a byte that was written before is replaced. *)
BugRewritten(old, data) ==
  [k \in 1 .. Len(old) |-> IF k <= Len(data) THEN data[k] ELSE old[k]]
    \o SubSeq(data, Len(old) + 1, Len(data))

(* Seeded fault: bytes that were there already are appended again. *)
BugAppended(old, data) ==
  [k \in 1 .. Len(old) |-> IF k <= Len(data) THEN old[k] \cap data[k] ELSE old[k]]
    \o data

(* A chunk is written again: bits are cleared, further bytes appended. *)
Rewritten(old, data) ==
  [k \in 1 .. Len(old) |-> IF k <= Len(data) THEN old[k] \cap data[k] ELSE old[k]]
    \o SubSeq(data, Len(old) + 1, Len(data))

(* Seeded fault: as many chunks as the limit says and no more. *)
BugAccepts(address, data) ==
  /\ Len(data) <= FLASHMOCK_BUFFER_CHUNK_MAX
  /\ address_to_sector(address)
  /\ Len(flash[Sector(address)]) < FLASHMOCK_CHUNK_MAX

Accepts(address, data) ==
  /\ Len(data) <= FLASHMOCK_BUFFER_CHUNK_MAX
  /\ address_to_sector(address)
  /\ Len(flash[Sector(address)]) <= FLASHMOCK_CHUNK_MAX

(* Seeded fault: every write makes a chunk. *)
BugWrite(address, data) ==
  /\ Accepts(address, data)
  /\ flash' = [flash EXCEPT ![Sector(address)] =
                 Append(@, [address |-> address, buffer |-> data])]

(* write, when it gets past its three error returns. *)
Write(address, data) ==
  /\ Accepts(address, data)
  /\ flash' = [flash EXCEPT ![Sector(address)] =
                 IF ChunksAt(address) = {}
                 THEN Append(@, [address |-> address, buffer |-> data])
                 ELSE [@ EXCEPT ![Min(ChunksAt(address))].buffer =
                                  Rewritten(BufferAt(address), data)]]

(* Seeded fault: the address is taken for the number of a sector's cell. *)
BugErase(address) ==
  /\ address_to_sector(address)
  /\ flash' = [flash EXCEPT ![Sector(address)] =
                 SelectSeq(@, LAMBDA chunk : chunk.address # address)]

(* Any address of the sector will do. *)
Erase(address) ==
  /\ address_to_sector(address)
  /\ flash' = [flash EXCEPT ![Sector(address)] = <<>>]

(* The first bytes of blocks, seen as addresses of the whole range. *)
BlockStart(address) ==
  (address - FLASHMOCK_FIRSTSECTOR_ADDRESS) % BlockSize = 0
Starts == {a \in Words : BlockStart(a)}

Next == \/ \E a \in Starts, n \in Accesses :
             \E data \in [1 .. n -> Byte] : Write(a, data)
        \/ \E a \in Words : Erase(a)
Spec == Init /\ [][Next]_flash

-----------------------------------------------------------------------------
Addresses == FLASHMOCK_FIRSTSECTOR_ADDRESS .. LastAddress
StartOf(a) == a - ((a - FLASHMOCK_FIRSTSECTOR_ADDRESS) % BlockSize)
Blocks == {a \in Addresses : BlockStart(a)}

(* The variables have their types. *)
TypeOK ==
  /\ DOMAIN flash = Sectors
  /\ \A s \in Sectors : \A n \in DOMAIN flash[s] :
       /\ flash[s][n].address \in Addresses
       /\ flash[s][n].buffer \in Seq(Byte)
       /\ Len(flash[s][n].buffer) \in 1 .. BlockSize

(* A block has at most one chunk, in its own sector: the search by address *)
(* (FlashMock.cc lines 64 and 99) cannot find an older one.                *)
ChunksAreUnique ==
  \A s \in Sectors : \A m, n \in DOMAIN flash[s] :
    /\ Sector(flash[s][n].address) = s
    /\ m # n => flash[s][m].address # flash[s][n].address

(* The limit of chunks (line 91) is one that no client reaches: a write is *)
(* never dropped as long as a sector has no more blocks than the limit.    *)
NothingIsDropped ==
  \A a \in Blocks, n \in Accesses :
    n <= FLASHMOCK_BUFFER_CHUNK_MAX => Accepts(a, [k \in 1 .. n |-> Clean])

(* Chunks implement the bytes of a NOR FLASH, although they are found only *)
(* at their first byte.                                                    *)
Memory == INSTANCE NorMemory WITH
            SectorOf <- Sector,
            Sizes <- {n \in Accesses : n <= FLASHMOCK_BUFFER_CHUNK_MAX},
            mem <- [a \in Addresses |->
                      LET n == a - StartOf(a) + 1 IN BytesAt(StartOf(a), n)[n]]
ImplementsMemory == Memory!Spec
=============================================================================
