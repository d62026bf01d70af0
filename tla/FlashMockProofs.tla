--------------------------- MODULE FlashMockProofs --------------------------
(***************************************************************************)
(* What FlashMock guarantees for every geometry: its vectors of chunks are *)
(* the bytes of a NOR FLASH, for clients that access it block by block.    *)
(***************************************************************************)
EXTENDS FlashMock, SequenceTheorems, FiniteSetTheorems, TLAPS

(* A chunk holds the first bytes of a block. *)
Chunk == [address : Blocks, buffer : {b \in Seq(Byte) : Len(b) \in 1 .. BlockSize}]

MockInv == flash \in [Sectors -> Seq(Chunk)] /\ ChunksAreUnique

-----------------------------------------------------------------------------
(* Division with remainder. *)
LEMMA Division ==
  ASSUME NEW a \in Int, NEW b \in Nat \ {0}
  PROVE  /\ a % b \in 0 .. b - 1 /\ a \div b \in Int
         /\ a = b * (a \div b) + (a % b)
OBVIOUS

LEMMA DivisionIsUnique ==
  ASSUME NEW b \in Nat \ {0}, NEW p \in Int, NEW q \in Int,
         NEW r \in 0 .. b - 1, NEW s \in 0 .. b - 1, b * p + r = b * q + s
  PROVE  p = q /\ r = s
<1>1. CASE p < q
  <2>1. q - p >= 1 /\ b * (q - p) = r - s
    BY <1>1
  <2>2. b * (q - p) >= b
    BY <2>1
  <2> QED BY <2>1, <2>2
<1>2. CASE p > q
  <2>1. p - q >= 1 /\ b * (p - q) = s - r
    BY <1>2
  <2>2. b * (p - q) >= b
    BY <2>1
  <2> QED BY <2>1, <2>2
<1> QED BY <1>1, <1>2

LEMMA DivisionIs ==
  ASSUME NEW b \in Nat \ {0}, NEW q \in Int, NEW r \in 0 .. b - 1
  PROVE  (b * q + r) \div b = q /\ (b * q + r) % b = r
<1> DEFINE a == b * q + r
<1>1. a \in Int
  OBVIOUS
<1>2. /\ a % b \in 0 .. b - 1 /\ a \div b \in Int
      /\ a = b * (a \div b) + (a % b)
  BY <1>1, Division
<1>3. b * (a \div b) + (a % b) = b * q + r
  BY <1>2
<1> HIDE DEF a
<1>4. a \div b = q /\ a % b = r
  BY <1>2, <1>3, DivisionIsUnique
<1> QED BY <1>4 DEF a

LEMMA Geometry ==
  /\ FLASHMOCK_NUMSECTORS \in Nat \ {0} /\ FLASHMOCK_SECTOR_SIZE \in Nat \ {0}
  /\ FLASHMOCK_FIRSTSECTOR_ADDRESS \in Nat /\ Word \in Nat \ {0}
  /\ BlockSize \in Nat \ {0} /\ FLASHMOCK_CHUNK_MAX \in Nat
  /\ FLASHMOCK_BUFFER_CHUNK_MAX \in Nat
  /\ FLASHMOCK_NUMSECTORS * FLASHMOCK_SECTOR_SIZE \in Nat \ {0}
  /\ LastAddress \in Nat /\ LastAddress < Word
  /\ LastAddress = FLASHMOCK_FIRSTSECTOR_ADDRESS
                     + FLASHMOCK_NUMSECTORS * FLASHMOCK_SECTOR_SIZE - 1
<1>1. FLASHMOCK_NUMSECTORS * FLASHMOCK_SECTOR_SIZE \in Nat \ {0}
  BY FlashGeometry
<1> QED BY <1>1, FlashGeometry, BlocksFillSectors, ChunkLimits DEF LastAddress

(* The distance from the first sector. *)
Offset(a) == a - FLASHMOCK_FIRSTSECTOR_ADDRESS

(* The test of the address for its sector, in unsigned arithmetic, is the  *)
(* one for the range of the device.                                        *)
LEMMA SectorTest ==
  /\ \A a \in Addresses : /\ a \in Words /\ address_to_sector(a)
                          /\ Sector(a) \in Sectors
                          /\ Sector(a) = Offset(a) \div FLASHMOCK_SECTOR_SIZE
  /\ \A a \in Words : address_to_sector(a) => a \in Addresses
<1> DEFINE S == FLASHMOCK_SECTOR_SIZE
           N == FLASHMOCK_NUMSECTORS
           F == FLASHMOCK_FIRSTSECTOR_ADDRESS
<1> USE Geometry
<1>1. ASSUME NEW d \in Nat
      PROVE  /\ d \div S \in Nat
             /\ d < N * S <=> d \div S < N
  <2> DEFINE q == d \div S
             r == d % S
  <2>1. q \in Int /\ r \in 0 .. S - 1 /\ d = S * q + r
    BY Division
  <2> HIDE DEF q, r
  <2>2. q >= 0
    <3> SUFFICES ASSUME q <= -1 PROVE FALSE
      BY <2>1
    <3>1. S * q <= -S
      BY <2>1
    <3> QED BY <2>1, <3>1
  <2>3. ASSUME q < N PROVE d < N * S
    <3>1. q + 1 <= N
      BY <2>1, <2>3
    <3>2. S * (q + 1) <= S * N
      BY <2>1, <3>1
    <3> QED BY <2>1, <3>2
  <2>4. ASSUME q >= N PROVE d >= N * S
    <3>1. S * q >= S * N
      BY <2>1, <2>4
    <3> QED BY <2>1, <3>1
  <2> QED BY <2>1, <2>2, <2>3, <2>4 DEF q
<1>2. ASSUME NEW a \in Addresses
      PROVE  /\ a \in Words /\ address_to_sector(a) /\ Sector(a) \in Sectors
             /\ Sector(a) = Offset(a) \div S
  <2>1. /\ Offset(a) \in Nat /\ Offset(a) < N * S /\ Offset(a) < Word
        /\ a \in Words
    BY DEF Addresses, Offset, Words
  <2>2. Sector(a) = Offset(a) \div S
    BY <2>1 DEF Sector, Offset
  <2> QED BY <1>1, <2>1, <2>2 DEF address_to_sector, Sectors
<1>3. ASSUME NEW a \in Words, address_to_sector(a) PROVE a \in Addresses
  <2>1. CASE a >= F
    <3>1. Offset(a) \in Nat /\ Offset(a) < Word
      BY <2>1 DEF Words, Offset
    <3>2. Offset(a) \div S < N
      BY <1>3, <3>1 DEF address_to_sector, Sector, Offset
    <3>3. a - F < N * S
      BY <1>1, <3>1, <3>2 DEF Offset
    <3>4. a \in Int /\ F \in Nat /\ N * S \in Nat /\ LastAddress = F + N * S - 1
      BY DEF Words
    <3>5. a \in F .. LastAddress
      BY <2>1, <3>3, <3>4
    <3> QED BY <3>5 DEF Addresses
  <2>2. CASE a < F
    <3>1. (a - F) % Word = a - F + Word /\ a - F + Word \in Nat
      BY <2>2 DEF Words
    <3>2. (a - F + Word) \div S < N
      BY <1>3, <3>1 DEF address_to_sector, Sector
    <3>3. a - F + Word < N * S
      BY <1>1, <3>1, <3>2
    <3> QED BY <3>3 DEF Words
  <2> QED BY <2>1, <2>2 DEF Words
<1> QED BY <1>2, <1>3

(* Blocks do not reach over the end of a sector. *)
LEMMA StartOfBlock ==
  \A a \in Addresses :
    /\ StartOf(a) \in Blocks /\ a - StartOf(a) \in 0 .. BlockSize - 1
    /\ Sector(StartOf(a)) = Sector(a)
<1> DEFINE S == FLASHMOCK_SECTOR_SIZE
           B == BlockSize
           F == FLASHMOCK_FIRSTSECTOR_ADDRESS
<1> USE Geometry
<1> SUFFICES ASSUME NEW a \in Addresses
             PROVE  /\ StartOf(a) \in Blocks
                    /\ a - StartOf(a) \in 0 .. BlockSize - 1
                    /\ Sector(StartOf(a)) = Sector(a)
  OBVIOUS
<1> DEFINE d == Offset(a)
           j == d \div B
           r == d % B
           q == d \div S
           t == d % S
           k == S \div B
<1>1. d \in Nat /\ a = F + d /\ a <= LastAddress
  BY DEF Addresses, Offset
<1> HIDE DEF d
<1>2. j \in Int /\ r \in 0 .. B - 1 /\ d = B * j + r
  BY <1>1, Division
<1>3. q \in Int /\ t \in 0 .. S - 1 /\ d = S * q + t
  BY <1>1, Division
<1>4. k \in Int /\ S = B * k
  <2>1. k \in Int /\ S = B * k + (S % B)
    BY Division
  <2> QED BY <2>1, BlocksFillSectors
<1>5. StartOf(a) = a - r
  BY DEF StartOf, Offset, d
<1> HIDE DEF j, r, q, t, k
<1>6. j >= 0
  <2> SUFFICES ASSUME j <= -1 PROVE FALSE
    BY <1>2
  <2>1. B * j <= -B
    BY <1>2
  <2> QED BY <1>1, <1>2, <2>1
<1>7. B * j \in Nat
  BY <1>2, <1>6
<1>8. StartOf(a) \in Addresses /\ Offset(StartOf(a)) = B * j
  <2>1. StartOf(a) = F + B * j
    BY <1>1, <1>2, <1>5, <1>7
  <2> QED BY <1>1, <1>2, <1>7, <2>1 DEF Addresses, Offset
<1>9. BlockStart(StartOf(a))
  <2>1. (B * j + 0) % B = 0
    BY <1>2, DivisionIs
  <2> QED BY <1>7, <1>8, <2>1 DEF BlockStart, Offset
<1>10. (B * j) \div S = q
  <2>1. S * q <= B * j
    <3> DEFINE m == k * q
    <3>1. m \in Int /\ B * m = S * q
      BY <1>3, <1>4
    <3> HIDE DEF m
    <3>2. m <= j
      <4> SUFFICES ASSUME m >= j + 1 PROVE FALSE
        BY <1>2, <3>1
      <4>1. B * m >= B * (j + 1)
        BY <1>2, <3>1
      <4>2. B * (j + 1) = B * j + B
        BY <1>2
      <4> QED BY <1>2, <1>3, <1>7, <3>1, <4>1, <4>2
    <3>3. B * m <= B * j
      BY <1>2, <3>1, <3>2
    <3> QED BY <3>1, <3>3
  <2>2. S * q \in Int
    BY <1>3
  <2>3. B * j - S * q \in 0 .. S - 1
    BY <1>2, <1>3, <1>7, <2>1, <2>2
  <2>4. S * q + (B * j - S * q) = B * j
    BY <1>7, <2>2
  <2>5. (S * q + (B * j - S * q)) \div S = q
    BY <1>3, <2>3, DivisionIs
  <2> QED BY <2>4, <2>5
<1>11. Sector(StartOf(a)) = Sector(a)
  BY <1>8, <1>10, SectorTest DEF q, d
<1>12. a - StartOf(a) \in 0 .. B - 1
  BY <1>1, <1>2, <1>5
<1> QED BY <1>8, <1>9, <1>11, <1>12 DEF Blocks

(* An address belongs to the block at whose first byte it is less than a   *)
(* block away.                                                             *)
LEMMA BlockOf ==
  ASSUME NEW a \in Blocks, NEW x \in Addresses, x - a \in 0 .. BlockSize - 1
  PROVE  StartOf(x) = a
<1> DEFINE B == BlockSize
           F == FLASHMOCK_FIRSTSECTOR_ADDRESS
           j == (a - F) \div B
           r == x - a
<1> USE Geometry
<1>1. a \in Int /\ x \in Int /\ r \in 0 .. B - 1
  BY DEF Blocks, Addresses
<1>2. j \in Int /\ a - F = B * j
  <2>1. j \in Int /\ a - F = B * j + ((a - F) % B)
    BY <1>1, Division
  <2> QED BY <2>1 DEF Blocks, BlockStart
<1>3. x - F = B * j + r
  BY <1>1, <1>2
<1> HIDE DEF j, r
<1>4. (B * j + r) % B = r
  BY <1>1, <1>2, DivisionIs
<1>5. StartOf(x) = x - r
  BY <1>3, <1>4 DEF StartOf
<1> QED BY <1>1, <1>5 DEF r

-----------------------------------------------------------------------------
LEMMA LeastOfOne == ASSUME NEW n \in Int PROVE Min({n}) = n
BY DEF Min

(* What the search by address comes to, as there is at most one chunk.     *)
Buffers ==
  \A a \in Addresses :
    LET chunks == flash[Sector(a)]
    IN  /\ BufferAt(a) \in Seq(Byte)
        /\ (\A n \in DOMAIN chunks : chunks[n].address # a) =>
             ChunksAt(a) = {} /\ BufferAt(a) = <<>>
        /\ \A n \in DOMAIN chunks : chunks[n].address = a =>
             ChunksAt(a) = {n} /\ BufferAt(a) = chunks[n].buffer

LEMMA BuffersAre == MockInv => Buffers
<1> SUFFICES ASSUME MockInv, NEW a \in Addresses
             PROVE  LET chunks == flash[Sector(a)]
                    IN  /\ BufferAt(a) \in Seq(Byte)
                        /\ (\A n \in DOMAIN chunks : chunks[n].address # a) =>
                             ChunksAt(a) = {} /\ BufferAt(a) = <<>>
                        /\ \A n \in DOMAIN chunks : chunks[n].address = a =>
                             /\ ChunksAt(a) = {n}
                             /\ BufferAt(a) = chunks[n].buffer
  BY DEF Buffers
<1> DEFINE chunks == flash[Sector(a)]
<1>1. Sector(a) \in Sectors
  BY SectorTest
<1>2. chunks \in Seq(Chunk) /\ DOMAIN chunks = 1 .. Len(chunks)
  BY <1>1 DEF MockInv
<1>3. \A m, n \in DOMAIN chunks : m # n => chunks[m].address # chunks[n].address
  BY <1>1 DEF MockInv, ChunksAreUnique
<1>4. ChunksAt(a) = {n \in DOMAIN chunks : chunks[n].address = a}
  BY DEF ChunksAt
<1>5. BufferAt(a) = IF ChunksAt(a) = {} THEN <<>>
                    ELSE chunks[Min(ChunksAt(a))].buffer
  BY DEF BufferAt
<1> HIDE DEF chunks
<1>6. (\A n \in DOMAIN chunks : chunks[n].address # a) =>
        ChunksAt(a) = {} /\ BufferAt(a) = <<>>
  BY <1>4, <1>5
<1>7. ASSUME NEW n \in DOMAIN chunks, chunks[n].address = a
      PROVE  ChunksAt(a) = {n} /\ BufferAt(a) = chunks[n].buffer
  <2>1. ChunksAt(a) = {n}
    BY <1>3, <1>4, <1>7
  <2>2. Min(ChunksAt(a)) = n
    BY <1>2, <2>1, LeastOfOne
  <2> QED BY <1>5, <2>1, <2>2
<1>8. BufferAt(a) \in Seq(Byte)
  <2>1. CASE \A n \in DOMAIN chunks : chunks[n].address # a
    BY <1>6, <2>1, EmptySeq
  <2>2. CASE \E n \in DOMAIN chunks : chunks[n].address = a
    <3>1. PICK n \in DOMAIN chunks : chunks[n].address = a
      BY <2>2
    <3>2. chunks[n] \in Chunk
      BY <1>2
    <3> QED BY <1>7, <3>1, <3>2 DEF Chunk
  <2> QED BY <2>1, <2>2
<1> QED BY <1>6, <1>7, <1>8 DEF chunks

LEMMA BuffersWillBe == MockInv' => Buffers'
BY BuffersAre, PTL

(* Bytes that were there lose the bits that are 0 in the new ones, further *)
(* bytes are appended.                                                     *)
LEMMA RewrittenIs ==
  ASSUME NEW old \in Seq(Byte), NEW data \in Seq(Byte)
  PROVE  /\ Rewritten(old, data) \in Seq(Byte)
         /\ Len(Rewritten(old, data)) =
              IF Len(old) <= Len(data) THEN Len(data) ELSE Len(old)
         /\ \A k \in 1 .. Len(Rewritten(old, data)) :
              Rewritten(old, data)[k] =
                IF k > Len(old) THEN data[k]
                ELSE IF k <= Len(data) THEN old[k] \cap data[k] ELSE old[k]
<1> DEFINE f == [k \in 1 .. Len(old) |->
                   IF k <= Len(data) THEN old[k] \cap data[k] ELSE old[k]]
           g == SubSeq(data, Len(old) + 1, Len(data))
<1>1. Len(old) \in Nat /\ Len(data) \in Nat
  OBVIOUS
<1>2. f \in Seq(Byte) /\ Len(f) = Len(old)
  <2>1. \A k \in 1 .. Len(old) :
          (IF k <= Len(data) THEN old[k] \cap data[k] ELSE old[k]) \in Byte
    <3> SUFFICES ASSUME NEW k \in 1 .. Len(old)
                 PROVE  /\ old[k] \in Byte
                        /\ old[k] \cap data[k] \in Byte
      OBVIOUS
    <3>1. old[k] \in Byte
      OBVIOUS
    <3> QED BY <3>1 DEF Byte
  <2> QED BY <1>1, <2>1
<1>3. /\ g \in Seq(Byte)
      /\ Len(g) = IF Len(old) <= Len(data) THEN Len(data) - Len(old) ELSE 0
      /\ \A k \in 1 .. Len(data) - Len(old) : g[k] = data[Len(old) + k]
  <2>1. \A k \in Len(old) + 1 .. Len(data) : data[k] \in Byte
    BY <1>1
  <2>2. Len(old) + 1 \in Int /\ Len(data) \in Int
    BY <1>1
  <2>3. /\ g \in Seq(Byte)
        /\ Len(g) = IF Len(old) + 1 <= Len(data)
                    THEN Len(data) - (Len(old) + 1) + 1 ELSE 0
        /\ \A k \in 1 .. Len(data) - (Len(old) + 1) + 1 :
             g[k] = data[Len(old) + 1 + k - 1]
    BY <2>1, <2>2, SubSeqProperties
  <2> HIDE DEF g
  <2> QED BY <1>1, <2>3
<1>4. /\ f \o g \in Seq(Byte) /\ Len(f \o g) = Len(f) + Len(g)
      /\ \A k \in 1 .. Len(f) + Len(g) :
           (f \o g)[k] = IF k <= Len(f) THEN f[k] ELSE g[k - Len(f)]
  BY <1>2, <1>3, ConcatProperties
<1>5. Rewritten(old, data) = f \o g
  BY DEF Rewritten
<1>6. \A k \in 1 .. Len(old) :
        f[k] = IF k <= Len(data) THEN old[k] \cap data[k] ELSE old[k]
  OBVIOUS
<1> HIDE DEF f, g
<1>7. Len(f \o g) = IF Len(old) <= Len(data) THEN Len(data) ELSE Len(old)
  BY <1>1, <1>2, <1>3, <1>4
<1>8. ASSUME NEW k \in 1 .. Len(f \o g)
      PROVE  (f \o g)[k] =
               IF k > Len(old) THEN data[k]
               ELSE IF k <= Len(data) THEN old[k] \cap data[k] ELSE old[k]
  <2>1. CASE k <= Len(old)
    <3>1. k \in 1 .. Len(old)
      BY <1>1, <2>1
    <3>2. (f \o g)[k] = f[k]
      BY <1>1, <1>2, <1>4, <2>1
    <3>3. ~(k > Len(old))
      BY <1>1, <3>1
    <3>4. f[k] = IF k <= Len(data) THEN old[k] \cap data[k] ELSE old[k]
      BY <1>6, <3>1
    <3> QED BY <3>2, <3>3, <3>4
  <2>2. CASE k > Len(old)
    <3>1. k - Len(old) \in 1 .. Len(data) - Len(old)
      BY <1>1, <1>7, <2>2
    <3>2. g[k - Len(old)] = data[Len(old) + (k - Len(old))]
      BY <1>3, <3>1
    <3>3. (f \o g)[k] = g[k - Len(old)]
      BY <1>1, <1>2, <1>4, <2>2
    <3>4. Len(old) + (k - Len(old)) = k
      BY <1>1
    <3> QED BY <2>2, <3>2, <3>3, <3>4
  <2> QED BY <1>1, <2>1, <2>2
<1> QED BY <1>4, <1>5, <1>7, <1>8

(* What is written first is what there is. *)
LEMMA WrittenFirst ==
  ASSUME NEW none \in Seq(Byte), Len(none) = 0, NEW data \in Seq(Byte)
  PROVE  Rewritten(none, data) = data
<1> DEFINE new == Rewritten(none, data)
<1>1. Len(data) \in Nat
  OBVIOUS
<1>2. /\ new \in Seq(Byte)
      /\ Len(new) = IF Len(none) <= Len(data) THEN Len(data) ELSE Len(none)
      /\ \A k \in 1 .. Len(new) :
           new[k] = IF k > Len(none) THEN data[k]
                    ELSE IF k <= Len(data) THEN none[k] \cap data[k] ELSE none[k]
  BY RewrittenIs
<1> HIDE DEF new
<1>3. Len(new) = Len(data)
  BY <1>1, <1>2
<1>4. ASSUME NEW k \in 1 .. Len(new) PROVE new[k] = data[k]
  <2>1. k > Len(none)
    BY <1>1, <1>3
  <2> QED BY <1>2, <2>1
<1>5. new = data
  BY <1>2, <1>3, <1>4, SeqEqual
<1> QED BY <1>5 DEF new

-----------------------------------------------------------------------------
LEMMA AcceptedWrites ==
  ASSUME NEW a \in Starts, NEW n \in Accesses, NEW data \in [1 .. n -> Byte],
         Accepts(a, data)
  PROVE  /\ a \in Blocks /\ a \in Addresses /\ Sector(a) \in Sectors
         /\ data \in Seq(Byte) /\ Len(data) = n
         /\ n \in 1 .. BlockSize /\ n <= FLASHMOCK_BUFFER_CHUNK_MAX
<1>1. n \in Nat \ {0}
  BY WritesStayInBlocks
<1>2. data \in Seq(Byte) /\ Len(data) = n
  BY <1>1
<1>3. n <= FLASHMOCK_BUFFER_CHUNK_MAX
  BY <1>2 DEF Accepts
<1>4. n \in 1 .. BlockSize
  BY <1>1, <1>3, WritesStayInBlocks, Geometry
<1>5. a \in Addresses
  BY SectorTest DEF Starts, Accepts
<1> QED BY <1>2, <1>3, <1>4, <1>5, SectorTest DEF Starts, Blocks

LEMMA WriteKeeps ==
  ASSUME MockInv, NEW a \in Starts, NEW n \in Accesses,
         NEW data \in [1 .. n -> Byte], Write(a, data)
  PROVE  /\ MockInv'
         /\ \A b \in Addresses :
              BufferAt(b)' = IF b = a THEN Rewritten(BufferAt(a), data)
                             ELSE BufferAt(b)
<1> DEFINE s == Sector(a)
           chunks == flash[s]
<1>1. /\ a \in Blocks /\ a \in Addresses /\ s \in Sectors
      /\ data \in Seq(Byte) /\ Len(data) = n /\ n \in 1 .. BlockSize
  BY AcceptedWrites DEF Write
<1>2. /\ chunks \in Seq(Chunk) /\ DOMAIN chunks = 1 .. Len(chunks)
      /\ Len(chunks) \in Nat /\ flash \in [Sectors -> Seq(Chunk)]
  BY <1>1 DEF MockInv
<1>3. /\ \A m \in DOMAIN chunks : Sector(chunks[m].address) = s
      /\ \A l, m \in DOMAIN chunks : l # m => chunks[l].address # chunks[m].address
  BY <1>1 DEF MockInv, ChunksAreUnique
<1>4. Buffers
  BY BuffersAre
<1>5. ASSUME NEW new, flash' = [flash EXCEPT ![s] = new], new \in Seq(Chunk),
             \A m \in DOMAIN new : Sector(new[m].address) = s,
             \A l, m \in DOMAIN new : l # m => new[l].address # new[m].address
      PROVE  MockInv' /\ flash'[s] = new
  <2>1. /\ flash' \in [Sectors -> Seq(Chunk)] /\ flash'[s] = new
        /\ \A t \in Sectors \ {s} : flash'[t] = flash[t]
    BY <1>1, <1>2, <1>5
  <2>2. ChunksAreUnique'
    BY <1>5, <2>1 DEF MockInv, ChunksAreUnique
  <2> QED BY <2>1, <2>2 DEF MockInv
<1>6. ASSUME NEW b \in Addresses, Sector(b) # s,
             flash' = [flash EXCEPT ![s] = flash'[s]]
      PROVE  BufferAt(b)' = BufferAt(b)
  <2>1. flash'[Sector(b)] = flash[Sector(b)]
    BY <1>2, <1>6, SectorTest
  <2> QED BY <2>1 DEF BufferAt, ChunksAt
<1> HIDE DEF s, chunks
<1>7. CASE ChunksAt(a) = {}
  <2> DEFINE c == [address |-> a, buffer |-> data]
             new == Append(chunks, c)
  <2>1. c \in Chunk /\ c.address = a /\ c.buffer = data
    BY <1>1 DEF Chunk
  <2>2. /\ new \in Seq(Chunk) /\ Len(new) = Len(chunks) + 1
        /\ \A m \in 1 .. Len(chunks) : new[m] = chunks[m]
        /\ new[Len(chunks) + 1] = c
    BY <1>2, <2>1, AppendProperties
  <2>3. flash' = [flash EXCEPT ![s] = new]
    BY <1>7 DEF Write, s, chunks
  <2> HIDE DEF new, c
  <2>4. DOMAIN new = 1 .. Len(chunks) + 1
    BY <2>2
  <2>5. \A m \in DOMAIN chunks : chunks[m].address # a
    BY <1>7 DEF ChunksAt, s, chunks
  <2>6. \A m \in DOMAIN new : m \in DOMAIN chunks \/ m = Len(chunks) + 1
    BY <1>2, <2>4
  <2>7. \A m \in DOMAIN new : Sector(new[m].address) = s
    BY <1>2, <1>3, <2>1, <2>2, <2>6 DEF s
  <2>8. \A l, m \in DOMAIN new : l # m => new[l].address # new[m].address
    BY <1>2, <1>3, <2>1, <2>2, <2>5, <2>6
  <2>9. MockInv' /\ flash'[s] = new
    BY <1>5, <2>2, <2>3, <2>7, <2>8
  <2>10. Buffers'
    BY <2>9, BuffersWillBe
  <2>11. ASSUME NEW b \in Addresses
         PROVE  BufferAt(b)' = IF b = a THEN Rewritten(BufferAt(a), data)
                               ELSE BufferAt(b)
    <3>1. CASE Sector(b) # s
      BY <1>6, <2>3, <2>9, <3>1 DEF s
    <3>2. CASE Sector(b) = s /\ b = a
      <4>1. BufferAt(a) = <<>>
        BY <1>1, <1>4, <2>5 DEF Buffers, s, chunks
      <4>2. BufferAt(a)' = data
        <5>1. Len(chunks) + 1 \in DOMAIN new
          BY <1>2, <2>4
        <5> QED BY <1>1, <2>1, <2>2, <2>9, <2>10, <5>1 DEF Buffers, s
      <4>3. Rewritten(BufferAt(a), data) = data
        BY <1>1, <4>1, WrittenFirst, EmptySeq
      <4> QED BY <3>2, <4>2, <4>3
    <3>3. CASE Sector(b) = s /\ b # a
      <4>1. CASE \E m \in DOMAIN chunks : chunks[m].address = b
        <5>1. PICK m \in DOMAIN chunks : chunks[m].address = b
          BY <4>1
        <5>2. BufferAt(b) = chunks[m].buffer
          BY <1>4, <3>3, <5>1 DEF Buffers, chunks
        <5>3. m \in DOMAIN new /\ new[m] = chunks[m]
          BY <1>2, <2>2, <2>4, <5>1
        <5>4. BufferAt(b)' = new[m].buffer
          BY <2>9, <2>10, <3>3, <5>1, <5>3 DEF Buffers
        <5> QED BY <3>3, <5>2, <5>3, <5>4
      <4>2. CASE \A m \in DOMAIN chunks : chunks[m].address # b
        <5>1. BufferAt(b) = <<>>
          BY <1>4, <3>3, <4>2 DEF Buffers, chunks
        <5>2. \A m \in DOMAIN new : new[m].address # b
          BY <1>2, <2>1, <2>2, <2>6, <3>3, <4>2
        <5>3. BufferAt(b)' = <<>>
          BY <2>9, <2>10, <3>3, <5>2 DEF Buffers
        <5> QED BY <3>3, <5>1, <5>3
      <4> QED BY <4>1, <4>2
    <3> QED BY <3>1, <3>2, <3>3
  <2> QED BY <2>9, <2>11
<1>8. CASE ChunksAt(a) # {}
  <2>1. PICK p \in DOMAIN chunks : chunks[p].address = a
    BY <1>8 DEF ChunksAt, s, chunks
  <2>2. /\ ChunksAt(a) = {p} /\ BufferAt(a) = chunks[p].buffer
        /\ BufferAt(a) \in Seq(Byte)
    BY <1>1, <1>4, <2>1 DEF Buffers, s, chunks
  <2>3. Min(ChunksAt(a)) = p
    BY <1>2, <2>1, <2>2, LeastOfOne
  <2> DEFINE c == [chunks[p] EXCEPT !.buffer = Rewritten(BufferAt(a), data)]
             new == [chunks EXCEPT ![p] = c]
  <2>4. chunks[p] \in Chunk /\ chunks[p].address = a
    BY <1>2, <2>1
  <2>5. c \in Chunk /\ c.address = a /\ c.buffer = Rewritten(BufferAt(a), data)
    <3>1. /\ Rewritten(BufferAt(a), data) \in Seq(Byte)
          /\ Len(Rewritten(BufferAt(a), data)) =
               IF Len(BufferAt(a)) <= n THEN n ELSE Len(BufferAt(a))
      BY <1>1, <2>2, RewrittenIs
    <3>2. Len(BufferAt(a)) \in 1 .. BlockSize
      BY <2>2, <2>4 DEF Chunk
    <3>3. Len(Rewritten(BufferAt(a), data)) \in 1 .. BlockSize
      BY <1>1, <3>1, <3>2
    <3> QED BY <2>4, <3>1, <3>3 DEF Chunk
  <2>6. flash' = [flash EXCEPT ![s] = new]
    BY <1>8, <2>3 DEF Write, s, chunks
  <2>7. /\ new \in Seq(Chunk) /\ DOMAIN new = DOMAIN chunks /\ new[p] = c
        /\ \A m \in DOMAIN chunks : m # p => new[m] = chunks[m]
    BY <1>2, <2>1, <2>5
  <2> HIDE DEF new, c
  <2>8. \A m \in DOMAIN new : new[m].address = chunks[m].address
    BY <2>1, <2>5, <2>7
  <2>9. MockInv' /\ flash'[s] = new
    <3>1. \A m \in DOMAIN new : Sector(new[m].address) = s
      BY <1>3, <2>7, <2>8
    <3>2. \A l, m \in DOMAIN new : l # m => new[l].address # new[m].address
      BY <1>3, <2>7, <2>8
    <3> QED BY <1>5, <2>6, <2>7, <3>1, <3>2
  <2>10. Buffers'
    BY <2>9, BuffersWillBe
  <2>11. ASSUME NEW b \in Addresses
         PROVE  BufferAt(b)' = IF b = a THEN Rewritten(BufferAt(a), data)
                               ELSE BufferAt(b)
    <3>1. CASE Sector(b) # s
      BY <1>6, <2>6, <2>9, <3>1 DEF s
    <3>2. CASE Sector(b) = s /\ b = a
      <4>1. BufferAt(a)' = new[p].buffer
        BY <1>1, <2>1, <2>7, <2>8, <2>9, <2>10 DEF Buffers, s
      <4> QED BY <2>5, <2>7, <3>2, <4>1
    <3>3. CASE Sector(b) = s /\ b # a
      <4>1. CASE \E m \in DOMAIN chunks : chunks[m].address = b
        <5>1. PICK m \in DOMAIN chunks : chunks[m].address = b
          BY <4>1
        <5>2. BufferAt(b) = chunks[m].buffer
          BY <1>4, <3>3, <5>1 DEF Buffers, chunks
        <5>3. m \in DOMAIN new /\ new[m] = chunks[m]
          BY <2>1, <2>7, <3>3, <5>1
        <5>4. BufferAt(b)' = new[m].buffer
          BY <2>9, <2>10, <3>3, <5>1, <5>3 DEF Buffers
        <5> QED BY <3>3, <5>2, <5>3, <5>4
      <4>2. CASE \A m \in DOMAIN chunks : chunks[m].address # b
        <5>1. BufferAt(b) = <<>>
          BY <1>4, <3>3, <4>2 DEF Buffers, chunks
        <5>2. \A m \in DOMAIN new : new[m].address # b
          BY <2>7, <2>8, <4>2
        <5>3. BufferAt(b)' = <<>>
          BY <2>9, <2>10, <3>3, <5>2 DEF Buffers
        <5> QED BY <3>3, <5>1, <5>3
      <4> QED BY <4>1, <4>2
    <3> QED BY <3>1, <3>2, <3>3
  <2> QED BY <2>9, <2>11
<1> QED BY <1>7, <1>8

LEMMA EraseKeeps ==
  ASSUME MockInv, NEW a \in Words, Erase(a)
  PROVE  /\ MockInv' /\ a \in Addresses
         /\ \A b \in Addresses :
              BufferAt(b)' = IF Sector(b) = Sector(a) THEN <<>> ELSE BufferAt(b)
<1> DEFINE s == Sector(a)
<1>1. a \in Addresses /\ s \in Sectors /\ flash' = [flash EXCEPT ![s] = <<>>]
  BY SectorTest DEF Erase
<1>2. flash \in [Sectors -> Seq(Chunk)] /\ ChunksAreUnique
  BY DEF MockInv
<1>3. /\ flash' \in [Sectors -> Seq(Chunk)] /\ flash'[s] = <<>>
      /\ \A t \in Sectors \ {s} : flash'[t] = flash[t]
  BY <1>1, <1>2, EmptySeq
<1>4. MockInv'
  BY <1>2, <1>3 DEF MockInv, ChunksAreUnique
<1>5. Buffers'
  BY <1>4, BuffersWillBe
<1>6. ASSUME NEW b \in Addresses
      PROVE  BufferAt(b)' = IF Sector(b) = Sector(a) THEN <<>> ELSE BufferAt(b)
  <2>1. CASE Sector(b) = s
    <3>1. DOMAIN flash'[Sector(b)] = {}
      BY <1>3, <2>1
    <3> QED BY <1>5, <2>1, <3>1 DEF Buffers
  <2>2. CASE Sector(b) # s
    <3>1. flash'[Sector(b)] = flash[Sector(b)]
      BY <1>3, <2>2, SectorTest
    <3> QED BY <2>2, <3>1 DEF BufferAt, ChunksAt
  <2> QED BY <2>1, <2>2
<1> QED BY <1>1, <1>4, <1>6

LEMMA MockInit == Init => MockInv
<1> SUFFICES ASSUME Init PROVE MockInv
  OBVIOUS
<1>1. flash \in [Sectors -> Seq(Chunk)]
  BY EmptySeq DEF Init
<1>2. \A s \in Sectors : DOMAIN flash[s] = {}
  BY DEF Init
<1> QED BY <1>1, <1>2 DEF MockInv, ChunksAreUnique

LEMMA MockStep == MockInv /\ [Next]_flash => MockInv'
<1> SUFFICES ASSUME MockInv, [Next]_flash PROVE MockInv'
  OBVIOUS
<1>1. ASSUME NEW a \in Starts, NEW n \in Accesses, NEW data \in [1 .. n -> Byte],
             Write(a, data)
      PROVE  MockInv'
  BY <1>1, WriteKeeps
<1>2. ASSUME NEW a \in Words, Erase(a) PROVE MockInv'
  BY <1>2, EraseKeeps
<1>3. CASE UNCHANGED flash
  BY <1>3 DEF MockInv, ChunksAreUnique
<1> QED BY <1>1, <1>2, <1>3 DEF Next

THEOREM MockInvHolds == Spec => []MockInv
BY MockInit, MockStep, PTL DEF Spec

(* The variables have their types: chunks lie in the range of the device   *)
(* and do not reach beyond their blocks.                                   *)
THEOREM TypeCorrect == Spec => []TypeOK
<1>1. MockInv => TypeOK
  <2> SUFFICES ASSUME MockInv PROVE TypeOK
    OBVIOUS
  <2>1. DOMAIN flash = Sectors
    BY DEF MockInv
  <2>2. ASSUME NEW s \in Sectors, NEW n \in DOMAIN flash[s]
        PROVE  flash[s][n] \in Chunk
    BY DEF MockInv
  <2> QED BY <2>1, <2>2 DEF TypeOK, Chunk, Blocks
<1> QED BY <1>1, MockInvHolds, PTL

(* A block has at most one chunk, in its own sector.                       *)
THEOREM ChunksUnique == Spec => []ChunksAreUnique
<1>1. MockInv => ChunksAreUnique
  BY DEF MockInv
<1> QED BY <1>1, MockInvHolds, PTL

-----------------------------------------------------------------------------
(* A byte of the memory, as the refinement mapping has it.                 *)
ByteAt(x) ==
  LET k == x - StartOf(x) + 1
  IN  IF k <= Len(BufferAt(StartOf(x))) THEN BufferAt(StartOf(x))[k] ELSE Clean

LEMMA BytesAre ==
  ASSUME NEW x \in Addresses
  PROVE  (LET n == x - StartOf(x) + 1 IN BytesAt(StartOf(x), n)[n]) = ByteAt(x)
<1> DEFINE n == x - StartOf(x) + 1
<1>1. n \in Nat \ {0}
  BY StartOfBlock, Geometry
<1> HIDE DEF n
<1>2. n \in 1 .. n
  BY <1>1
<1>3. BytesAt(StartOf(x), n)[n] =
        IF n <= Len(BufferAt(StartOf(x))) THEN BufferAt(StartOf(x))[n] ELSE Clean
  BY <1>2 DEF BytesAt
<1> QED BY <1>3 DEF ByteAt, n

(* A write clears the bits that are 0 in the data.                         *)
LEMMA WriteClears ==
  ASSUME MockInv, NEW a \in Starts, NEW n \in Accesses,
         NEW data \in [1 .. n -> Byte], Write(a, data), NEW x \in Addresses
  PROVE  ByteAt(x)' = IF x - a \in 0 .. Len(data) - 1
                      THEN ByteAt(x) \cap data[x - a + 1] ELSE ByteAt(x)
<1> DEFINE b == StartOf(x)
           k == x - b + 1
           old == BufferAt(b)
           new == BufferAt(b)'
<1>1. /\ a \in Blocks /\ a \in Addresses /\ data \in Seq(Byte) /\ Len(data) = n
      /\ n \in 1 .. BlockSize
  BY AcceptedWrites DEF Write
<1>2. b \in Blocks /\ b \in Addresses /\ x - b \in 0 .. BlockSize - 1
  BY StartOfBlock DEF Blocks
<1>3. a \in Int /\ b \in Int /\ x \in Int /\ n \in Nat /\ BlockSize \in Nat
  BY <1>1, <1>2, Geometry DEF Addresses
<1>4. old \in Seq(Byte) /\ Len(old) \in Nat
  BY <1>2, BuffersAre DEF Buffers
<1>5. new = IF b = a THEN Rewritten(BufferAt(a), data) ELSE old
  BY <1>2, WriteKeeps
<1>6. /\ ByteAt(x) = IF k <= Len(old) THEN old[k] ELSE Clean
      /\ ByteAt(x)' = IF k <= Len(new) THEN new[k] ELSE Clean
  BY DEF ByteAt, StartOf
<1> HIDE DEF b, old, new
<1>7. CASE b # a
  <2>1. x - a \notin 0 .. n - 1
    <3> SUFFICES ASSUME x - a \in 0 .. n - 1 PROVE FALSE
      OBVIOUS
    <3>1. x - a \in 0 .. BlockSize - 1
      BY <1>1, <1>3
    <3> QED BY <1>1, <1>7, <3>1, BlockOf DEF b
  <2> QED BY <1>1, <1>5, <1>6, <1>7, <2>1
<1>8. CASE b = a
  <2>1. /\ new \in Seq(Byte)
        /\ Len(new) = IF Len(old) <= n THEN n ELSE Len(old)
        /\ \A i \in 1 .. Len(new) :
             new[i] = IF i > Len(old) THEN data[i]
                      ELSE IF i <= n THEN old[i] \cap data[i] ELSE old[i]
    <3>1. new = Rewritten(old, data)
      BY <1>5, <1>8 DEF old, b
    <3>2. /\ Rewritten(old, data) \in Seq(Byte)
          /\ Len(Rewritten(old, data)) =
               IF Len(old) <= Len(data) THEN Len(data) ELSE Len(old)
          /\ \A i \in 1 .. Len(Rewritten(old, data)) :
               Rewritten(old, data)[i] =
                 IF i > Len(old) THEN data[i]
                 ELSE IF i <= Len(data) THEN old[i] \cap data[i] ELSE old[i]
      BY <1>1, <1>4, RewrittenIs
    <3> QED BY <1>1, <3>1, <3>2
  <2>2. k \in 1 .. BlockSize /\ k = x - a + 1
    BY <1>2, <1>3, <1>8
  <2> HIDE DEF k
  <2>3. x - a \in 0 .. n - 1 <=> k <= n
    BY <1>2, <1>3, <1>8, <2>2
  <2>4. CASE k <= n /\ k <= Len(old)
    <3>1. k \in 1 .. Len(new) /\ ~(k > Len(old))
      BY <1>3, <1>4, <2>1, <2>2, <2>4
    <3>2. new[k] = old[k] \cap data[k]
      BY <2>1, <2>4, <3>1
    <3>3. k <= Len(new)
      BY <3>1, <2>2
    <3> QED BY <1>1, <1>6, <2>2, <2>3, <2>4, <3>2, <3>3
  <2>5. CASE k <= n /\ k > Len(old)
    <3>1. k \in 1 .. Len(new) /\ ~(k <= Len(old)) /\ k \in 1 .. n
      BY <1>3, <1>4, <2>1, <2>2, <2>5
    <3>2. new[k] = data[k]
      BY <2>1, <2>5, <3>1
    <3>4. k <= Len(new)
      BY <2>2, <3>1
    <3>3. data[k] = Clean \cap data[k]
      BY <3>1 DEF Clean, Byte
    <3> QED BY <1>1, <1>6, <2>2, <2>3, <2>5, <3>1, <3>2, <3>3, <3>4
  <2>6. CASE k > n
    <3>1. ~(k <= n) /\ (k <= Len(new) <=> k <= Len(old))
      BY <1>3, <1>4, <2>1, <2>2, <2>6
    <3>2. ASSUME k <= Len(old) PROVE new[k] = old[k]
      <4>1. k \in 1 .. Len(new) /\ ~(k > Len(old))
        BY <1>4, <2>1, <2>2, <3>1, <3>2
      <4> QED BY <2>1, <3>1, <4>1
    <3> QED BY <1>1, <1>6, <2>3, <3>1, <3>2
  <2> QED BY <1>3, <1>4, <2>2, <2>4, <2>5, <2>6
<1> QED BY <1>7, <1>8

(* An erase blanks the bytes of its sector.                                *)
LEMMA EraseBlanks ==
  ASSUME MockInv, NEW a \in Words, Erase(a), NEW x \in Addresses
  PROVE  ByteAt(x)' = IF Sector(x) = Sector(a) THEN Clean ELSE ByteAt(x)
<1> DEFINE b == StartOf(x)
           k == x - b + 1
           old == BufferAt(b)
           new == BufferAt(b)'
<1>1. b \in Addresses /\ x - b \in 0 .. BlockSize - 1 /\ Sector(b) = Sector(x)
  BY StartOfBlock DEF Blocks
<1>2. k \in Nat \ {0}
  BY <1>1, Geometry DEF Addresses
<1>3. new = IF Sector(b) = Sector(a) THEN <<>> ELSE old
  BY <1>1, EraseKeeps
<1>4. /\ ByteAt(x) = IF k <= Len(old) THEN old[k] ELSE Clean
      /\ ByteAt(x)' = IF k <= Len(new) THEN new[k] ELSE Clean
  BY DEF ByteAt, StartOf
<1> HIDE DEF b, k, old, new
<1>5. CASE Sector(x) = Sector(a)
  <2>1. Len(new) = 0
    BY <1>1, <1>3, <1>5
  <2>2. ~(k <= Len(new))
    BY <1>2, <2>1
  <2> QED BY <1>4, <1>5, <2>2
<1>6. CASE Sector(x) # Sector(a)
  BY <1>1, <1>3, <1>4, <1>6
<1> QED BY <1>5, <1>6

(* The refinement mapping, byte by byte.                                   *)
Mapped == [a \in Addresses |->
             LET n == a - StartOf(a) + 1 IN BytesAt(StartOf(a), n)[n]]
Mapping == Mapped = [x \in Addresses |-> ByteAt(x)]

LEMMA MappingHolds == Mapping
BY BytesAre DEF Mapping, Mapped

LEMMA MappingWillHold == Mapping'
BY MappingHolds, PTL

LEMMA MemoryInit == Init => Memory!Init
<1> SUFFICES ASSUME Init PROVE Memory!Init
  OBVIOUS
<1>1. ASSUME NEW x \in Addresses PROVE ByteAt(x) = Clean
  <2> DEFINE b == StartOf(x)
             k == x - b + 1
  <2>1. b \in Addresses /\ x - b \in 0 .. BlockSize - 1 /\ Sector(b) \in Sectors
    BY StartOfBlock, SectorTest DEF Blocks
  <2>2. k \in Nat \ {0}
    BY <2>1, Geometry DEF Addresses
  <2>3. flash[Sector(b)] = <<>>
    BY <2>1 DEF Init
  <2>4. ChunksAt(b) = {}
    BY <2>3 DEF ChunksAt
  <2>5. BufferAt(b) = <<>>
    BY <2>4 DEF BufferAt
  <2>6. Len(BufferAt(b)) = 0
    BY <2>5
  <2> HIDE DEF b, k
  <2>7. ~(k <= Len(BufferAt(b)))
    BY <2>2, <2>6
  <2> QED BY <2>7 DEF ByteAt, b, k
<1>2. Mapped = [x \in Addresses |-> Clean]
  BY <1>1, MappingHolds DEF Mapping
<1> QED BY <1>2 DEF Memory!Init, Memory!Blank, Clean, Mapped

LEMMA MemoryStep == MockInv /\ [Next]_flash => [Memory!Next]_Mapped
<1> SUFFICES ASSUME MockInv, [Next]_flash
             PROVE  Memory!Next \/ Mapped' = Mapped
  OBVIOUS
<1>1. /\ Mapped = [x \in Addresses |-> ByteAt(x)]
      /\ Mapped' = [x \in Addresses |-> ByteAt(x)']
  BY MappingHolds, MappingWillHold DEF Mapping
<1>2. ASSUME NEW a \in Starts, NEW n \in Accesses, NEW data \in [1 .. n -> Byte],
             Write(a, data)
      PROVE  Memory!Next
  <2>1. /\ a \in Addresses /\ n <= FLASHMOCK_BUFFER_CHUNK_MAX
        /\ data \in [1 .. n -> SUBSET Bits]
    BY <1>2, AcceptedWrites DEF Write, Byte
  <2>2. \A x \in Addresses :
          ByteAt(x)' = IF x - a \in 0 .. Len(data) - 1
                       THEN ByteAt(x) \cap data[x - a + 1] ELSE ByteAt(x)
    BY <1>2, WriteClears
  <2>3. Mapped' = [x \in Addresses |->
                     IF x - a \in 0 .. Len(data) - 1
                     THEN Mapped[x] \cap data[x - a + 1] ELSE Mapped[x]]
    BY <1>1, <2>2
  <2>4. Memory!Write(a, data)
    BY <2>3 DEF Memory!Write, Mapped
  <2> QED BY <2>1, <2>4 DEF Memory!Next
<1>3. ASSUME NEW a \in Words, Erase(a) PROVE Memory!Next
  <2>1. a \in Addresses
    BY <1>3, EraseKeeps
  <2>2. \A x \in Addresses :
          ByteAt(x)' = IF Sector(x) = Sector(a) THEN Clean ELSE ByteAt(x)
    BY <1>3, EraseBlanks
  <2>3. Mapped' = [x \in Addresses |->
                     IF Sector(x) = Sector(a) THEN Clean ELSE Mapped[x]]
    BY <1>1, <2>2
  <2>4. Memory!Erase(a)
    BY <2>3 DEF Memory!Erase, Memory!Blank, Clean, Mapped
  <2> QED BY <2>1, <2>4 DEF Memory!Next
<1>4. CASE UNCHANGED flash
  BY <1>4 DEF Mapped, BytesAt, BufferAt, ChunksAt
<1> QED BY <1>2, <1>3, <1>4 DEF Next

(* The mock implements the bytes of a NOR FLASH: whatever blocks are       *)
(* written, again or not, and in whatever order sectors are erased, what a *)
(* read puts into the buffer is what the device would hold.                *)
THEOREM MemoryImplemented == Spec => ImplementsMemory
BY MemoryInit, MemoryStep, MockInvHolds, PTL
   DEF Spec, ImplementsMemory, Memory!Spec, Mapped

-----------------------------------------------------------------------------
(* The limit of chunks allows for one chunk for each block of a sector. *)
EnoughChunks == FLASHMOCK_SECTOR_SIZE \div BlockSize <= FLASHMOCK_CHUNK_MAX

(* The number of a block in the whole device. *)
BlockNumber(a) == Offset(a) \div BlockSize

LEMMA BlockNumbers ==
  ASSUME NEW a \in Blocks
  PROVE  LET m == FLASHMOCK_SECTOR_SIZE \div BlockSize
         IN  /\ BlockNumber(a) \in m * Sector(a) .. m * Sector(a) + m - 1
             /\ BlockNumber(a) \in Int
             /\ a = FLASHMOCK_FIRSTSECTOR_ADDRESS + BlockSize * BlockNumber(a)
<1> DEFINE S == FLASHMOCK_SECTOR_SIZE
           B == BlockSize
           F == FLASHMOCK_FIRSTSECTOR_ADDRESS
           m == S \div B
           d == Offset(a)
           j == d \div B
           q == d \div S
           t == d % S
           c == j - m * q
<1> USE Geometry
<1>1. d \in Int /\ a = F + d
  BY DEF Blocks, Addresses, Offset
<1>2. d % B = 0 /\ Sector(a) = q
  BY SectorTest DEF Blocks, BlockStart, Offset
<1> HIDE DEF d
<1>3. j \in Int /\ d = B * j
  <2>1. j \in Int /\ d = B * j + (d % B)
    BY <1>1, Division
  <2> QED BY <1>2, <2>1
<1>4. q \in Int /\ t \in 0 .. S - 1 /\ d = S * q + t
  BY <1>1, Division
<1>5. m \in Int /\ S = B * m
  <2>1. m \in Int /\ S = B * m + (S % B)
    BY Division
  <2> QED BY <2>1, BlocksFillSectors
<1> HIDE DEF j, q, t, m
<1>6. m * q \in Int /\ B * (m * q) = S * q
  BY <1>4, <1>5
<1>7. c \in Int /\ B * c = t
  <2>1. B * (j - m * q) = B * j - B * (m * q)
    BY <1>3, <1>6
  <2> QED BY <1>3, <1>4, <1>6, <2>1
<1> HIDE DEF c
<1>8. c >= 0
  <2> SUFFICES ASSUME c <= -1 PROVE FALSE
    BY <1>7
  <2>1. B * c <= -B
    BY <1>7
  <2> QED BY <1>4, <1>7, <2>1
<1>9. c <= m - 1
  <2> SUFFICES ASSUME c >= m PROVE FALSE
    BY <1>5, <1>7
  <2>1. B * c >= B * m
    BY <1>5, <1>7
  <2> QED BY <1>4, <1>5, <1>7, <2>1
<1>10. j \in m * q .. m * q + m - 1
  BY <1>3, <1>5, <1>6, <1>7, <1>8, <1>9 DEF c
<1> QED BY <1>1, <1>2, <1>3, <1>10 DEF BlockNumber, d, j, m

(* A sector has no more chunks than blocks: two chunks of a sector differ  *)
(* in their blocks, whose numbers lie in the range of the sector.          *)
LEMMA ChunksAreFew ==
  ASSUME MockInv, NEW s \in Sectors
  PROVE  Len(flash[s]) <= FLASHMOCK_SECTOR_SIZE \div BlockSize
<1> DEFINE chunks == flash[s]
           m == FLASHMOCK_SECTOR_SIZE \div BlockSize
           Numbers == m * s .. m * s + m - 1
           f == [n \in 1 .. Len(chunks) |-> BlockNumber(chunks[n].address)]
<1>1. chunks \in Seq(Chunk) /\ Len(chunks) \in Nat
  BY DEF MockInv
<1>2. \A n \in 1 .. Len(chunks) :
        chunks[n].address \in Blocks /\ Sector(chunks[n].address) = s
  <2> SUFFICES ASSUME NEW n \in 1 .. Len(chunks)
               PROVE  /\ chunks[n].address \in Blocks
                      /\ Sector(chunks[n].address) = s
    OBVIOUS
  <2>1. n \in DOMAIN chunks /\ chunks[n] \in Chunk
    BY <1>1
  <2>2. chunks[n].address \in Blocks
    BY <2>1 DEF Chunk
  <2> QED BY <2>1, <2>2 DEF MockInv, ChunksAreUnique
<1>3. \A n, k \in 1 .. Len(chunks) :
        n # k => chunks[n].address # chunks[k].address
  BY <1>1 DEF MockInv, ChunksAreUnique
<1>4. m \in Int /\ s \in Int /\ m * s \in Int /\ m >= 0
  <2>1. m \in Int /\ FLASHMOCK_SECTOR_SIZE = BlockSize * m
    <3>1. /\ m \in Int
          /\ FLASHMOCK_SECTOR_SIZE = BlockSize * m + (FLASHMOCK_SECTOR_SIZE % BlockSize)
      BY Geometry, Division
    <3> QED BY <3>1, Geometry, BlocksFillSectors
  <2> HIDE DEF m
  <2>2. m >= 0
    <3> SUFFICES ASSUME m <= -1 PROVE FALSE
      BY <2>1
    <3>1. BlockSize * m <= -BlockSize
      BY <2>1, Geometry
    <3> QED BY <2>1, <3>1, Geometry
  <2> QED BY <2>1, <2>2 DEF Sectors
<1>5. \A n \in 1 .. Len(chunks) : BlockNumber(chunks[n].address) \in Numbers
  BY <1>2, BlockNumbers
<1>6. \A n, k \in 1 .. Len(chunks) :
        BlockNumber(chunks[n].address) = BlockNumber(chunks[k].address) => n = k
  <2> SUFFICES ASSUME NEW n \in 1 .. Len(chunks), NEW k \in 1 .. Len(chunks),
                      BlockNumber(chunks[n].address) = BlockNumber(chunks[k].address)
               PROVE  n = k
    OBVIOUS
  <2>1. chunks[n].address = chunks[k].address
    BY <1>2, BlockNumbers
  <2> QED BY <1>3, <2>1
<1> HIDE DEF chunks, m
<1>7. f \in [1 .. Len(chunks) -> Numbers]
  BY <1>5
<1>8. IsFiniteSet(Numbers) /\ Cardinality(Numbers) = m
  <2>1. /\ IsFiniteSet(Numbers)
        /\ Cardinality(Numbers) =
             IF m * s > m * s + m - 1 THEN 0 ELSE (m * s + m - 1) - m * s + 1
    BY <1>4, FS_Interval
  <2> QED BY <1>4, <2>1
<1>9. IsFiniteSet(1 .. Len(chunks)) /\ Cardinality(1 .. Len(chunks)) = Len(chunks)
  <2>1. /\ IsFiniteSet(1 .. Len(chunks))
        /\ Cardinality(1 .. Len(chunks)) =
             IF 1 > Len(chunks) THEN 0 ELSE Len(chunks) - 1 + 1
    BY <1>1, FS_Interval
  <2> QED BY <1>1, <2>1
<1>10. ASSUME m < Len(chunks) PROVE FALSE
  <2>1. \A n \in 1 .. Len(chunks) : f[n] = BlockNumber(chunks[n].address)
    OBVIOUS
  <2>2. Cardinality(Numbers) < Cardinality(1 .. Len(chunks))
    BY <1>8, <1>9, <1>10
  <2> HIDE DEF f, Numbers
  <2>3. \E n, k \in 1 .. Len(chunks) : n # k /\ f[n] = f[k]
    BY <1>7, <1>8, <1>9, <2>2, FS_PigeonHole
  <2> QED BY <1>6, <2>1, <2>3
<1> QED BY <1>1, <1>4, <1>10 DEF chunks, m

(* With one chunk for each block the limit of chunks (FlashMock.cc line    *)
(* 91) never drops a write, although the test lets it be exceeded by one.  *)
THEOREM NoWriteIsDropped ==
  ASSUME EnoughChunks PROVE Spec => []NothingIsDropped
<1>1. MockInv => NothingIsDropped
  <2> SUFFICES ASSUME MockInv, NEW a \in Blocks, NEW n \in Accesses,
                      n <= FLASHMOCK_BUFFER_CHUNK_MAX
               PROVE  Accepts(a, [k \in 1 .. n |-> Clean])
    BY DEF NothingIsDropped
  <2>1. n \in Nat \ {0}
    BY WritesStayInBlocks
  <2>2. Len([k \in 1 .. n |-> Clean]) = n
    BY <2>1
  <2>3. a \in Addresses /\ address_to_sector(a) /\ Sector(a) \in Sectors
    BY SectorTest DEF Blocks
  <2>4. Len(flash[Sector(a)]) <= FLASHMOCK_SECTOR_SIZE \div BlockSize
    BY <2>3, ChunksAreFew
  <2>5. /\ Len(flash[Sector(a)]) \in Nat
        /\ FLASHMOCK_SECTOR_SIZE \div BlockSize \in Int
    BY <2>3, Geometry, Division DEF MockInv
  <2>6. Len(flash[Sector(a)]) <= FLASHMOCK_CHUNK_MAX
    BY <2>4, <2>5, Geometry DEF EnoughChunks
  <2> QED BY <2>2, <2>3, <2>6 DEF Accepts
<1> QED BY <1>1, MockInvHolds, PTL
=============================================================================
