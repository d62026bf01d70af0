---------------------------- MODULE WormvarsProofs ---------------------------
(***************************************************************************)
(* Proofs about wormvars for every geometry, every number of variables and *)
(* every set of contents, of what needs no other hypothesis: the types, the*)
(* nesting of calls, and the parts of the inductive invariant that hold by *)
(* themselves, which are about the cells and the index.                    *)
(***************************************************************************)
EXTENDS WormvarsInv, SequenceTheorems, FiniteSetTheorems, TLAPS

-----------------------------------------------------------------------------
(* Cells keep their type whatever is written on them.                      *)
LEMMA ProgramType ==
  ASSUME NEW c \in Cell, NEW w \in Cell
  PROVE  Program(c, w) \in Cell
  BY DEF Program, Cell, Sizes, Flags, IdField, DataField, AndBits, AndField,
         FS_SIZEINVALID, FS_SIZE32, FS_SIZEERASED, FS_BLOCK_CURRENT,
         FS_BLOCK_NEWER

LEMMA ProgramHeaderType ==
  ASSUME NEW c \in Cell, NEW h \in Header
  PROVE  ProgramHeader(c, h) \in Cell
  BY DEF ProgramHeader, Cell, Header, Sizes, Flags, IdField, AndBits, AndField,
         FS_SIZEINVALID, FS_SIZE32, FS_SIZEERASED, FS_BLOCK_CURRENT,
         FS_BLOCK_NEWER

LEMMA ProgramFlagsType ==
  ASSUME NEW c \in Cell, NEW h \in Header
  PROVE  ProgramFlags(c, h) \in Cell
  BY DEF ProgramFlags, Cell, Header, Sizes, Flags, AndBits,
         FS_SIZEINVALID, FS_SIZE32, FS_SIZEERASED, FS_BLOCK_CURRENT,
         FS_BLOCK_NEWER

LEMMA BlockType ==
  ASSUME NEW id \in IdField, NEW data \in DataField
  PROVE  Block(id, data) \in Cell
  BY DEF Block, Cell, Sizes, Flags, FS_SIZE32, FS_BLOCK_NEWER

LEMMA BlankType == Blank \in Cell
  BY DEF Blank, Cell, Sizes, Flags, IdField, DataField, FS_SIZEERASED,
         FS_BLOCK_NEWER

LEMMA HeaderType ==
  ASSUME NEW c \in Cell
  PROVE  HeaderOf(c) \in Header
  BY DEF HeaderOf, Header, Cell

LEMMA TornType ==
  ASSUME NEW c \in Cell, NEW d \in TornWrites(c)
  PROVE  d \in Cell
<1>1. PICK t \in Tears : d = Program(c, TornCell[t])
  BY DEF TornWrites
<1>2. t \in {"blank", "illegal", "errored", "dirty"}
  BY TearsKnown
<1> USE BlankType DEF TornCell, Cell, Sizes, IdField, DataField
<1>3. CASE t = "blank"
  BY <1>1, <1>3, ProgramType
<1>4. CASE t = "illegal"
  <2>1. TornCell[t] \in Cell
    BY <1>4
  <2> QED BY <1>1, <2>1, ProgramType
<1>5. CASE t = "errored"
  <2>1. TornCell[t] \in Cell
    BY <1>5
  <2> QED BY <1>1, <2>1, ProgramType
<1>6. CASE t = "dirty"
  <2>1. TornCell[t] \in Cell
    BY <1>6
  <2> QED BY <1>1, <2>1, ProgramType
<1> QED BY <1>2, <1>3, <1>4, <1>5, <1>6

-----------------------------------------------------------------------------
(* The activations of fs_write: what moving or ending the running one does *)
(* to the sequence.                                                        *)
LEMMA GoToType ==
  ASSUME NEW s \in Seq(Call), s # <<>>, NEW at \in CallPoints
  PROVE  LET t == [s EXCEPT ![Len(s)].at = at]
         IN  /\ t \in Seq(Call) /\ Len(t) = Len(s) /\ t # <<>>
             /\ \A c \in 1 .. Len(s) - 1 : t[c] = s[c]
             /\ t[Len(s)].at = at /\ t[Len(s)].caller = s[Len(s)].caller
<1>1. Len(s) \in 1 .. Len(s)
  OBVIOUS
<1>2. s[Len(s)] \in Call
  BY <1>1
<1>3. [s[Len(s)] EXCEPT !.at = at] \in Call
  BY <1>2 DEF Call
<1> QED BY <1>1, <1>2, <1>3, ExceptSeq DEF Call

LEMMA ResumedType ==
  ASSUME NEW s \in Seq(Call)
  PROVE  /\ Resumed(s) \in Seq(Call) /\ Len(Resumed(s)) = Len(s)
         /\ \A c \in 1 .. Len(s) - 1 : Resumed(s)[c] = s[c]
         /\ s = <<>> => Resumed(s) = <<>>
         /\ s # <<>> => /\ Resumed(s)[Len(s)].at = "mark"
                        /\ Resumed(s)[Len(s)].caller = s[Len(s)].caller
<1>1. CASE s = <<>>
  <2>1. Resumed(s) = s
    BY <1>1 DEF Resumed
  <2> QED BY <1>1, <2>1
<1>2. CASE s # <<>>
  <2>1. Resumed(s) = [s EXCEPT ![Len(s)].at = "mark"]
    BY <1>2 DEF Resumed
  <2>2. "mark" \in CallPoints
    BY DEF CallPoints
  <2> QED BY <1>2, <2>1, <2>2, GoToType
<1> QED BY <1>1, <1>2

LEMMA PopType ==
  ASSUME NEW s \in Seq(Call), s # <<>>
  PROVE  /\ SubSeq(s, 1, Len(s) - 1) \in Seq(Call)
         /\ Len(SubSeq(s, 1, Len(s) - 1)) = Len(s) - 1
         /\ \A c \in 1 .. Len(s) - 1 : SubSeq(s, 1, Len(s) - 1)[c] = s[c]
<1>1. Len(s) \in Nat \ {0}
  BY EmptySeq
<1>2. \A c \in 1 .. Len(s) - 1 : s[c] \in Call
  BY <1>1, ElementOfSeq
<1> DEFINE n == Len(s) - 1
           t == SubSeq(s, 1, n)
<1>3. n \in Nat /\ \A c \in 1 .. n : s[c] \in Call
  BY <1>1, <1>2
<1> HIDE DEF n
<1>4. /\ t \in Seq(Call)
      /\ Len(t) = IF 1 <= n THEN n - 1 + 1 ELSE 0
      /\ \A c \in 1 .. n - 1 + 1 : t[c] = s[1 + c - 1]
  BY <1>3, SubSeqProperties
<1> HIDE DEF t
<1>5. /\ t \in Seq(Call) /\ Len(t) = n
      /\ \A c \in 1 .. n : t[c] = s[c]
  BY <1>3, <1>4
<1> QED BY <1>5 DEF t, n

LEMMA PushType ==
  ASSUME NEW s \in Seq(Call), NEW e \in Call
  PROVE  /\ Append(s, e) \in Seq(Call)
         /\ Len(Append(s, e)) = Len(s) + 1
         /\ \A c \in 1 .. Len(s) : Append(s, e)[c] = s[c]
         /\ Append(s, e)[Len(s) + 1] = e
  OBVIOUS

LEMMA CallLength ==
  ASSUME NEW s \in Seq(Call)
  PROVE  /\ Len(s) \in Nat /\ (s = <<>> <=> Len(s) = 0)
         /\ \A c \in 1 .. Len(s) : s[c] \in Call
  BY EmptySeq, LenProperties, ElementOfSeq

-----------------------------------------------------------------------------
(* What the steps of fs_write and fs_thread do to the activations, from    *)
(* the invariant.                                                          *)
LEMMA GoToKeeps ==
  ASSUME TypeOK, NEW from, NEW to \in CallPoints, Executing(from), GoTo(to)
  PROVE  /\ calls' \in Seq(Call) /\ Len(calls') = Len(calls) /\ calls' # <<>>
         /\ \A c \in 1 .. Len(calls) - 1 : calls'[c] = calls[c]
         /\ Top'.at = to /\ Top'.caller = Top.caller
<1>1. calls \in Seq(Call) /\ calls # <<>>
  BY DEF TypeOK, Executing
<1>2. calls' = [calls EXCEPT ![Len(calls)].at = to]
  BY DEF GoTo
<1> QED BY <1>1, <1>2, GoToType DEF Top

LEMMA ReturnKeeps ==
  ASSUME TypeOK, NestingInv, NEW from, NEW res \in {0, -1, -2},
         Executing(from), Return(res)
  PROVE  /\ calls' \in Seq(Call) /\ Len(calls') = Len(calls) - 1
         /\ calls' # <<>> => Len(calls) = 2 /\ Len(calls') = 1 /\ Top'.at = "mark"
         /\ lc' \in Continuations /\ ret' \in {0, -1, -2}
<1>1. calls \in Seq(Call) /\ calls # <<>> /\ Len(calls) \in {1, 2}
  <2>1. calls \in Seq(Call) /\ calls # <<>>
    BY DEF TypeOK, Executing
  <2>2. Len(calls) \in Nat \ {0}
    BY <2>1, CallLength
  <2>3. Len(calls) <= 2
    BY DEF NestingInv, NestingIsBounded
  <2>4. \A n \in Nat \ {0} : n <= 2 => n \in {1, 2}
    OBVIOUS
  <2> QED BY <2>1, <2>2, <2>3, <2>4
<1> DEFINE below == SubSeq(calls, 1, Len(calls) - 1)
<1>2. below \in Seq(Call) /\ Len(below) = Len(calls) - 1
  BY <1>1, PopType
<1>3. CASE Top.caller = "user"
  <2>1. calls' = below /\ ret' = res /\ lc' = lc
    BY <1>3 DEF Return
  <2>2. Len(calls) # 2
    BY <1>3 DEF NestingInv, Top
  <2> HIDE DEF below
  <2>3. calls' = <<>>
    BY <1>1, <1>2, <2>1, <2>2, CallLength
  <2> QED BY <1>2, <2>1, <2>3 DEF TypeOK
<1>4. CASE Top.caller # "user"
  <2>1. calls' = Resumed(below) /\ ret' = ret /\ lc' \in Continuations
    BY <1>4 DEF Return, Continuations
  <2> HIDE DEF below
  <2>2. calls' \in Seq(Call) /\ Len(calls') = Len(below)
    BY <1>2, <2>1, ResumedType
  <2>3. ASSUME calls' # <<>>
        PROVE  Len(calls) = 2 /\ Len(calls') = 1 /\ Top'.at = "mark"
    <3>1. Len(calls) = 2 /\ Len(below) = 1 /\ below # <<>>
      BY <1>1, <1>2, <2>2, <2>3, CallLength
    <3> QED BY <1>2, <2>1, <2>2, <3>1, ResumedType DEF Top
  <2> QED BY <1>2, <2>1, <2>2, <2>3 DEF TypeOK
<1> QED BY <1>3, <1>4

LEMMA YieldKeeps ==
  ASSUME TypeOK, NestingInv, ThreadRuns, NEW l \in Continuations, YieldAt(l)
  PROVE  /\ calls' \in Seq(Call) /\ Len(calls') = Len(calls)
         /\ Len(calls') \in {0, 1}
         /\ calls' # <<>> => Top'.at = "mark"
         /\ lc' \in Continuations
<1>1. calls \in Seq(Call) /\ Len(calls) \in {0, 1}
  <2>1. calls \in Seq(Call)
    BY DEF TypeOK
  <2>2. Len(calls) \in Nat /\ (calls = <<>> => Len(calls) = 0)
    BY <2>1, CallLength
  <2>3. Len(calls) <= 2
    BY DEF NestingInv, NestingIsBounded
  <2>4. Len(calls) # 2
    BY <2>2 DEF NestingInv, ThreadRuns, Top
  <2>5. \A n \in Nat : n <= 2 /\ n # 2 => n \in {0, 1}
    OBVIOUS
  <2> QED BY <2>1, <2>2, <2>3, <2>4, <2>5
<1>2. calls' = Resumed(calls) /\ lc' = l
  BY DEF YieldAt
<1>3. calls' \in Seq(Call) /\ Len(calls') = Len(calls)
  BY <1>1, <1>2, ResumedType
<1>4. ASSUME calls' # <<>>
      PROVE  Top'.at = "mark"
  <2>1. calls # <<>>
    BY <1>2, <1>4, <1>1, ResumedType
  <2> QED BY <1>1, <1>2, <1>3, <2>1, ResumedType DEF Top
<1> QED BY <1>1, <1>2, <1>3, <1>4

-----------------------------------------------------------------------------
(* Addresses, entries and RAM records are what their names say. *)
LEMMA AddrFacts ==
  /\ 0 \in Sectors /\ 0 \in Slots /\ <<0, 0>> \in Addr
  /\ \A s \in Sectors, k \in Slots : <<s, k>> \in Addr
  /\ \A s \in Sectors, k \in Nat : CellAt(s, k) \in Addr
<1>1. 0 \in Sectors /\ 0 \in Slots
  BY Geometry DEF Sectors, Slots
<1>2. \A s \in Sectors, k \in Slots : <<s, k>> \in Addr
  BY DEF Addr
<1>3. ASSUME NEW s \in Sectors, NEW k \in Nat
      PROVE  CellAt(s, k) \in Addr
  <2>1. CASE k < FDS_PER_SECTOR
    <3>1. k \in Slots
      BY <2>1, Geometry DEF Slots
    <3> QED BY <2>1, <3>1, <1>2 DEF CellAt
  <2>2. CASE ~(k < FDS_PER_SECTOR)
    <3>1. s + 1 \in Sectors \/ s + 1 = FS_NUM_SECTORS
      BY Geometry DEF Sectors
    <3>2. <<s + 1, 0>> \in Addr
      BY <3>1, <1>1 DEF Addr
    <3> QED BY <2>2, <3>2 DEF CellAt
  <2> QED BY <2>1, <2>2
<1> QED BY <1>1, <1>2, <1>3

LEMMA ClearedTypes ==
  /\ NoScan \in ScanRecord /\ NoReloc \in RelocRecord
  /\ EmptyIndex \in [FdIndexes -> FileDescriptor]
  /\ [s \in Sectors |-> 0] \in [Sectors -> Nat]
<1>1. NoScan \in ScanRecord
  BY AddrFacts, Geometry DEF NoScan, ScanRecord
<1>2. NoReloc \in RelocRecord
  BY AddrFacts, Geometry DEF NoReloc, RelocRecord, IdField, DataField
<1>3. NoFd \in FileDescriptor
  BY AddrFacts DEF NoFd, FileDescriptor, Header, Sizes, Flags, IdField,
     FS_SIZEINVALID, FS_BLOCK_CURRENT
<1> QED BY <1>1, <1>2, <1>3 DEF EmptyIndex

LEMMA ClearedInv ==
  ASSUME flash \in [Addr -> Cell], ClearedRam
  PROVE  TypeOK /\ NestingInv
<1>1. TypeOK
  BY ClearedTypes, AddrFacts, EmptySeq, Geometry
     DEF ClearedRam, TypeOK, Continuations
<1>2. NestingInv
  BY EmptySeq DEF ClearedRam, NestingInv, NestingIsBounded, Executing
<1> QED BY <1>1, <1>2

LEMMA NoCallsInv ==
  ASSUME calls' = <<>>
  PROVE  NestingInv'
  BY EmptySeq DEF NestingInv, NestingIsBounded, Executing

LEMMA ClearRamInv ==
  ASSUME flash' \in [Addr -> Cell], ClearRam
  PROVE  TypeOK' /\ NestingInv'
<1>1. TypeOK'
  BY ClearedTypes, AddrFacts, EmptySeq, Geometry
     DEF ClearRam, TypeOK, Continuations
<1>2. NestingInv'
  BY NoCallsInv DEF ClearRam
<1> QED BY <1>1, <1>2

-----------------------------------------------------------------------------
(* fs_init keeps the types; no fs_write is active in it. *)
LEMMA ScanFacts ==
  ASSUME TypeOK, Scanning
  PROVE  /\ scan.sector \in Sectors /\ scan.slot \in Slots
         /\ ScanAddr \in Addr /\ Scanned \in Cell
<1>1. scan.sector \in Sectors /\ scan.slot \in Slots
  BY Geometry DEF TypeOK, ScanRecord, Scanning, Sectors
<1>2. ScanAddr \in Addr
  BY <1>1, AddrFacts DEF ScanAddr
<1> QED BY <1>1, <1>2 DEF TypeOK, Scanned

LEMMA NextSectorType ==
  ASSUME TypeOK, Scanning, NextSector
  PROVE  scan' \in ScanRecord
<1>1. scan.sector + 1 \in 0 .. FS_NUM_SECTORS
  BY ScanFacts, Geometry DEF Sectors
<1> QED BY <1>1, AddrFacts DEF NextSector, TypeOK, ScanRecord

LEMMA NextCellType ==
  ASSUME TypeOK, Scanning, NextCell
  PROVE  scan' \in ScanRecord /\ currAddress' \in [Sectors -> Nat]
<1>1. scan.slot \in Nat /\ scan.slot + 1 \in Nat
  BY ScanFacts, Geometry DEF Slots
<1>2. currAddress' \in [Sectors -> Nat]
  BY <1>1 DEF NextCell, TypeOK
<1>3. CASE scan.slot + 1 < FDS_PER_SECTOR
  <2>1. scan.slot + 1 \in Slots
    BY <1>1, <1>3, Geometry DEF Slots
  <2> QED BY <1>2, <1>3, <2>1 DEF NextCell, TypeOK, ScanRecord
<1>4. CASE ~(scan.slot + 1 < FDS_PER_SECTOR)
  BY <1>2, <1>4, NextSectorType DEF NextCell
<1> QED BY <1>3, <1>4

LEMMA BootInv ==
  ASSUME TypeOK, NestingInv, Boot
  PROVE  TypeOK' /\ NestingInv'
<1>1. calls = <<>> /\ calls' = calls /\ mode = "boot"
  BY DEF Boot, BootBlank, BootSkip, BootIndex, BootNoFd, BootDone, BootDuplicate,
     Scanning, NestingInv
<1>2. NestingInv'
  BY <1>1, NoCallsInv
<1>3. CASE BootBlank
  <2>1. Scanning /\ currAddress' \in [Sectors -> Nat] /\ currSector' \in Sectors
    BY <1>3, ScanFacts, Geometry DEF BootBlank, TypeOK, Slots
  <2>2. scan.sector + 1 \in 0 .. FS_NUM_SECTORS
    BY <2>1, ScanFacts, Geometry DEF Sectors
  <2>3. scan' \in ScanRecord
    BY <1>3, <2>1, <2>2, ScanFacts, AddrFacts DEF BootBlank, TypeOK, ScanRecord
  <2> QED BY <1>2, <1>3, <2>1, <2>3 DEF BootBlank, TypeOK, indexVars
<1>4. CASE BootSkip
  <2>1. scan' \in ScanRecord /\ currAddress' \in [Sectors -> Nat]
    BY <1>4, NextCellType DEF BootSkip
  <2> QED BY <1>2, <1>4, <2>1 DEF BootSkip, TypeOK, indexVars
<1>5. CASE BootIndex
  <2>1. scan' \in ScanRecord /\ currAddress' \in [Sectors -> Nat]
    BY <1>5, NextCellType DEF BootIndex
  <2>2. fd_index \in FdIndexes /\ fd_index' \in 0 .. FD_MAX
    BY <1>5, Geometry DEF BootIndex, TypeOK, FdIndexes
  <2>3. [address |-> ScanAddr, sector |-> scan.sector,
         header |-> HeaderOf(Scanned)] \in FileDescriptor
    BY <1>5, ScanFacts, HeaderType DEF BootIndex, FileDescriptor
  <2>4. fd' \in [FdIndexes -> FileDescriptor]
    BY <1>5, <2>2, <2>3 DEF BootIndex, TypeOK
  <2> QED BY <1>2, <1>5, <2>1, <2>2, <2>4 DEF BootIndex, TypeOK
<1>6. CASE BootNoFd
  <2>1. scan' \in ScanRecord
    BY <1>6, NextSectorType DEF BootNoFd
  <2>2. currAddress' \in [Sectors -> Nat]
    BY <1>6, ScanFacts, Geometry DEF BootNoFd, TypeOK, Slots
  <2> QED BY <1>2, <1>6, <2>1, <2>2 DEF BootNoFd, TypeOK, indexVars
<1>7. ASSUME NEW i \in FdIndexes, BootDuplicate(i)
      PROVE  TypeOK'
  <2>1. scan' \in ScanRecord /\ currAddress' \in [Sectors -> Nat]
    BY <1>7, NextCellType DEF BootDuplicate
  <2>2. /\ fd[i] \in FileDescriptor /\ fd[i].address \in Addr
        /\ [fd[i].header EXCEPT !.size = FS_SIZEINVALID] \in Header
    BY DEF TypeOK, FileDescriptor, Header, Sizes
  <2>3. /\ ScanAddr \in Addr /\ Scanned \in Cell /\ scan.sector \in Sectors
        /\ HeaderOf(Scanned) \in Header
        /\ [HeaderOf(Scanned) EXCEPT !.size = FS_SIZEINVALID] \in Header
    BY <1>7, ScanFacts, HeaderType DEF BootDuplicate, Header, Sizes
  <2>4. [address |-> ScanAddr, sector |-> scan.sector,
         header |-> HeaderOf(Scanned)] \in FileDescriptor
    BY <2>3 DEF FileDescriptor
  <2>5. /\ ProgramHeader(flash[fd[i].address],
                         [fd[i].header EXCEPT !.size = FS_SIZEINVALID]) \in Cell
        /\ ProgramHeader(flash[ScanAddr],
                         [HeaderOf(flash[ScanAddr]) EXCEPT !.size = FS_SIZEINVALID])
              \in Cell
    BY <2>2, <2>3, ProgramHeaderType DEF TypeOK, Scanned
  <2>6. flash' \in [Addr -> Cell] /\ fd' \in [FdIndexes -> FileDescriptor]
    BY <1>7, <2>2, <2>3, <2>4, <2>5 DEF BootDuplicate, TypeOK
  <2> QED BY <1>7, <2>1, <2>6 DEF BootDuplicate, TypeOK
<1>8. CASE BootDone
  <2>1. currSector' \in Sectors
    BY <1>8 DEF BootDone, TypeOK, ScanRecord
  <2> QED BY <1>2, <1>8, <2>1, ClearedTypes
          DEF BootDone, TypeOK, indexVars, Continuations
<1> QED BY <1>2, <1>3, <1>4, <1>5, <1>6, <1>7, <1>8 DEF Boot

-----------------------------------------------------------------------------
(* The steps of fs_write. *)
LEMMA TopFacts ==
  ASSUME TypeOK, NEW from, Executing(from)
  PROVE  /\ Top \in Call /\ Top.id \in IdField /\ Top.data \in DataField
         /\ currAddress[currSector] \in Nat
<1>1. calls \in Seq(Call) /\ calls # <<>>
  BY DEF TypeOK, Executing
<1>2. Len(calls) \in 1 .. Len(calls)
  BY <1>1, CallLength
<1>3. Top \in Call
  BY <1>1, <1>2, CallLength DEF Top
<1> QED BY <1>3 DEF Call, TypeOK

LEMMA NestingGoTo ==
  ASSUME TypeOK, NestingInv, NEW from \in CallPoints, NEW to \in CallPoints,
         Executing(from), GoTo(to), UNCHANGED <<mode, currAddress, currSector>>,
         from # "updateSector", to \notin {"updateSector", "fs_thread"}
  PROVE  NestingInv'
<1>1. /\ Len(calls') = Len(calls) /\ calls' # <<>>
      /\ \A c \in 1 .. Len(calls) - 1 : calls'[c] = calls[c]
      /\ Top'.at = to /\ Top'.caller = Top.caller
  BY GoToKeeps
<1>2. mode' = "run" /\ calls # <<>> /\ Top.at = from
  BY DEF Executing
<1>3. NestingIsBounded'
  BY <1>1 DEF NestingInv, NestingIsBounded
<1>4. ASSUME Len(calls') = 2
      PROVE  /\ calls'[1].at = "fs_thread"
             /\ calls'[2].caller = "fs_thread" /\ calls'[2].at # "fs_thread"
             /\ ~SECTOR_IS_FULL(currSector)
  <2>1. Len(calls) = 2 /\ calls'[1] = calls[1]
    BY <1>1, <1>4
  <2> QED BY <1>1, <1>4, <2>1 DEF NestingInv, Top
<1>5. ~Executing("fs_thread")'
  BY <1>1 DEF Executing
<1>6. currAddress[currSector] <= FDS_PER_SECTOR
  BY <1>2 DEF NestingInv
<1> QED BY <1>2, <1>3, <1>4, <1>5, <1>6 DEF NestingInv, SECTOR_IS_FULL

LEMMA NestingReturn ==
  ASSUME TypeOK, NestingInv, NEW from, NEW res \in {0, -1, -2},
         Executing(from), Return(res), mode' = mode, currSector' = currSector,
         currAddress'[currSector] \in {currAddress[currSector],
                                       currAddress[currSector] + 1}
  PROVE  NestingInv'
<1>1. /\ calls' # <<>> => Len(calls) = 2 /\ Len(calls') = 1 /\ Top'.at = "mark"
  BY ReturnKeeps
<1>2. CASE calls' = <<>>
  BY <1>2, NoCallsInv
<1>3. CASE calls' # <<>>
  <2>1. mode' = "run"
    BY DEF Executing
  <2>2. currAddress[currSector] < FDS_PER_SECTOR
    BY <1>1, <1>3, TopFacts, Geometry DEF NestingInv, SECTOR_IS_FULL
  <2>3. currAddress'[currSector'] <= FDS_PER_SECTOR
    BY <2>2, TopFacts, Geometry
  <2>4. ~Executing("fs_thread")'
    BY <1>1, <1>3 DEF Executing
  <2>5. NestingIsBounded' /\ Len(calls') # 2
    <3>1. Len(calls') = 1
      BY <1>1, <1>3
    <3> QED BY <3>1 DEF NestingIsBounded
  <2> QED BY <2>1, <2>3, <2>4, <2>5 DEF NestingInv
<1> QED BY <1>2, <1>3

LEMMA UserWriteInv ==
  ASSUME TypeOK, NestingInv, NEW id \in Ids, NEW data \in Data, UserWrite(id, data)
  PROVE  TypeOK' /\ NestingInv'
<1> DEFINE e == [caller |-> "user", at |-> "updateSector", id |-> id, data |-> data]
<1>1. e \in Call
  BY DEF Call, CallPoints, IdField, DataField
<1>2. calls' = <<e>> /\ ret' = 0 /\ mode' = "run"
  BY DEF UserWrite, Idle, bootVars
<1> HIDE DEF e
<1>3. calls' \in Seq(Call) /\ Len(calls') = 1 /\ Top' = e
  BY <1>1, <1>2 DEF Top
<1>4. Top'.at = "updateSector"
  BY <1>3 DEF e
<1>5. TypeOK'
  BY <1>2, <1>3 DEF UserWrite, TypeOK, bootVars, indexVars, currVars
<1>6. NestingInv'
  BY <1>2, <1>3, <1>4 DEF NestingInv, NestingIsBounded, Executing
<1> QED BY <1>5, <1>6

LEMMA UpdateSectorInv ==
  ASSUME TypeOK, NestingInv, updateSector
  PROVE  TypeOK' /\ NestingInv'
<1>1. Executing("updateSector") /\ mode' = mode /\ mode = "run"
  BY DEF updateSector, StaySector, ChangeSector, NoSector, bootVars, Executing
<1>2. {"updateSector", "mark", "fs_thread"} \subseteq CallPoints
  BY DEF CallPoints
<1>3. CASE StaySector
  <2>1. GoTo("mark") /\ ~SECTOR_IS_FULL(currSector)
    BY <1>3 DEF StaySector
  <2>2. /\ calls' \in Seq(Call) /\ Len(calls') = Len(calls) /\ calls' # <<>>
        /\ \A c \in 1 .. Len(calls) - 1 : calls'[c] = calls[c]
        /\ Top'.at = "mark" /\ Top'.caller = Top.caller
    BY <1>1, <1>2, <2>1, GoToKeeps
  <2>3. TypeOK'
    BY <1>3, <2>2 DEF StaySector, TypeOK, bootVars, indexVars, currVars
  <2>4. ASSUME Len(calls') = 2
        PROVE  /\ calls'[1].at = "fs_thread"
               /\ calls'[2].caller = "fs_thread" /\ calls'[2].at # "fs_thread"
    <3>1. Len(calls) = 2 /\ calls'[1] = calls[1]
      BY <2>2, <2>4
    <3> QED BY <2>2, <2>4, <3>1 DEF NestingInv, Top
  <2>5. currAddress' = currAddress /\ currSector' = currSector
    BY <1>3 DEF StaySector, currVars
  <2>6. currAddress[currSector] <= FDS_PER_SECTOR
    BY <1>1, <2>1, TopFacts, Geometry DEF SECTOR_IS_FULL
  <2>7. NestingIsBounded'
    BY <2>2 DEF NestingInv, NestingIsBounded
  <2>8. NestingInv'
    BY <1>1, <2>1, <2>2, <2>4, <2>5, <2>6, <2>7
       DEF NestingInv, Executing, SECTOR_IS_FULL
  <2> QED BY <2>3, <2>8
<1>4. CASE ChangeSector
  <2>1. PICK s \in Sectors : NextOpenSector(s) /\ currSector' = s
    BY <1>4 DEF ChangeSector
  <2>2. /\ GoTo("fs_thread") /\ SECTOR_IS_FULL(currSector)
        /\ currAddress' = currAddress
    BY <1>4 DEF ChangeSector
  <2>3. /\ calls' \in Seq(Call) /\ Len(calls') = Len(calls) /\ calls' # <<>>
        /\ Top'.at = "fs_thread"
    BY <1>1, <1>2, <2>2, GoToKeeps
  <2>4. Len(calls') # 2 /\ NestingIsBounded'
    BY <2>2, <2>3 DEF NestingInv, NestingIsBounded
  <2>5. TypeOK'
    BY <1>4, <2>1, <2>3 DEF ChangeSector, TypeOK, bootVars, indexVars
  <2>6. ~SECTOR_IS_FULL(currSector)'
    BY <2>1, <2>2 DEF NextOpenSector, SECTOR_IS_FULL
  <2>7. currAddress'[currSector'] <= FDS_PER_SECTOR
    BY <2>1, <2>2, <2>6, Geometry DEF SECTOR_IS_FULL, TypeOK
  <2>8. NestingInv'
    BY <1>1, <2>4, <2>6, <2>7 DEF NestingInv, SECTOR_IS_FULL
  <2> QED BY <2>5, <2>8
<1>5. CASE NoSector
  <2>1. /\ Return(-2) /\ currSector' = currSector /\ currAddress' = currAddress
    BY <1>5 DEF NoSector, currVars
  <2>2. /\ calls' \in Seq(Call) /\ lc' \in Continuations
        /\ ret' \in {0, -1, -2}
    BY <1>1, <2>1, ReturnKeeps
  <2>3. TypeOK'
    BY <1>5, <2>2 DEF NoSector, TypeOK, bootVars, indexVars, currVars
  <2>4. NestingInv'
    BY <1>1, <2>1, NestingReturn
  <2> QED BY <2>3, <2>4
<1> QED BY <1>3, <1>4, <1>5 DEF updateSector

LEMMA MarkCurrentInv ==
  ASSUME TypeOK, NestingInv, NEW i \in 0 .. FD_MAX, MarkCurrent(i)
  PROVE  TypeOK' /\ NestingInv'
<1>1. /\ Executing("mark") /\ GoTo("program")
      /\ UNCHANGED <<mode, scan, fd_index, currAddress, currSector, lc, reloc, ret>>
  BY DEF MarkCurrent, bootVars, currVars
<1>2. {"mark", "program"} \subseteq CallPoints
  BY DEF CallPoints
<1>3. calls' \in Seq(Call)
  BY <1>1, <1>2, GoToKeeps
<1>4. NestingInv'
  BY <1>1, <1>2, NestingGoTo
<1> DEFINE h == [fd[i].header EXCEPT !.newer = FS_BLOCK_CURRENT]
<1>5. CASE i < fd_index /\ fd[i].header.newer = FS_BLOCK_NEWER
  <2>1. i \in FdIndexes
    BY <1>5, Geometry DEF FdIndexes, TypeOK
  <2>2. fd[i].address \in Addr /\ fd[i].header \in Header
    BY <2>1 DEF TypeOK, FileDescriptor
  <2>3. h \in Header /\ [fd[i] EXCEPT !.header = h] \in FileDescriptor
    BY <2>1, <2>2 DEF TypeOK, FileDescriptor, Header, Flags
  <2>4. ProgramHeader(flash[fd[i].address], h) \in Cell
    BY <2>2, <2>3, ProgramHeaderType DEF TypeOK
  <2>5. /\ fd' = [fd EXCEPT ![i].header = h]
        /\ flash' = [flash EXCEPT ![fd[i].address] = ProgramHeader(@, h)]
    BY <1>5 DEF MarkCurrent
  <2> HIDE DEF h
  <2>6. fd' \in [FdIndexes -> FileDescriptor] /\ flash' \in [Addr -> Cell]
    BY <2>1, <2>3, <2>4, <2>5 DEF TypeOK
  <2> QED BY <1>1, <1>3, <1>4, <2>6 DEF TypeOK
<1>6. CASE ~(i < fd_index /\ fd[i].header.newer = FS_BLOCK_NEWER)
  <2>1. UNCHANGED <<flash, fd>>
    BY <1>6 DEF MarkCurrent
  <2> QED BY <1>1, <1>3, <1>4, <2>1 DEF TypeOK
<1> QED BY <1>5, <1>6

LEMMA ProgramBlockInv ==
  ASSUME TypeOK, NestingInv, ProgramBlock
  PROVE  TypeOK' /\ NestingInv'
<1>1. /\ Executing("program") /\ GoTo("invalidate")
      /\ UNCHANGED <<mode, scan, fd, fd_index, currAddress, currSector, lc, reloc,
                     ret>>
  BY DEF ProgramBlock, bootVars, currVars, indexVars
<1>2. {"program", "invalidate"} \subseteq CallPoints
  BY DEF CallPoints
<1>3. calls' \in Seq(Call) /\ NestingInv'
  BY <1>1, <1>2, GoToKeeps, NestingGoTo
<1>4. Target \in Addr
  BY <1>1, TopFacts, AddrFacts DEF Target, TypeOK
<1>5. Contents(Top) \in DataField
  BY <1>1, TopFacts DEF Contents, TypeOK, RelocRecord
<1>6. Program(flash[Target], Block(Top.id, Contents(Top))) \in Cell
  BY <1>1, <1>4, <1>5, TopFacts, BlockType, ProgramType DEF TypeOK
<1>7. flash' \in [Addr -> Cell]
  BY <1>4, <1>6 DEF ProgramBlock, TypeOK
<1> QED BY <1>1, <1>3, <1>7 DEF TypeOK

LEMMA TornProgramInv ==
  ASSUME TypeOK, PowerLossInProgram
  PROVE  TypeOK' /\ NestingInv'
<1>1. PICK c \in TornWrites(flash[Target]) : flash' = [flash EXCEPT ![Target] = c]
  BY DEF PowerLossInProgram
<1>2. Target \in Addr
  BY TopFacts, AddrFacts DEF PowerLossInProgram, Target, TypeOK
<1>3. c \in Cell
  BY <1>1, <1>2, TornType DEF TypeOK
<1>4. flash' \in [Addr -> Cell]
  BY <1>1, <1>2, <1>3 DEF TypeOK
<1> QED BY <1>4, ClearRamInv DEF PowerLossInProgram

LEMMA InvalidateOldInv ==
  ASSUME TypeOK, NestingInv, NEW i \in 0 .. FD_MAX, InvalidateOld(i)
  PROVE  TypeOK' /\ NestingInv'
<1>1. /\ Executing("invalidate") /\ GoTo("settle")
      /\ UNCHANGED <<mode, scan, fd_index, currAddress, currSector, lc, reloc, ret>>
  BY DEF InvalidateOld, bootVars, currVars
<1>2. {"invalidate", "settle"} \subseteq CallPoints
  BY DEF CallPoints
<1>3. calls' \in Seq(Call) /\ NestingInv'
  BY <1>1, <1>2, GoToKeeps, NestingGoTo
<1> DEFINE h == [fd[i].header EXCEPT !.size = FS_SIZEINVALID]
<1>4. CASE i < fd_index
  <2>1. i \in FdIndexes
    BY <1>4, Geometry DEF FdIndexes, TypeOK
  <2>2. fd[i].address \in Addr /\ fd[i].header \in Header
    BY <2>1 DEF TypeOK, FileDescriptor
  <2>3. h \in Header /\ [fd[i] EXCEPT !.header = h] \in FileDescriptor
    BY <2>1, <2>2 DEF TypeOK, FileDescriptor, Header, Sizes
  <2>4. ProgramFlags(flash[fd[i].address], h) \in Cell
    BY <2>2, <2>3, ProgramFlagsType DEF TypeOK
  <2>5. /\ fd' = [fd EXCEPT ![i].header = h]
        /\ flash' = [flash EXCEPT ![fd[i].address] = ProgramFlags(@, h)]
    BY <1>4 DEF InvalidateOld
  <2> HIDE DEF h
  <2>6. fd' \in [FdIndexes -> FileDescriptor] /\ flash' \in [Addr -> Cell]
    BY <2>1, <2>3, <2>4, <2>5 DEF TypeOK
  <2> QED BY <1>1, <1>3, <2>6 DEF TypeOK
<1>5. CASE ~(i < fd_index)
  <2>1. UNCHANGED <<flash, fd>>
    BY <1>5 DEF InvalidateOld
  <2> QED BY <1>1, <1>3, <2>1 DEF TypeOK
<1> QED BY <1>4, <1>5

LEMMA SettleInv ==
  ASSUME TypeOK, NestingInv, NEW i \in 0 .. FD_MAX, Settle(i)
  PROVE  TypeOK' /\ NestingInv'
<1> DEFINE h == [size |-> FS_SIZE32, newer |-> FS_BLOCK_CURRENT, id |-> Top.id]
           e == [address |-> Target, sector |-> currSector, header |-> h]
<1>1. /\ Executing("settle") /\ Return(0) /\ i < FD_MAX
      /\ UNCHANGED <<mode, scan, currSector, reloc>>
  BY DEF Settle, bootVars
<1>2. /\ calls' \in Seq(Call) /\ lc' \in Continuations /\ ret' \in {0, -1, -2}
  BY <1>1, ReturnKeeps
<1>3. Target \in Addr /\ currSector \in Sectors
  BY <1>1, TopFacts, AddrFacts DEF Target, TypeOK
<1>4. h \in Header /\ e \in FileDescriptor
  BY <1>1, <1>3, TopFacts DEF Header, Sizes, Flags, FileDescriptor
<1>5. ProgramFlags(flash[Target], h) \in Cell
  BY <1>3, <1>4, ProgramFlagsType DEF TypeOK
<1>6. /\ fd' = [fd EXCEPT ![i] = e]
      /\ flash' = [flash EXCEPT ![Target] = ProgramFlags(@, h)]
  BY DEF Settle
<1>7. i \in FdIndexes
  BY <1>1, Geometry DEF FdIndexes
<1> HIDE DEF h, e
<1>8. fd' \in [FdIndexes -> FileDescriptor] /\ flash' \in [Addr -> Cell]
  BY <1>4, <1>5, <1>6, <1>7 DEF TypeOK
<1>9. fd_index' \in 0 .. FD_MAX
  BY <1>7, Geometry DEF Settle, TypeOK, FdIndexes
<1>10. /\ currAddress' \in [Sectors -> Nat]
       /\ currAddress'[currSector] = currAddress[currSector] + 1
  BY <1>3 DEF Settle, TypeOK
<1>11. NestingInv'
  BY <1>1, <1>10, NestingReturn
<1>12. TypeOK'
  BY <1>1, <1>2, <1>8, <1>9, <1>10 DEF TypeOK
<1> QED BY <1>11, <1>12

LEMMA NoFdLeftInv ==
  ASSUME TypeOK, NestingInv, NoFdLeft
  PROVE  TypeOK' /\ NestingInv'
<1>1. /\ Executing("settle") /\ Return(-1)
      /\ UNCHANGED <<flash, mode, scan, fd, fd_index, currAddress, currSector, reloc>>
  BY DEF NoFdLeft, bootVars, indexVars, currVars
<1>2. /\ calls' \in Seq(Call) /\ lc' \in Continuations /\ ret' \in {0, -1, -2}
  BY <1>1, ReturnKeeps
<1>3. NestingInv'
  BY <1>1, NestingReturn
<1> QED BY <1>1, <1>2, <1>3 DEF TypeOK

-----------------------------------------------------------------------------
(* The steps of fs_thread. *)
LEMMA NestingYield ==
  ASSUME TypeOK, NestingInv, ThreadRuns, NEW l \in Continuations, YieldAt(l),
         mode' = mode, currSector' = currSector,
         currAddress'[currSector] \in {currAddress[currSector], 0}
  PROVE  NestingInv'
<1>1. /\ calls' \in Seq(Call) /\ Len(calls') = Len(calls) /\ Len(calls') \in {0, 1}
      /\ calls' # <<>> => Top'.at = "mark"
  BY YieldKeeps
<1>2. CASE calls' = <<>>
  BY <1>2, NoCallsInv
<1>3. CASE calls' # <<>>
  <2>1. calls # <<>>
    BY <1>1, <1>3, CallLength DEF TypeOK
  <2>2. Executing("fs_thread") /\ mode' = "run"
    BY <2>1 DEF ThreadRuns, Executing
  <2>3. currAddress'[currSector'] <= FDS_PER_SECTOR
    BY <2>2, TopFacts, Geometry DEF NestingInv, SECTOR_IS_FULL
  <2>4. ~Executing("fs_thread")'
    BY <1>1, <1>3 DEF Executing
  <2>5. \A n \in {0, 1} : n <= 2 /\ n # 2
    OBVIOUS
  <2>6. NestingIsBounded' /\ Len(calls') # 2
    BY <1>1, <2>5 DEF NestingIsBounded
  <2> QED BY <2>2, <2>3, <2>4, <2>6 DEF NestingInv
<1> QED BY <1>2, <1>3

LEMMA CallFsWriteInv ==
  ASSUME TypeOK, NestingInv, ThreadRuns, CallFsWrite,
         UNCHANGED <<flash, mode, scan, fd, fd_index, currAddress, currSector, lc,
                     reloc, ret>>
  PROVE  TypeOK' /\ NestingInv'
<1> DEFINE e == [caller |-> "fs_thread", at |-> "updateSector", id |-> reloc.id,
                 data |-> Erased]
<1>1. e \in Call /\ e.caller = "fs_thread" /\ e.at = "updateSector"
  BY DEF TypeOK, RelocRecord, Call, CallPoints, DataField
<1>2. calls' = Append(calls, e) /\ calls \in Seq(Call)
  BY DEF CallFsWrite, TypeOK
<1> HIDE DEF e
<1>3. /\ calls' \in Seq(Call) /\ Len(calls') = Len(calls) + 1
      /\ \A c \in 1 .. Len(calls) : calls'[c] = calls[c]
      /\ calls'[Len(calls) + 1] = e
  BY <1>1, <1>2, PushType
<1>4. Len(calls) \in Nat /\ (calls = <<>> <=> Len(calls) = 0)
  BY <1>2, CallLength
<1>5. Len(calls) <= 2
  BY DEF NestingInv, NestingIsBounded
<1>6. Len(calls) # 2
  BY <1>4 DEF NestingInv, ThreadRuns, Top
<1>7. mode' = "run" /\ Top'.at = "updateSector"
  BY <1>1, <1>3 DEF Top, ThreadRuns
<1>8. ASSUME Len(calls') = 2
      PROVE  /\ calls'[1].at = "fs_thread"
             /\ calls'[2].caller = "fs_thread" /\ calls'[2].at # "fs_thread"
             /\ ~SECTOR_IS_FULL(currSector)
  <2>1. Len(calls) = 1
    <3>1. \A n \in Nat : n + 1 = 2 => n = 1
      OBVIOUS
    <3> QED BY <1>3, <1>4, <1>8, <3>1
  <2>2. calls # <<>> /\ calls'[1] = calls[1] /\ calls'[2] = e
    BY <1>3, <1>4, <2>1
  <2>3. Executing("fs_thread") /\ calls[1].at = "fs_thread"
    BY <2>1, <2>2 DEF ThreadRuns, Executing, Top
  <2> QED BY <1>1, <2>2, <2>3 DEF NestingInv
<1>9. NestingIsBounded'
  <2>1. \A n \in Nat : n <= 2 /\ n # 2 => n + 1 <= 2
    OBVIOUS
  <2> QED BY <1>3, <1>4, <1>5, <1>6, <2>1 DEF NestingIsBounded
<1>10. NestingInv'
  BY <1>7, <1>8, <1>9 DEF NestingInv, Executing, SECTOR_IS_FULL
<1>11. TypeOK'
  BY <1>3 DEF TypeOK
<1> QED BY <1>10, <1>11

LEMMA CopyFdInv ==
  ASSUME TypeOK, NestingInv, ThreadRuns, NEW s \in Sectors,
         NEW i \in 0 .. fd_index - 1, CopyFd(s, i),
         UNCHANGED <<mode, scan, fd, fd_index, currSector, ret>>
  PROVE  TypeOK' /\ NestingInv'
<1>1. i \in FdIndexes /\ i \in 0 .. FD_MAX
  BY Geometry DEF TypeOK, FdIndexes
<1>2. fd[i].address \in Addr /\ fd[i].header \in Header
  BY <1>1 DEF TypeOK, FileDescriptor
<1>3. fd[i].header.id \in IdField /\ flash[fd[i].address].data \in DataField
  BY <1>2 DEF TypeOK, Header, Cell
<1>4. flash' = flash /\ currAddress' = currAddress
  BY DEF CopyFd
<1>5. reloc' \in RelocRecord
  <2>1. [sector |-> s, fd_index |-> i, address |-> fd[i].address,
         id |-> fd[i].header.id, buffer |-> flash[fd[i].address].data] \in RelocRecord
    BY <1>1, <1>2, <1>3 DEF RelocRecord
  <2>2. [reloc EXCEPT !.sector = s, !.fd_index = i, !.address = fd[i].address,
                      !.id = fd[i].header.id] \in RelocRecord
    BY <1>1, <1>2, <1>3 DEF TypeOK, RelocRecord
  <2> QED BY <2>1, <2>2 DEF CopyFd
<1>6. PICK l \in {"copied", "await_read"} : YieldAt(l)
  BY DEF CopyFd
<1>7. l \in Continuations
  BY <1>6 DEF Continuations
<1>8. NestingInv'
  BY <1>4, <1>6, <1>7, NestingYield
<1>9. calls' \in Seq(Call) /\ lc' \in Continuations
  BY <1>6, <1>7, YieldKeeps
<1> QED BY <1>4, <1>5, <1>8, <1>9 DEF TypeOK

LEMMA EraseInv ==
  ASSUME TypeOK, NestingInv, ThreadRuns, NEW s \in Sectors, Erase(s),
         UNCHANGED <<mode, scan, fd, fd_index, currSector, ret>>
  PROVE  TypeOK' /\ NestingInv'
<1>1. flash' \in [Addr -> Cell]
  BY BlankType DEF Erase, TypeOK
<1>2. /\ currAddress' \in [Sectors -> Nat]
      /\ currAddress'[currSector] \in {currAddress[currSector], 0}
  BY DEF Erase, TypeOK
<1>3. reloc' \in RelocRecord
  BY ClearedTypes DEF Erase, RelocRecord
<1>4. PICK l \in {"begin", "await_erase"} : YieldAt(l)
  BY DEF Erase
<1>5. l \in Continuations
  BY <1>4 DEF Continuations
<1>6. NestingInv'
  BY <1>2, <1>4, <1>5, NestingYield
<1>7. calls' \in Seq(Call) /\ lc' \in Continuations
  BY <1>4, <1>5, YieldKeeps
<1> QED BY <1>1, <1>2, <1>3, <1>6, <1>7 DEF TypeOK

LEMMA RelocateInv ==
  ASSUME TypeOK, NestingInv, ThreadRuns, NEW s \in Sectors, NEW j \in Nat,
         RelocateFrom(s, j), UNCHANGED <<mode, scan, fd, fd_index, currSector, ret>>
  PROVE  TypeOK' /\ NestingInv'
<1>1. CASE Erase(s)
  BY <1>1, EraseInv
<1>2. ASSUME NEW i \in j .. fd_index - 1, CopyFd(s, i)
      PROVE  TypeOK' /\ NestingInv'
  <2>1. i \in 0 .. fd_index - 1
    BY DEF TypeOK
  <2> QED BY <1>2, <2>1, CopyFdInv
<1> QED BY <1>1, <1>2 DEF RelocateFrom

LEMMA ThreadInv ==
  ASSUME TypeOK, NestingInv, fs_thread
  PROVE  TypeOK' /\ NestingInv'
<1>1. /\ ThreadRuns
      /\ UNCHANGED <<mode, scan, fd, fd_index, currSector, ret>>
  BY DEF fs_thread, ThreadBegin, ThreadSelect, ThreadRead, ThreadCopied, ThreadRetry,
     ThreadNext, ThreadErase, ThreadAt, bootVars, indexVars, currVars
<1>2. {"begin", "select", "await_read", "copied", "next"} \subseteq Continuations
  BY DEF Continuations
<1>3. ASSUME NEW l \in Continuations, YieldAt(l), reloc' \in RelocRecord,
             UNCHANGED <<flash, currAddress>>
      PROVE  TypeOK' /\ NestingInv'
  <2>1. NestingInv'
    BY <1>1, <1>3, NestingYield
  <2>2. calls' \in Seq(Call) /\ lc' \in Continuations
    BY <1>1, <1>3, YieldKeeps
  <2> QED BY <1>1, <1>3, <2>1, <2>2 DEF TypeOK
<1>4. CASE ThreadBegin
  BY <1>2, <1>3, <1>4 DEF ThreadBegin, TypeOK, currVars
<1>5. CASE ThreadSelect
  <2>1. CASE YieldAt("begin") /\ UNCHANGED <<flash, currAddress, reloc>>
    BY <1>2, <1>3, <2>1 DEF TypeOK
  <2>2. ASSUME NEW s \in Sectors, RelocateFrom(s, 0)
        PROVE  TypeOK' /\ NestingInv'
    BY <1>1, <2>2, RelocateInv
  <2> QED BY <1>5, <2>1, <2>2 DEF ThreadSelect
<1>6. CASE ThreadRead
  <2>1. [reloc EXCEPT !.buffer = flash[reloc.address].data] \in RelocRecord
    BY DEF TypeOK, RelocRecord, Cell
  <2>2. PICK l \in {"copied", "await_read"} : YieldAt(l)
    BY <1>6 DEF ThreadRead
  <2>3. reloc' \in RelocRecord
    BY <1>6, <2>1 DEF ThreadRead, TypeOK
  <2> QED BY <1>2, <1>3, <1>6, <2>2, <2>3 DEF ThreadRead, currVars
<1>7. CASE ThreadCopied
  <2>1. CASE CallFsWrite /\ UNCHANGED lc
    BY <1>1, <1>7, <2>1, CallFsWriteInv DEF ThreadCopied, currVars
  <2>2. CASE YieldAt("next")
    BY <1>2, <1>3, <1>7, <2>2 DEF ThreadCopied, TypeOK, currVars
  <2> QED BY <1>7, <2>1, <2>2 DEF ThreadCopied
<1>8. CASE ThreadRetry
  BY <1>1, <1>8, CallFsWriteInv DEF ThreadRetry, currVars
<1>9. CASE ThreadNext
  <2>1. reloc.sector \in Sectors /\ reloc.fd_index + 1 \in Nat
    BY Geometry DEF TypeOK, RelocRecord
  <2> QED BY <1>1, <1>9, <2>1, RelocateInv DEF ThreadNext
<1>10. CASE ThreadErase
  <2>1. reloc.sector \in Sectors
    BY DEF TypeOK, RelocRecord
  <2> QED BY <1>1, <1>10, <2>1, EraseInv DEF ThreadErase
<1> QED BY <1>4, <1>5, <1>6, <1>7, <1>8, <1>9, <1>10 DEF fs_thread

-----------------------------------------------------------------------------
(* Types and nesting, for every instance: NestingInv needs the types, and  *)
(* is inductive with them.                                                 *)
LEMMA TypesAndNesting == Spec => [](TypeOK /\ NestingInv)
<1>1. Init => TypeOK /\ NestingInv
  <2>1. [a \in Addr |-> Blank] \in [Addr -> Cell]
    BY BlankType
  <2> QED BY <2>1, ClearedInv DEF Init
<1>2. TypeOK /\ NestingInv /\ [Next]_vars => (TypeOK /\ NestingInv)'
  <2> SUFFICES ASSUME TypeOK, NestingInv, [Next]_vars
               PROVE  (TypeOK /\ NestingInv)'
    OBVIOUS
  <2>1. CASE UNCHANGED vars
    BY <2>1 DEF vars, TypeOK, NestingInv, NestingIsBounded, Executing, Top,
       SECTOR_IS_FULL
  <2>2. CASE PowerLoss
    BY <2>2, ClearRamInv DEF PowerLoss, TypeOK
  <2>3. CASE PowerLossInProgram
    BY <2>3, TornProgramInv
  <2>4. CASE Boot
    BY <2>4, BootInv
  <2>5. CASE \E id \in Ids, data \in Data : UserWrite(id, data)
    BY <2>5, UserWriteInv
  <2>6. CASE UserWriteTooLong
    <3>1. calls' = <<>>
      BY <2>6 DEF UserWriteTooLong, Idle
    <3>2. NestingInv'
      BY <3>1, NoCallsInv
    <3> QED BY <2>6, <3>2
            DEF UserWriteTooLong, TypeOK, bootVars, indexVars, currVars
  <2>7. CASE fs_write
    BY <2>7, UpdateSectorInv, ProgramBlockInv, MarkCurrentInv, InvalidateOldInv,
       SettleInv, NoFdLeftInv DEF fs_write
  <2>8. CASE fs_thread
    BY <2>8, ThreadInv
  <2> QED BY <2>1, <2>2, <2>3, <2>4, <2>5, <2>6, <2>7, <2>8 DEF Next
<1> QED BY <1>1, <1>2, PTL DEF Spec

(* Every variable keeps its type: the index and the relocation point into  *)
(* the FLASH that fs_write may program, whatever the geometry, and however *)
(* many variables the application writes.                                  *)
THEOREM TypeCorrect == Spec => []TypeOK
<1>1. TypeOK /\ NestingInv => TypeOK
  OBVIOUS
<1> QED BY <1>1, TypesAndNesting, PTL

(* fs_write and fs_thread call each other, yet the stack they need is      *)
(* bounded: an fs_write is at most one deep inside another.                *)
THEOREM NestingBounded == Spec => []NestingIsBounded
<1>1. TypeOK /\ NestingInv => NestingIsBounded
  BY DEF NestingInv
<1> QED BY <1>1, TypesAndNesting, PTL

(* A write that fs_thread has called runs inside the one that relocates,   *)
(* and no block goes further than the cell after its sector.               *)
THEOREM NestingHolds == Spec => []NestingInv
<1>1. TypeOK /\ NestingInv => NestingInv
  OBVIOUS
<1> QED BY <1>1, TypesAndNesting, PTL

-----------------------------------------------------------------------------
(* What is known of a cell stays known whatever wormvars writes on it.     *)
LEMMA BlankKnown == IsKnown(Blank)
  BY DEF IsKnown, Blank

LEMMA HeaderFields ==
  ASSUME NEW c \in Cell, NEW h \in Header
  PROVE  LET p == ProgramHeader(c, h)
         IN  /\ p.size = AndBits(c.size, h.size)
             /\ p.newer = AndBits(c.newer, h.newer)
             /\ p.id = AndField(c.id, h.id) /\ p.data = c.data
             /\ p.hash <=> c.hash /\ c.id = h.id
<1>1. ProgramHeader(c, h).hash = (c.hash /\ c.id = h.id)
  BY Zenon DEF ProgramHeader, Cell
<1> QED BY <1>1 DEF ProgramHeader, Cell

LEMMA FlagsFields ==
  ASSUME NEW c \in Cell, NEW h \in Header
  PROVE  LET p == ProgramFlags(c, h)
         IN  /\ p.size = AndBits(c.size, h.size)
             /\ p.newer = AndBits(c.newer, h.newer)
             /\ p.id = c.id /\ p.data = c.data /\ p.hash = c.hash
  BY DEF ProgramFlags, Cell

LEMMA HeaderKnown ==
  ASSUME NEW c \in Cell, NEW h \in Header, IsKnown(c),
         h.size = FS_SIZEINVALID \/ h.newer = FS_BLOCK_CURRENT
  PROVE  IsKnown(ProgramHeader(c, h)) /\ IsKnown(ProgramFlags(c, h))
<1>1. ASSUME NEW p, p.size = AndBits(c.size, h.size),
             p.newer = AndBits(c.newer, h.newer)
      PROVE  HeaderOf(p) # BlankHeader
  BY <1>1 DEF Cell, Header, Sizes, Flags, AndBits, HeaderOf, BlankHeader, Blank,
     FS_SIZEINVALID, FS_SIZE32, FS_SIZEERASED, FS_BLOCK_CURRENT, FS_BLOCK_NEWER
<1>2. IsKnown(ProgramHeader(c, h))
  BY <1>1, HeaderFields DEF IsKnown, AndField
<1>3. IsKnown(ProgramFlags(c, h))
  BY <1>1, FlagsFields DEF IsKnown
<1> QED BY <1>2, <1>3

LEMMA BlockKnown ==
  ASSUME NEW c \in Cell, IsKnown(c), NEW id \in Ids, NEW data \in DataField
  PROVE  IsKnown(Program(c, Block(id, data)))
  BY DEF IsKnown, Program, Block, Cell, Sizes, Flags, AndBits, AndField, HeaderOf,
         BlankHeader, Blank, FS_SIZEINVALID, FS_SIZE32, FS_SIZEERASED,
         FS_BLOCK_CURRENT, FS_BLOCK_NEWER

(* An interrupted write leaves no block that passes for valid. *)
LEMMA TornKnown ==
  ASSUME NEW c \in Cell, IsKnown(c), NEW d \in TornWrites(c)
  PROVE  IsKnown(d) /\ ~d.hash
<1>1. PICK t \in Tears : d = Program(c, TornCell[t])
  BY DEF TornWrites
<1>2. t \in {"blank", "illegal", "errored", "dirty"} /\ (TearsShow => t # "dirty")
  BY <1>1, TearsKnown DEF TearsShow
<1>3. CASE t = "blank"
  <2>1. TornCell[t] = Blank
    BY <1>3 DEF TornCell
  <2>2. d = Program(c, Blank)
    BY <1>1, <2>1
  <2>3. ~d.hash /\ HeaderOf(d) = HeaderOf(c)
    BY <2>2 DEF Program, Blank, HeaderOf, AndBits, AndField, Cell, Sizes, Flags,
       FS_SIZEINVALID, FS_SIZE32, FS_SIZEERASED, FS_BLOCK_CURRENT, FS_BLOCK_NEWER
  <2>4. Program(Blank, Blank) = Blank
    BY DEF Program, Blank, AndBits, AndField, FS_SIZEERASED, FS_BLOCK_NEWER
  <2> QED BY <2>2, <2>3, <2>4 DEF IsKnown
<1>4. CASE t \in {"illegal", "errored"}
  <2>1. TornCell[t].id = Garbled /\ ~TornCell[t].hash
    <3>1. TornCell.illegal.id = Garbled /\ ~TornCell.illegal.hash
      BY DEF TornCell, Blank
    <3>2. TornCell.errored.id = Garbled /\ ~TornCell.errored.hash
      BY DEF TornCell, Blank
    <3> QED BY <1>4, <3>1, <3>2
  <2>2. ~d.hash /\ d.id # Erased
    BY <1>1, <2>1, FieldsDistinct DEF Program, AndField
  <2> QED BY <2>2 DEF IsKnown, HeaderOf, BlankHeader, Blank
<1>5. CASE t = "dirty"
  <2>1. ~TornCell[t].hash
    BY <1>5 DEF TornCell, Blank
  <2>2. ~d.hash
    BY <1>1, <2>1 DEF Program
  <2> QED BY <1>2, <1>5, <2>2 DEF IsKnown
<1> QED BY <1>2, <1>3, <1>4, <1>5

-----------------------------------------------------------------------------
(* An activation keeps its caller, its variable and its data as long as it *)
(* lasts.                                                                  *)
SameCalls(s, t, n) ==
  \A c \in 1 .. n : /\ t[c].caller = s[c].caller /\ t[c].id = s[c].id
                    /\ t[c].data = s[c].data

LEMMA MovedCalls ==
  ASSUME NEW s \in Seq(Call), s # <<>>, NEW at \in CallPoints
  PROVE  LET t == [s EXCEPT ![Len(s)].at = at]
         IN  SameCalls(s, t, Len(s)) /\ t[Len(s)] = [s[Len(s)] EXCEPT !.at = at]
<1>1. Len(s) \in 1 .. Len(s) /\ DOMAIN s = 1 .. Len(s)
  BY CallLength
<1> DEFINE t == [s EXCEPT ![Len(s)].at = at]
<1>2. t[Len(s)] = [s[Len(s)] EXCEPT !.at = at]
  BY <1>1
<1>3. \A c \in 1 .. Len(s) : c # Len(s) => t[c] = s[c]
  BY <1>1
<1>4. s[Len(s)] \in Call
  BY <1>1
<1> HIDE DEF t
<1>5. SameCalls(s, t, Len(s))
  BY <1>1, <1>2, <1>3, <1>4 DEF SameCalls, Call
<1> QED BY <1>2, <1>5 DEF t

LEMMA ResumedCalls ==
  ASSUME NEW s \in Seq(Call)
  PROVE  SameCalls(s, Resumed(s), Len(s))
<1>1. CASE s = <<>>
  BY <1>1, CallLength DEF SameCalls
<1>2. CASE s # <<>>
  <2>1. Resumed(s) = [s EXCEPT ![Len(s)].at = "mark"] /\ "mark" \in CallPoints
    BY <1>2 DEF Resumed, CallPoints
  <2> QED BY <1>2, <2>1, MovedCalls
<1> QED BY <1>1, <1>2

LEMMA GoToCalls ==
  ASSUME TypeOK, NEW from, NEW to \in CallPoints, Executing(from), GoTo(to)
  PROVE  /\ calls' \in Seq(Call) /\ Len(calls') = Len(calls) /\ calls' # <<>>
         /\ SameCalls(calls, calls', Len(calls))
         /\ \A c \in 1 .. Len(calls) - 1 : calls'[c] = calls[c]
         /\ Top' = [Top EXCEPT !.at = to]
<1>1. calls \in Seq(Call) /\ calls # <<>>
  BY DEF TypeOK, Executing
<1>2. calls' = [calls EXCEPT ![Len(calls)].at = to]
  BY DEF GoTo
<1>3. /\ Len(calls') = Len(calls) /\ calls' \in Seq(Call) /\ calls' # <<>>
      /\ \A c \in 1 .. Len(calls) - 1 : calls'[c] = calls[c]
  BY GoToKeeps
<1> QED BY <1>1, <1>2, <1>3, MovedCalls DEF Top

LEMMA ReturnCalls ==
  ASSUME TypeOK, NestingInv, NEW from, NEW res \in {0, -1, -2},
         Executing(from), Return(res)
  PROVE  /\ calls' \in Seq(Call) /\ Len(calls') = Len(calls) - 1
         /\ SameCalls(calls, calls', Len(calls'))
         /\ calls' # <<>> => Len(calls) = 2 /\ Len(calls') = 1 /\ Top'.at = "mark"
         /\ Top.caller = "user" => lc' = lc
         /\ Top.caller # "user" => /\ lc' = IF res < 0 THEN "retry" ELSE "next"
                                   /\ Top.caller = "fs_thread"
<1> DEFINE below == SubSeq(calls, 1, Len(calls) - 1)
<1>1. calls \in Seq(Call) /\ calls # <<>>
  BY DEF TypeOK, Executing
<1>2. /\ below \in Seq(Call) /\ Len(below) = Len(calls) - 1
      /\ \A c \in 1 .. Len(calls) - 1 : below[c] = calls[c]
  BY <1>1, PopType
<1>3. /\ calls' \in Seq(Call) /\ Len(calls') = Len(calls) - 1
      /\ calls' # <<>> => Len(calls) = 2 /\ Len(calls') = 1 /\ Top'.at = "mark"
  BY ReturnKeeps
<1>4. Top.caller \in {"user", "fs_thread"}
  BY TopFacts DEF Call
<1>5. calls' = below \/ calls' = Resumed(below)
  BY DEF Return
<1>6. SameCalls(below, calls', Len(below))
  <2>1. CASE calls' = below
    BY <2>1 DEF SameCalls
  <2>2. CASE calls' = Resumed(below)
    BY <1>2, <2>2, ResumedCalls
  <2> QED BY <1>5, <2>1, <2>2
<1> HIDE DEF below
<1>7. SameCalls(calls, calls', Len(calls'))
  BY <1>2, <1>3, <1>6 DEF SameCalls
<1> QED BY <1>3, <1>4, <1>7 DEF Return

LEMMA YieldCalls ==
  ASSUME TypeOK, NestingInv, ThreadRuns, NEW l \in Continuations, YieldAt(l)
  PROVE  /\ calls' \in Seq(Call) /\ Len(calls') = Len(calls)
         /\ SameCalls(calls, calls', Len(calls))
         /\ lc' = l /\ (calls' # <<>> => calls # <<>> /\ Top'.at = "mark")
<1>1. calls \in Seq(Call) /\ calls' = Resumed(calls) /\ lc' = l
  BY DEF TypeOK, YieldAt
<1>2. SameCalls(calls, calls', Len(calls))
  BY <1>1, ResumedCalls
<1>3. /\ calls' \in Seq(Call) /\ Len(calls') = Len(calls)
      /\ calls' # <<>> => Top'.at = "mark"
  BY YieldKeeps
<1> QED BY <1>1, <1>2, <1>3, CallLength

LEMMA PushCalls ==
  ASSUME TypeOK, CallFsWrite
  PROVE  /\ calls' \in Seq(Call) /\ Len(calls') = Len(calls) + 1
         /\ calls' # <<>>
         /\ \A c \in 1 .. Len(calls) : calls'[c] = calls[c]
         /\ Top' = [caller |-> "fs_thread", at |-> "updateSector",
                    id |-> reloc.id, data |-> Erased]
<1> DEFINE e == [caller |-> "fs_thread", at |-> "updateSector", id |-> reloc.id,
                 data |-> Erased]
<1>1. e \in Call
  BY DEF TypeOK, RelocRecord, Call, CallPoints, DataField
<1>2. calls' = Append(calls, e) /\ calls \in Seq(Call)
  BY DEF CallFsWrite, TypeOK
<1> HIDE DEF e
<1>3. /\ calls' \in Seq(Call) /\ Len(calls') = Len(calls) + 1
      /\ \A c \in 1 .. Len(calls) : calls'[c] = calls[c]
      /\ calls'[Len(calls) + 1] = e
  BY <1>1, <1>2, PushType
<1>4. calls' # <<>> /\ Top' = e
  BY <1>2, <1>3, CallLength DEF Top
<1> QED BY <1>3, <1>4 DEF e

-----------------------------------------------------------------------------
(* What checkBlock says of a cell. *)
LEMMA CheckBlockFacts ==
  ASSUME NEW c \in Cell
  PROVE  /\ checkBlock(c) = BLOCK_IS_VALID <=> c.hash /\ c.size = FS_SIZE32
         /\ checkBlock(c) = BLOCK_IS_BLANK <=> HeaderOf(c) = BlankHeader
  BY DEF checkBlock, HeaderOf, BlankHeader, Blank, Cell, Sizes, BLOCK_IS_VALID,
     BLOCK_IS_BLANK, BLOCK_IS_INVALID, BLOCK_IS_ILLEGALSIZE, BLOCK_IS_ERRORED,
     FS_SIZEINVALID, FS_SIZE32, FS_SIZEERASED

LEMMA EntryFacts ==
  ASSUME TypeOK
  PROVE  /\ \A i \in Entries : /\ i \in FdIndexes /\ fd[i].address \in Addr
                               /\ fd[i].sector \in Sectors
                               /\ fd[i].header \in Header
         /\ fd_index \in Nat /\ fd_index <= FD_MAX
<1>1. \A i \in Entries : i \in FdIndexes
  BY Geometry DEF TypeOK, Entries, FdIndexes
<1> QED BY <1>1, Geometry DEF TypeOK, FileDescriptor

(* The identifiers of entries and activations stay known if the steps keep *)
(* them.                                                                   *)
SameEntryIds == /\ fd_index' = fd_index
                /\ \A i \in Entries : fd'[i].header.id = fd[i].header.id

LEMMA EntriesDifferKept ==
  ASSUME EntriesDiffer, SameEntryIds
  PROVE  EntriesDiffer'
  BY DEF EntriesDiffer, SameEntryIds, Entries

LEMMA CallsKnown ==
  ASSUME TypeOK, IdsAreKnown, calls' \in Seq(Call), Len(calls') <= Len(calls),
         SameCalls(calls, calls', Len(calls'))
  PROVE  \A c \in 1 .. Len(calls') :
           /\ calls'[c].id \in Ids
           /\ calls'[c].caller = "fs_thread" => lc \in Rewriting
<1> SUFFICES ASSUME NEW c \in 1 .. Len(calls')
             PROVE  /\ calls'[c].id \in Ids
                    /\ calls'[c].caller = "fs_thread" => lc \in Rewriting
  OBVIOUS
<1>1. c \in 1 .. Len(calls)
  BY CallLength DEF TypeOK
<1>2. calls'[c].id = calls[c].id /\ calls'[c].caller = calls[c].caller
  BY DEF SameCalls
<1> QED BY <1>1, <1>2 DEF IdsAreKnown

LEMMA IdsKept ==
  ASSUME TypeOK, IdsAreKnown, SameEntryIds, calls' \in Seq(Call),
         Len(calls') <= Len(calls), SameCalls(calls, calls', Len(calls')),
         lc' = lc \/ lc' \in Rewriting, lc' \in Relocating => reloc'.id \in Ids
  PROVE  IdsAreKnown'
<1>1. \A c \in 1 .. Len(calls') :
        /\ calls'[c].id \in Ids
        /\ calls'[c].caller = "fs_thread" => lc \in Rewriting
  BY CallsKnown
<1> QED BY <1>1 DEF IdsAreKnown, SameEntryIds, Entries

LEMMA CellKept ==
  ASSUME TypeOK, CellsAreKnown, NEW a \in Addr, NEW c, IsKnown(c),
         flash' = [flash EXCEPT ![a] = c]
  PROVE  CellsAreKnown'
  BY DEF CellsAreKnown, TypeOK

LEMMA KnownFrame ==
  ASSUME TypeOK, KnownInv, SameEntryIds, calls' \in Seq(Call),
         Len(calls') <= Len(calls), SameCalls(calls, calls', Len(calls')),
         CellsAreKnown', CallerWaits',
         lc' = lc \/ lc' \in Rewriting, lc' \in Relocating => reloc'.id \in Ids
  PROVE  KnownInv'
  BY EntriesDifferKept, IdsKept DEF KnownInv

-----------------------------------------------------------------------------
(* A reset forgets the index; what is left are the cells. *)
LEMMA KnownClear ==
  ASSUME CellsAreKnown', ClearRam
  PROVE  KnownInv'
<1>1. fd_index' = 0 /\ lc' = "begin" /\ calls' = <<>>
  BY DEF ClearRam
<1>2. Entries' = {} /\ Len(calls') = 0
  BY <1>1 DEF Entries
<1>3. IdsAreKnown'
  BY <1>1, <1>2 DEF IdsAreKnown, Relocating
<1>4. EntriesDiffer' /\ CallerWaits'
  BY <1>1, <1>2 DEF EntriesDiffer, CallerWaits, Running
<1> QED BY <1>3, <1>4 DEF KnownInv

LEMMA KnownInit ==
  ASSUME Init
  PROVE  KnownInv
<1>1. fd_index = 0 /\ lc = "begin" /\ calls = <<>>
  BY DEF Init, ClearedRam
<1>2. Entries = {} /\ Len(calls) = 0
  BY <1>1 DEF Entries
<1>3. IdsAreKnown
  BY <1>1, <1>2 DEF IdsAreKnown, Relocating
<1>4. EntriesDiffer /\ CallerWaits
  BY <1>1, <1>2 DEF EntriesDiffer, CallerWaits, Running
<1>5. CellsAreKnown
  BY BlankKnown DEF Init, CellsAreKnown
<1> QED BY <1>3, <1>4, <1>5 DEF KnownInv

(* fs_init. *)
LEMMA KnownBoot ==
  ASSUME TypeOK, NestingInv, KnownInv, Boot
  PROVE  KnownInv'
<1>1. calls' = calls /\ (lc' = lc \/ lc' = "begin") /\ reloc' = reloc
  BY DEF Boot, BootBlank, BootSkip, BootIndex, BootNoFd, BootDone, BootDuplicate
<1>2. calls = <<>> /\ Len(calls') = 0
  <2>1. mode = "boot"
    BY DEF Boot, BootBlank, BootSkip, BootIndex, BootNoFd, BootDone, BootDuplicate,
       Scanning
  <2> QED BY <1>1, <2>1 DEF NestingInv
<1>3. lc' \in Relocating => reloc'.id \in Ids
  BY <1>1 DEF KnownInv, IdsAreKnown, Relocating
<1>4. ASSUME EntriesDiffer', CellsAreKnown', \A i \in Entries' : fd'[i].header.id \in Ids
      PROVE  KnownInv'
  <2>1. \A c \in 1 .. Len(calls') : FALSE
    BY <1>2
  <2>2. CallerWaits'
    BY <1>1, <1>2 DEF CallerWaits, Running
  <2> QED BY <1>3, <1>4, <2>1, <2>2 DEF KnownInv, IdsAreKnown
<1>5. CASE BootBlank \/ BootSkip \/ BootNoFd \/ BootDone
  <2>1. flash' = flash /\ fd' = fd /\ fd_index' = fd_index
    BY <1>5 DEF BootBlank, BootSkip, BootNoFd, BootDone, indexVars
  <2> QED BY <1>4, <2>1
          DEF KnownInv, CellsAreKnown, EntriesDiffer, IdsAreKnown, Entries
<1>6. CASE BootIndex
  <2> DEFINE e == [address |-> ScanAddr, sector |-> scan.sector,
                   header |-> HeaderOf(Scanned)]
  <2>1. /\ flash' = flash /\ fd' = [fd EXCEPT ![fd_index] = e]
        /\ fd_index' = fd_index + 1 /\ fd_index \in FdIndexes
        /\ Search(fd_index, Scanned.id) /\ Scanning
        /\ checkBlock(Scanned) = BLOCK_IS_VALID
    BY <1>6, Geometry DEF BootIndex, TypeOK, FdIndexes
  <2>2. Scanned.id \in Ids
    <3>1. Scanned \in Cell /\ ScanAddr \in Addr
      BY <2>1, ScanFacts
    <3> QED BY <2>1, <3>1, CheckBlockFacts
            DEF KnownInv, CellsAreKnown, IsKnown, Scanned
  <2>3. e.header.id = Scanned.id
    BY DEF HeaderOf
  <2> HIDE DEF e
  <2>4. \A j \in Entries : fd[j].header.id # Scanned.id
    BY <2>1 DEF Search, Entries
  <2>5. /\ \A j \in Entries : fd'[j] = fd[j]
        /\ fd'[fd_index] = e /\ Entries' = Entries \cup {fd_index}
    BY <2>1, Geometry DEF Entries, TypeOK
  <2>6. EntriesDiffer'
    BY <2>3, <2>4, <2>5 DEF EntriesDiffer, KnownInv
  <2>7. \A i \in Entries' : fd'[i].header.id \in Ids
    BY <2>2, <2>3, <2>5 DEF KnownInv, IdsAreKnown
  <2> QED BY <1>4, <2>1, <2>6, <2>7 DEF KnownInv, CellsAreKnown
<1>7. ASSUME NEW i \in FdIndexes, BootDuplicate(i)
      PROVE  KnownInv'
  <2> DEFINE h == [fd[i].header EXCEPT !.size = FS_SIZEINVALID]
             g == [HeaderOf(flash[ScanAddr]) EXCEPT !.size = FS_SIZEINVALID]
             e == [address |-> ScanAddr, sector |-> scan.sector,
                   header |-> HeaderOf(Scanned)]
  <2>1. /\ fd[i].address \in Addr /\ h \in Header /\ h.size = FS_SIZEINVALID
        /\ flash[fd[i].address] \in Cell
    BY DEF TypeOK, FileDescriptor, Header, Sizes
  <2>2. /\ ScanAddr \in Addr /\ flash[ScanAddr] \in Cell /\ g \in Header
        /\ g.size = FS_SIZEINVALID
    BY <1>7, ScanFacts, HeaderType DEF BootDuplicate, Scanned, Header, Sizes
  <2>3. e.header.id = fd[i].header.id
    BY <1>7 DEF BootDuplicate, Search, HeaderOf
  <2>4. /\ \/ flash' = [flash EXCEPT ![fd[i].address] = ProgramHeader(@, h)]
           \/ flash' = [flash EXCEPT ![ScanAddr] = ProgramHeader(@, g)]
        /\ fd' = [fd EXCEPT ![i] = e] \/ fd' = fd
        /\ fd_index' = fd_index
    BY <1>7 DEF BootDuplicate
  <2> HIDE DEF h, g, e
  <2>5. CellsAreKnown'
    BY <2>1, <2>2, <2>4, HeaderKnown, CellKept DEF KnownInv, CellsAreKnown
  <2>6. SameEntryIds
    BY <2>3, <2>4, EntryFacts DEF SameEntryIds, TypeOK
  <2>7. EntriesDiffer' /\ \A j \in Entries' : fd'[j].header.id \in Ids
    BY <2>6, EntriesDifferKept DEF KnownInv, IdsAreKnown, SameEntryIds, Entries
  <2> QED BY <1>4, <2>5, <2>7
<1> QED BY <1>5, <1>6, <1>7 DEF Boot

(* fs_write. *)
LEMMA KnownCall ==
  ASSUME TypeOK, KnownInv, NEW id \in Ids, NEW data \in Data, UserWrite(id, data)
  PROVE  KnownInv'
<1>1. /\ calls' = <<[caller |-> "user", at |-> "updateSector", id |-> id,
                     data |-> data]>>
      /\ UNCHANGED <<flash, fd, fd_index, lc, reloc>>
  BY DEF UserWrite, indexVars
<1>2. \A c \in 1 .. Len(calls') : calls'[c].id \in Ids /\ calls'[c].caller = "user"
  BY <1>1
<1>3. CallerWaits'
  BY <1>1 DEF CallerWaits, Top
<1> QED BY <1>1, <1>2, <1>3
        DEF KnownInv, CellsAreKnown, IdsAreKnown, EntriesDiffer, Entries

LEMMA TopKnown ==
  ASSUME TypeOK, KnownInv, NEW from, Executing(from)
  PROVE  /\ Top.id \in Ids
         /\ Top.caller # "user" => lc \in Rewriting /\ reloc.id \in Ids
<1>1. calls \in Seq(Call) /\ calls # <<>>
  BY DEF TypeOK, Executing
<1>2. Len(calls) \in 1 .. Len(calls) /\ Top.caller \in {"user", "fs_thread"}
  BY <1>1, CallLength, TopFacts DEF Call
<1> QED BY <1>2 DEF KnownInv, IdsAreKnown, Top, Relocating, Rewriting

LEMMA KnownGoTo ==
  ASSUME TypeOK, KnownInv, NEW from, NEW to \in CallPoints, Executing(from), GoTo(to),
         SameEntryIds, CellsAreKnown', UNCHANGED <<lc, reloc>>,
         to # "updateSector", to = "fs_thread" => from = "updateSector"
  PROVE  KnownInv'
<1>1. /\ calls' \in Seq(Call) /\ Len(calls') = Len(calls)
      /\ SameCalls(calls, calls', Len(calls'))
      /\ Top' = [Top EXCEPT !.at = to] /\ Top \in Call
  BY GoToCalls, TopFacts
<1>2. Len(calls') <= Len(calls)
  BY <1>1, CallLength DEF TypeOK
<1>3. lc' \in Relocating => reloc'.id \in Ids
  BY DEF KnownInv, IdsAreKnown
<1>4. CallerWaits'
  BY <1>1 DEF KnownInv, CallerWaits, Running, Executing, Call
<1> QED BY <1>1, <1>2, <1>3, <1>4, KnownFrame

LEMMA KnownReturn ==
  ASSUME TypeOK, NestingInv, KnownInv, NEW from, NEW res \in {0, -1, -2},
         Executing(from), Return(res), UNCHANGED reloc
  PROVE  /\ calls' \in Seq(Call) /\ Len(calls') <= Len(calls)
         /\ SameCalls(calls, calls', Len(calls'))
         /\ lc' = lc \/ lc' \in Rewriting
         /\ lc' \in Relocating => reloc'.id \in Ids
         /\ CallerWaits'
<1>1. /\ calls' \in Seq(Call) /\ Len(calls') = Len(calls) - 1
      /\ SameCalls(calls, calls', Len(calls'))
      /\ calls' # <<>> => Top'.at = "mark"
      /\ Top.caller = "user" => lc' = lc
      /\ Top.caller # "user" => lc' = IF res < 0 THEN "retry" ELSE "next"
  BY ReturnCalls
<1>2. Len(calls') <= Len(calls)
  BY <1>1, CallLength DEF TypeOK
<1>3. CallerWaits'
  BY <1>1 DEF CallerWaits, Running
<1>4. CASE Top.caller = "user"
  BY <1>1, <1>2, <1>3, <1>4 DEF KnownInv, IdsAreKnown
<1>5. CASE Top.caller # "user"
  BY <1>1, <1>2, <1>3, <1>5, TopKnown DEF Rewriting
<1> QED BY <1>4, <1>5

LEMMA KnownUpdateSector ==
  ASSUME TypeOK, NestingInv, KnownInv, updateSector
  PROVE  KnownInv'
<1>1. Executing("updateSector") /\ UNCHANGED <<flash, fd, fd_index, reloc>>
  BY DEF updateSector, StaySector, ChangeSector, NoSector, indexVars
<1>2. SameEntryIds /\ CellsAreKnown'
  BY <1>1 DEF SameEntryIds, KnownInv, CellsAreKnown
<1>3. CASE StaySector \/ ChangeSector
  <2>1. PICK to \in {"mark", "fs_thread"} : GoTo(to) /\ lc' = lc
    BY <1>3 DEF StaySector, ChangeSector
  <2>2. to \in CallPoints
    BY DEF CallPoints
  <2> QED BY <1>1, <1>2, <2>1, <2>2, KnownGoTo
<1>4. CASE NoSector
  <2>1. Return(-2)
    BY <1>4 DEF NoSector
  <2> QED BY <1>1, <1>2, <2>1, KnownReturn, KnownFrame
<1> QED BY <1>3, <1>4 DEF updateSector

LEMMA KnownMark ==
  ASSUME TypeOK, KnownInv, NEW i \in 0 .. FD_MAX, MarkCurrent(i)
  PROVE  KnownInv'
<1> DEFINE h == [fd[i].header EXCEPT !.newer = FS_BLOCK_CURRENT]
<1>1. /\ Executing("mark") /\ GoTo("program") /\ "program" \in CallPoints
      /\ UNCHANGED <<fd_index, lc, reloc>>
  BY DEF MarkCurrent, CallPoints
<1>2. CASE UNCHANGED <<flash, fd>>
  BY <1>1, <1>2, KnownGoTo DEF SameEntryIds, KnownInv, CellsAreKnown
<1>3. CASE ~UNCHANGED <<flash, fd>>
  <2>1. /\ i \in Entries /\ fd' = [fd EXCEPT ![i].header = h]
        /\ flash' = [flash EXCEPT ![fd[i].address] = ProgramHeader(@, h)]
    BY <1>3, Geometry DEF MarkCurrent, Entries, TypeOK
  <2>2. /\ h \in Header /\ h.newer = FS_BLOCK_CURRENT /\ h.id = fd[i].header.id
        /\ fd[i].address \in Addr
    BY <2>1, EntryFacts DEF Header, Flags
  <2> HIDE DEF h
  <2>3. CellsAreKnown'
    BY <2>1, <2>2, HeaderKnown, CellKept DEF KnownInv, CellsAreKnown, TypeOK
  <2>4. SameEntryIds
    BY <1>1, <2>1, <2>2, EntryFacts DEF SameEntryIds, TypeOK
  <2> QED BY <1>1, <2>3, <2>4, KnownGoTo
<1> QED BY <1>2, <1>3

LEMMA KnownProgram ==
  ASSUME TypeOK, KnownInv, ProgramBlock
  PROVE  KnownInv'
<1>1. /\ Executing("program") /\ GoTo("invalidate") /\ "invalidate" \in CallPoints
      /\ UNCHANGED <<fd, fd_index, lc, reloc>>
  BY DEF ProgramBlock, CallPoints, indexVars
<1>2. Target \in Addr /\ Top.id \in Ids /\ Contents(Top) \in DataField
  BY <1>1, TopKnown, TopFacts, AddrFacts DEF Target, Contents, TypeOK, RelocRecord
<1>3. CellsAreKnown'
  BY <1>2, BlockKnown, CellKept DEF ProgramBlock, KnownInv, CellsAreKnown, TypeOK
<1> QED BY <1>1, <1>3, KnownGoTo DEF SameEntryIds

LEMMA KnownTorn ==
  ASSUME TypeOK, KnownInv, PowerLossInProgram
  PROVE  KnownInv'
<1>1. PICK c \in TornWrites(flash[Target]) : flash' = [flash EXCEPT ![Target] = c]
  BY DEF PowerLossInProgram
<1>2. Target \in Addr
  BY TopFacts, AddrFacts DEF PowerLossInProgram, Target, TypeOK
<1>3. CellsAreKnown'
  BY <1>1, <1>2, TornKnown, CellKept DEF KnownInv, CellsAreKnown, TypeOK
<1> QED BY <1>3, KnownClear DEF PowerLossInProgram

LEMMA KnownInvalidate ==
  ASSUME TypeOK, KnownInv, NEW i \in 0 .. FD_MAX, InvalidateOld(i)
  PROVE  KnownInv'
<1> DEFINE h == [fd[i].header EXCEPT !.size = FS_SIZEINVALID]
<1>1. /\ Executing("invalidate") /\ GoTo("settle") /\ "settle" \in CallPoints
      /\ UNCHANGED <<fd_index, lc, reloc>>
  BY DEF InvalidateOld, CallPoints
<1>2. CASE UNCHANGED <<flash, fd>>
  BY <1>1, <1>2, KnownGoTo DEF SameEntryIds, KnownInv, CellsAreKnown
<1>3. CASE ~UNCHANGED <<flash, fd>>
  <2>1. /\ i \in Entries /\ fd' = [fd EXCEPT ![i].header = h]
        /\ flash' = [flash EXCEPT ![fd[i].address] = ProgramFlags(@, h)]
    BY <1>3, Geometry DEF InvalidateOld, Entries, TypeOK
  <2>2. /\ h \in Header /\ h.size = FS_SIZEINVALID /\ h.id = fd[i].header.id
        /\ fd[i].address \in Addr
    BY <2>1, EntryFacts DEF Header, Sizes
  <2> HIDE DEF h
  <2>3. CellsAreKnown'
    BY <2>1, <2>2, HeaderKnown, CellKept DEF KnownInv, CellsAreKnown, TypeOK
  <2>4. SameEntryIds
    BY <1>1, <2>1, <2>2, EntryFacts DEF SameEntryIds, TypeOK
  <2> QED BY <1>1, <2>3, <2>4, KnownGoTo
<1> QED BY <1>2, <1>3

LEMMA KnownSettle ==
  ASSUME TypeOK, NestingInv, KnownInv, NEW i \in 0 .. FD_MAX, Settle(i)
  PROVE  KnownInv'
<1> DEFINE h == [size |-> FS_SIZE32, newer |-> FS_BLOCK_CURRENT, id |-> Top.id]
           e == [address |-> Target, sector |-> currSector, header |-> h]
<1>1. /\ Executing("settle") /\ Return(0) /\ UNCHANGED reloc
      /\ i \in FdIndexes /\ Search(i, Top.id)
      /\ fd_index' = IF i = fd_index THEN fd_index + 1 ELSE fd_index
  BY Geometry DEF Settle, FdIndexes
<1>2. /\ fd' = [fd EXCEPT ![i] = e]
      /\ flash' = [flash EXCEPT ![Target] = ProgramFlags(@, h)]
  BY DEF Settle
<1>3. /\ Target \in Addr /\ Top.id \in Ids /\ e.header.id = Top.id
      /\ h \in Header /\ h.newer = FS_BLOCK_CURRENT
  BY <1>1, TopKnown, TopFacts, AddrFacts DEF Target, TypeOK, Header, Sizes, Flags
<1> HIDE DEF h, e
<1>4. CellsAreKnown'
  BY <1>2, <1>3, HeaderKnown, CellKept DEF KnownInv, CellsAreKnown, TypeOK
<1>5. /\ calls' \in Seq(Call) /\ Len(calls') <= Len(calls)
      /\ SameCalls(calls, calls', Len(calls'))
      /\ lc' = lc \/ lc' \in Rewriting
      /\ lc' \in Relocating => reloc'.id \in Ids
      /\ CallerWaits'
  BY <1>1, KnownReturn
<1>6. CASE i # fd_index
  <2>1. i \in Entries /\ fd[i].header.id = Top.id /\ fd_index' = fd_index
    BY <1>1, <1>6, EntryFacts DEF Search, Entries
  <2>2. SameEntryIds
    BY <1>2, <1>3, <2>1, EntryFacts DEF SameEntryIds, TypeOK
  <2> QED BY <1>4, <1>5, <2>2, KnownFrame
<1>7. CASE i = fd_index
  <2>1. /\ \A j \in Entries : fd'[j] = fd[j] /\ fd[j].header.id # Top.id
        /\ fd'[i] = e /\ Entries' = Entries \cup {i}
    BY <1>1, <1>2, <1>7, EntryFacts DEF Search, Entries, TypeOK
  <2>2. EntriesDiffer'
    BY <1>3, <2>1 DEF EntriesDiffer, KnownInv
  <2>3. \A j \in Entries' : fd'[j].header.id \in Ids
    BY <1>3, <2>1 DEF KnownInv, IdsAreKnown
  <2>4. \A c \in 1 .. Len(calls') :
          /\ calls'[c].id \in Ids
          /\ calls'[c].caller = "fs_thread" => lc \in Rewriting
    BY <1>5, CallsKnown DEF KnownInv
  <2> QED BY <1>4, <1>5, <2>2, <2>3, <2>4 DEF KnownInv, IdsAreKnown
<1> QED BY <1>6, <1>7

LEMMA KnownWrite ==
  ASSUME TypeOK, NestingInv, KnownInv, fs_write
  PROVE  KnownInv'
<1>1. CASE NoFdLeft
  <2>1. /\ Executing("settle") /\ Return(-1)
        /\ UNCHANGED <<flash, fd, fd_index, reloc>>
    BY <1>1 DEF NoFdLeft, indexVars
  <2>2. SameEntryIds /\ CellsAreKnown'
    BY <2>1 DEF SameEntryIds, KnownInv, CellsAreKnown
  <2> QED BY <2>1, <2>2, KnownReturn, KnownFrame
<1> QED BY <1>1, KnownUpdateSector, KnownProgram, KnownMark, KnownInvalidate,
        KnownSettle DEF fs_write

(* fs_thread: it leaves the points where it wrote an entry again only when *)
(* none of its calls is active.                                            *)
LEMMA KnownYield ==
  ASSUME TypeOK, NestingInv, KnownInv, ThreadRuns, NEW l \in Continuations,
         YieldAt(l), UNCHANGED <<fd, fd_index>>, CellsAreKnown',
         l \in Relocating => reloc'.id \in Ids,
         l \in Rewriting \/ lc \notin {"copied", "retry"}
  PROVE  KnownInv'
<1>1. /\ calls' \in Seq(Call) /\ Len(calls') = Len(calls) /\ lc' = l
      /\ SameCalls(calls, calls', Len(calls))
      /\ calls' # <<>> => calls # <<>> /\ Top'.at = "mark"
  BY YieldCalls
<1>2. ASSUME NEW c \in 1 .. Len(calls')
      PROVE  calls'[c].id \in Ids /\ (calls'[c].caller = "fs_thread" => l \in Rewriting)
  <2>1. /\ c \in 1 .. Len(calls) /\ calls'[c].id = calls[c].id
        /\ calls'[c].caller = calls[c].caller
    BY <1>1 DEF SameCalls
  <2>2. CASE lc \notin {"copied", "retry"}
    <3>1. Len(calls) \in {0, 1}
      BY <1>1, YieldKeeps
    <3>2. c = Len(calls) /\ calls # <<>>
      BY <2>1, <3>1, CallLength DEF TypeOK
    <3>3. Top.caller # "fs_thread" /\ calls[c].caller # "fs_thread"
      BY <2>2, <3>2 DEF KnownInv, CallerWaits, Running, ThreadRuns, Top
    <3> QED BY <2>1, <3>3 DEF KnownInv, IdsAreKnown
  <2> QED BY <2>1, <2>2 DEF KnownInv, IdsAreKnown
<1>3. EntriesDiffer' /\ \A j \in Entries' : fd'[j].header.id \in Ids
  BY DEF KnownInv, EntriesDiffer, IdsAreKnown, Entries
<1>4. CallerWaits'
  BY <1>1 DEF CallerWaits, Running
<1> QED BY <1>1, <1>2, <1>3, <1>4 DEF KnownInv, IdsAreKnown

LEMMA KnownPush ==
  ASSUME TypeOK, KnownInv, ThreadRuns, lc \in {"copied", "retry"}, CallFsWrite,
         UNCHANGED <<flash, fd, fd_index, lc, reloc>>
  PROVE  KnownInv'
<1>1. /\ calls' \in Seq(Call) /\ Len(calls') = Len(calls) + 1
      /\ \A c \in 1 .. Len(calls) : calls'[c] = calls[c]
      /\ Top' = [caller |-> "fs_thread", at |-> "updateSector",
                 id |-> reloc.id, data |-> Erased]
  BY PushCalls
<1>2. Top' = calls'[Len(calls')]
  BY DEF Top
<1>3. ASSUME NEW c \in 1 .. Len(calls')
      PROVE  calls'[c].id \in Ids /\ lc \in Rewriting
  <2>1. c \in 1 .. Len(calls) \/ c = Len(calls')
    BY <1>1, CallLength DEF TypeOK
  <2> QED BY <1>1, <1>2, <2>1 DEF KnownInv, IdsAreKnown, Relocating, Rewriting
<1>4. CallerWaits'
  BY DEF CallerWaits
<1> QED BY <1>3, <1>4
        DEF KnownInv, CellsAreKnown, IdsAreKnown, EntriesDiffer, Entries, Rewriting

LEMMA CopyFdFacts ==
  ASSUME TypeOK, NEW s, NEW i, CopyFd(s, i)
  PROVE  /\ reloc'.sector = s /\ reloc'.fd_index = i
         /\ reloc'.address = fd[i].address /\ reloc'.id = fd[i].header.id
         /\ UNCHANGED <<flash, currAddress>>
         /\ \/ YieldAt("copied") /\ reloc'.buffer = flash[fd[i].address].data
            \/ YieldAt("await_read")
<1> DEFINE r == [sector |-> s, fd_index |-> i, address |-> fd[i].address,
                 id |-> fd[i].header.id, buffer |-> flash[fd[i].address].data]
           q == [reloc EXCEPT !.sector = s, !.fd_index = i, !.address = fd[i].address,
                              !.id = fd[i].header.id]
<1>1. /\ q.sector = s /\ q.fd_index = i /\ q.address = fd[i].address
      /\ q.id = fd[i].header.id
  BY DEF TypeOK, RelocRecord
<1>2. /\ r.sector = s /\ r.fd_index = i /\ r.address = fd[i].address
      /\ r.id = fd[i].header.id /\ r.buffer = flash[fd[i].address].data
  OBVIOUS
<1>3. /\ \/ reloc' = r /\ YieldAt("copied")
         \/ reloc' = q /\ YieldAt("await_read")
      /\ UNCHANGED <<flash, currAddress>>
  BY DEF CopyFd
<1> HIDE DEF r, q
<1> QED BY <1>1, <1>2, <1>3

LEMMA KnownRelocate ==
  ASSUME TypeOK, NestingInv, KnownInv, ThreadRuns, NEW s \in Sectors, NEW j \in Nat,
         RelocateFrom(s, j), UNCHANGED <<fd, fd_index>>,
         lc \notin {"copied", "retry"}
  PROVE  KnownInv'
<1>1. ASSUME NEW i \in j .. fd_index - 1, CopyFd(s, i)
      PROVE  KnownInv'
  <2>1. i \in Entries /\ flash' = flash
    BY <1>1, EntryFacts DEF Entries, CopyFd
  <2>2. reloc'.id = fd[i].header.id
    BY <1>1, CopyFdFacts
  <2>3. PICK l \in {"copied", "await_read"} : YieldAt(l)
    BY <1>1, CopyFdFacts
  <2> QED BY <2>1, <2>2, <2>3, KnownYield
          DEF KnownInv, CellsAreKnown, IdsAreKnown, Continuations
<1>2. CASE Erase(s)
  <2>1. PICK l \in {"begin", "await_erase"} : YieldAt(l)
    BY <1>2 DEF Erase
  <2>2. CellsAreKnown'
    BY <1>2, BlankKnown DEF Erase, KnownInv, CellsAreKnown, TypeOK
  <2> QED BY <2>1, <2>2, KnownYield DEF Continuations, Relocating
<1> QED BY <1>1, <1>2 DEF RelocateFrom

LEMMA KnownThread ==
  ASSUME TypeOK, NestingInv, KnownInv, fs_thread
  PROVE  KnownInv'
<1>1. ThreadRuns /\ UNCHANGED <<fd, fd_index>>
  BY DEF fs_thread, ThreadBegin, ThreadSelect, ThreadRead, ThreadCopied, ThreadRetry,
     ThreadNext, ThreadErase, ThreadAt, indexVars
<1>2. ASSUME NEW l \in {"begin", "select", "copied", "await_read", "next"}, YieldAt(l),
             UNCHANGED flash,
             l \in Relocating => lc \in Relocating /\ reloc'.id = reloc.id,
             l \in Rewriting \/ lc \notin {"copied", "retry"}
      PROVE  KnownInv'
  <2>1. l \in Continuations
    BY DEF Continuations
  <2>2. CellsAreKnown' /\ (l \in Relocating => reloc'.id \in Ids)
    BY <1>2 DEF KnownInv, CellsAreKnown, IdsAreKnown
  <2> QED BY <1>1, <1>2, <2>1, <2>2, KnownYield
<1>3. CASE ThreadBegin
  BY <1>2, <1>3 DEF ThreadBegin, ThreadAt, Relocating
<1>4. CASE ThreadSelect
  <2>1. CASE YieldAt("begin") /\ UNCHANGED <<flash, reloc>>
    BY <1>2, <1>4, <2>1 DEF ThreadSelect, ThreadAt, Relocating
  <2>2. ASSUME NEW s \in Sectors, RelocateFrom(s, 0)
        PROVE  KnownInv'
    BY <1>1, <1>4, <2>2, KnownRelocate DEF ThreadSelect, ThreadAt
  <2> QED BY <1>4, <2>1, <2>2 DEF ThreadSelect
<1>5. CASE ThreadRead
  <2>1. lc = "await_read" /\ flash' = flash /\ reloc'.id = reloc.id
    BY <1>5 DEF ThreadRead, ThreadAt, TypeOK, RelocRecord
  <2>2. PICK l \in {"copied", "await_read"} : YieldAt(l)
    BY <1>5 DEF ThreadRead
  <2> QED BY <1>2, <2>1, <2>2 DEF Relocating
<1>6. CASE ThreadCopied
  <2>1. CASE CallFsWrite /\ UNCHANGED lc
    BY <1>1, <1>6, <2>1, KnownPush DEF ThreadCopied, ThreadAt
  <2>2. CASE YieldAt("next")
    BY <1>2, <1>6, <2>2 DEF ThreadCopied, ThreadAt, Relocating, Rewriting
  <2> QED BY <1>6, <2>1, <2>2 DEF ThreadCopied
<1>7. CASE ThreadRetry
  BY <1>1, <1>7, KnownPush DEF ThreadRetry, ThreadAt
<1>8. CASE ThreadNext
  <2>1. reloc.sector \in Sectors /\ reloc.fd_index + 1 \in Nat
    BY Geometry DEF TypeOK, RelocRecord
  <2> QED BY <1>1, <1>8, <2>1, KnownRelocate DEF ThreadNext, ThreadAt
<1>9. CASE ThreadErase
  <2>1. /\ Erase(reloc.sector) /\ lc = "await_erase"
    BY <1>9 DEF ThreadErase, ThreadAt
  <2>2. PICK l \in {"begin", "await_erase"} : YieldAt(l)
    BY <2>1 DEF Erase
  <2>3. CellsAreKnown'
    BY <2>1, BlankKnown DEF Erase, KnownInv, CellsAreKnown, TypeOK
  <2> QED BY <1>1, <2>1, <2>2, <2>3, KnownYield DEF Continuations, Relocating
<1> QED BY <1>3, <1>4, <1>5, <1>6, <1>7, <1>8, <1>9 DEF fs_thread

-----------------------------------------------------------------------------
(* Cells and identifiers are known in every state. *)
LEMMA KnownStep ==
  ASSUME TypeOK, NestingInv, KnownInv, [Next]_vars
  PROVE  KnownInv'
<1>1. CASE UNCHANGED vars
  BY <1>1 DEF vars, KnownInv, CellsAreKnown, IdsAreKnown, EntriesDiffer, Entries,
     CallerWaits, Running, Top
<1>2. CASE PowerLoss
  BY <1>2, KnownClear DEF PowerLoss, KnownInv, CellsAreKnown
<1>3. CASE UserWriteTooLong
  BY <1>3 DEF UserWriteTooLong, KnownInv, CellsAreKnown, IdsAreKnown,
     EntriesDiffer, Entries, CallerWaits, Running, Top, bootVars, indexVars
<1> QED BY <1>1, <1>2, <1>3, KnownTorn, KnownBoot, KnownCall, KnownWrite, KnownThread
        DEF Next

LEMMA KnownEverywhere == Spec => [](TypeOK /\ NestingInv /\ KnownInv)
<1>1. Init => KnownInv
  BY KnownInit
<1>2. TypeOK /\ NestingInv /\ KnownInv /\ [Next]_vars => KnownInv'
  BY KnownStep
<1> QED BY <1>1, <1>2, TypesAndNesting, PTL DEF Spec

-----------------------------------------------------------------------------
(* Addresses of cells of the file system. *)
LEMMA FsAddrFacts ==
  /\ \A a \in FsAddr : a[1] \in Sectors /\ a[2] \in Slots /\ a = <<a[1], a[2]>>
                      /\ a \in Addr
  /\ \A s \in Sectors, k \in Slots : <<s, k>> \in FsAddr
  BY DEF FsAddr, Addr

(* Cells that are not written on stay valid, or not valid. *)
LEMMA ValidKept ==
  ASSUME NEW a, flash'[a] = flash[a]
  PROVE  IsValid(a)' <=> IsValid(a)
  BY DEF IsValid

(* One cell is invalidated; its data stay. *)
Invalidates(a) == /\ \A b \in Addr : b # a => flash'[b] = flash[b]
                  /\ flash'[a].size = FS_SIZEINVALID
                  /\ flash'[a].data = flash[a].data

LEMMA InvalidatingWrite ==
  ASSUME TypeOK, NEW a \in Addr, NEW h \in Header, h.size = FS_SIZEINVALID,
         \/ flash' = [flash EXCEPT ![a] = ProgramHeader(@, h)]
         \/ flash' = [flash EXCEPT ![a] = ProgramFlags(@, h)]
  PROVE  Invalidates(a)
<1>1. flash[a] \in Cell
  BY DEF TypeOK
<1>2. flash'[a].size = AndBits(flash[a].size, h.size) /\ flash'[a].data = flash[a].data
  BY <1>1, HeaderFields, FlagsFields DEF TypeOK
<1>3. flash'[a].size = FS_SIZEINVALID
  BY <1>1, <1>2 DEF AndBits, Cell, Sizes, FS_SIZEINVALID, FS_SIZE32, FS_SIZEERASED
<1> QED BY <1>2, <1>3 DEF Invalidates, TypeOK

(* What is left is neither valid nor blank. *)
LEMMA InvalidatedCell ==
  ASSUME TypeOK, TypeOK', NEW a \in Addr, Invalidates(a)
  PROVE  /\ ~IsValid(a)' /\ flash'[a] # Blank
         /\ \A b \in Addr : b # a => (IsValid(b)' <=> IsValid(b)) /\ flash'[b] = flash[b]
<1>1. flash'[a] \in Cell /\ flash'[a].size = FS_SIZEINVALID
  BY DEF TypeOK, Invalidates
<1>2. ~IsValid(a)'
  BY <1>1, CheckBlockFacts DEF IsValid, FS_SIZEINVALID, FS_SIZE32
<1>3. flash'[a] # Blank
  BY <1>1 DEF Blank, FS_SIZEINVALID, FS_SIZEERASED
<1> QED BY <1>2, <1>3, ValidKept DEF Invalidates

-----------------------------------------------------------------------------
(* fs_init scans the cells in order, and each entry is one of them.        *)
LEMMA ScanAdvances ==
  ASSUME TypeOK, Scanning, NextCell \/ NextSector
  PROVE  \A a \in FsAddr : IsScanned(a) \/ a = ScanAddr => IsScanned(a)'
<1>1. scan.sector \in Sectors /\ scan.slot \in Slots
  BY ScanFacts
<1>2. \A a \in FsAddr : /\ a[1] \in Nat /\ a[2] \in Nat /\ a[2] < FDS_PER_SECTOR
                        /\ a = ScanAddr => a[1] = scan.sector /\ a[2] = scan.slot
  BY FsAddrFacts, Geometry DEF Sectors, Slots, ScanAddr
<1>3. CASE NextSector
  <2>1. scan'.sector = scan.sector + 1
    BY <1>3 DEF NextSector, TypeOK, ScanRecord
  <2> QED BY <1>1, <1>2, <2>1, Geometry DEF IsScanned, Sectors
<1>4. CASE scan' = [scan EXCEPT !.slot = @ + 1]
  <2>1. scan'.sector = scan.sector /\ scan'.slot = scan.slot + 1
    BY <1>4 DEF TypeOK, ScanRecord
  <2> QED BY <1>1, <1>2, <2>1, Geometry DEF IsScanned, Sectors, Slots
<1> QED BY <1>3, <1>4 DEF NextCell

LEMMA BlankAdvances ==
  ASSUME TypeOK, BootBlank
  PROVE  /\ scan'.sector = scan.sector + 1 /\ scan'.slot = 0
         /\ \A a \in FsAddr : IsScanned(a) => IsScanned(a)'
<1>1. Scanning /\ scan.sector \in Sectors /\ scan.slot \in Slots
  BY ScanFacts DEF BootBlank
<1>2. \A a \in FsAddr : a[1] \in Nat /\ a[2] \in Nat
  BY FsAddrFacts, Geometry DEF Sectors, Slots
<1>3. scan'.sector = scan.sector + 1 /\ scan'.slot = 0
  BY DEF BootBlank, TypeOK, ScanRecord
<1> QED BY <1>1, <1>2, <1>3, Geometry DEF IsScanned, Sectors

(* A second block of a variable: one of the two is invalidated, and the    *)
(* entry stands for the other.                                             *)
LEMMA DuplicateFacts ==
  ASSUME TypeOK, TypeOK', EntriesAreScanned, NEW i \in FdIndexes, BootDuplicate(i)
  PROVE  /\ i \in Entries /\ ScanAddr \in FsAddr /\ IsValid(ScanAddr)
         /\ fd[i].header.id = Scanned.id /\ fd_index' = fd_index
         /\ \A j \in Entries : fd[j].address # ScanAddr
         /\ \A j \in Entries : j # i => fd'[j] = fd[j]
         /\ \/ /\ Invalidates(fd[i].address)
               /\ fd'[i] = [address |-> ScanAddr, sector |-> scan.sector,
                            header |-> HeaderOf(Scanned)]
            \/ Invalidates(ScanAddr) /\ fd'[i] = fd[i]
<1> DEFINE h == [fd[i].header EXCEPT !.size = FS_SIZEINVALID]
           g == [HeaderOf(flash[ScanAddr]) EXCEPT !.size = FS_SIZEINVALID]
           e == [address |-> ScanAddr, sector |-> scan.sector,
                 header |-> HeaderOf(Scanned)]
<1>1. /\ i \in Entries /\ fd[i].header.id = Scanned.id /\ fd_index' = fd_index
      /\ Scanning /\ mode = "boot" /\ IsValid(ScanAddr)
  BY Geometry DEF BootDuplicate, Search, Entries, TypeOK, Scanning, IsValid, Scanned,
     FdIndexes
<1>2. /\ scan.sector \in Sectors /\ scan.slot \in Slots /\ ScanAddr \in FsAddr
      /\ ScanAddr \in Addr
  BY <1>1, ScanFacts, FsAddrFacts DEF ScanAddr
<1>3. \A j \in Entries : fd[j].address # ScanAddr
  BY <1>1, <1>2, Geometry DEF EntriesAreScanned, IsScanned, ScanAddr, Sectors, Slots
<1>4. /\ fd[i].address \in Addr /\ h \in Header /\ h.size = FS_SIZEINVALID
      /\ g \in Header /\ g.size = FS_SIZEINVALID
  BY <1>1, <1>2, EntryFacts, HeaderType DEF Header, Sizes, TypeOK
<1>5. \/ /\ flash' = [flash EXCEPT ![fd[i].address] = ProgramHeader(@, h)]
         /\ fd' = [fd EXCEPT ![i] = e]
      \/ flash' = [flash EXCEPT ![ScanAddr] = ProgramHeader(@, g)] /\ fd' = fd
  BY DEF BootDuplicate
<1> HIDE DEF h, g
<1>6. \/ Invalidates(fd[i].address) /\ fd' = [fd EXCEPT ![i] = e]
      \/ Invalidates(ScanAddr) /\ fd' = fd
  BY <1>2, <1>4, <1>5, InvalidatingWrite
<1> HIDE DEF e
<1>7. \/ Invalidates(fd[i].address) /\ fd'[i] = e
      \/ Invalidates(ScanAddr) /\ fd'[i] = fd[i]
  BY <1>6 DEF TypeOK
<1>8. \A j \in Entries : j # i => fd'[j] = fd[j]
  BY <1>6, EntryFacts DEF TypeOK
<1> QED BY <1>1, <1>2, <1>3, <1>7, <1>8 DEF e

LEMMA ScannedBoot ==
  ASSUME TypeOK, TypeOK', EntriesDiffer, EntriesAreScanned, Boot
  PROVE  EntriesAreScanned'
<1>1. CASE BootDone
  BY <1>1 DEF BootDone, EntriesAreScanned
<1>2. CASE BootBlank
  <2>1. UNCHANGED <<flash, fd, fd_index, mode>> /\ mode = "boot"
    BY <1>2 DEF BootBlank, indexVars, Scanning
  <2> QED BY <1>2, <2>1, BlankAdvances, ValidKept DEF EntriesAreScanned, Entries
<1>3. CASE BootSkip \/ BootNoFd
  <2>1. /\ UNCHANGED <<flash, fd, fd_index, mode>> /\ Scanning /\ mode = "boot"
        /\ NextCell \/ NextSector
    BY <1>3 DEF BootSkip, BootNoFd, indexVars, Scanning
  <2> QED BY <2>1, ScanAdvances, ValidKept DEF EntriesAreScanned, Entries
<1>4. CASE BootIndex
  <2> DEFINE e == [address |-> ScanAddr, sector |-> scan.sector,
                   header |-> HeaderOf(Scanned)]
  <2>1. /\ UNCHANGED <<flash, mode>> /\ Scanning /\ mode = "boot" /\ NextCell
        /\ fd' = [fd EXCEPT ![fd_index] = e] /\ fd_index' = fd_index + 1
        /\ fd_index < FD_MAX /\ IsValid(ScanAddr)
    BY <1>4 DEF BootIndex, Scanning, IsValid, Scanned
  <2>2. /\ e.address = ScanAddr /\ e.sector = e.address[1]
        /\ e.header = HeaderOf(flash[ScanAddr])
    BY DEF ScanAddr, Scanned
  <2> HIDE DEF e
  <2>3. /\ \A j \in Entries : fd'[j] = fd[j]
        /\ fd'[fd_index] = e /\ Entries' = Entries \cup {fd_index}
    BY <2>1, EntryFacts, Geometry DEF Entries, FdIndexes, TypeOK
  <2>4. ScanAddr \in FsAddr
    BY <2>1, ScanFacts, FsAddrFacts DEF ScanAddr
  <2> QED BY <2>1, <2>2, <2>3, <2>4, ScanAdvances, ValidKept DEF EntriesAreScanned
<1>5. ASSUME NEW i \in FdIndexes, BootDuplicate(i)
      PROVE  EntriesAreScanned'
  <2>1. Scanning /\ mode = "boot" /\ mode' = mode /\ NextCell
    BY <1>5 DEF BootDuplicate, Scanning
  <2>2. /\ i \in Entries /\ ScanAddr \in FsAddr /\ IsValid(ScanAddr)
        /\ fd[i].header.id = Scanned.id /\ fd_index' = fd_index
        /\ \A j \in Entries : fd[j].address # ScanAddr
        /\ \A j \in Entries : j # i => fd'[j] = fd[j]
        /\ \/ /\ Invalidates(fd[i].address)
              /\ fd'[i] = [address |-> ScanAddr, sector |-> scan.sector,
                           header |-> HeaderOf(Scanned)]
           \/ Invalidates(ScanAddr) /\ fd'[i] = fd[i]
    BY <1>5, DuplicateFacts
  <2>3. \A j \in Entries : /\ fd[j].address \in FsAddr /\ IsScanned(fd[j].address)
                           /\ fd[j].sector = fd[j].address[1]
                           /\ IsValid(fd[j].address)
                           /\ HeaderOf(flash[fd[j].address]) = fd[j].header
    BY <2>1 DEF EntriesAreScanned
  <2>4. \A j \in Entries : j # i => fd[j].address # fd[i].address
    BY <2>2, <2>3 DEF EntriesDiffer
  <2>5. \A a \in FsAddr : IsScanned(a) \/ a = ScanAddr => IsScanned(a)'
    BY <2>1, ScanAdvances
  <2>6. CASE Invalidates(ScanAddr) /\ fd'[i] = fd[i]
    <3>1. \A j \in Entries : /\ fd'[j] = fd[j]
                             /\ flash'[fd[j].address] = flash[fd[j].address]
      BY <2>2, <2>3, <2>6, FsAddrFacts DEF Invalidates
    <3> QED BY <2>2, <2>3, <2>5, <3>1, ValidKept DEF EntriesAreScanned, Entries
  <2>7. CASE Invalidates(fd[i].address) /\ fd'[i] # fd[i]
    <3> DEFINE e == [address |-> ScanAddr, sector |-> scan.sector,
                     header |-> HeaderOf(Scanned)]
    <3>1. /\ fd'[i] = e /\ e.address = ScanAddr /\ e.sector = e.address[1]
          /\ e.header = HeaderOf(flash[ScanAddr])
      BY <2>2, <2>7 DEF ScanAddr, Scanned
    <3> HIDE DEF e
    <3>2. flash'[ScanAddr] = flash[ScanAddr]
      BY <2>2, <2>7, FsAddrFacts DEF Invalidates
    <3>3. \A j \in Entries : j # i => /\ fd'[j] = fd[j]
                                      /\ flash'[fd[j].address] = flash[fd[j].address]
      BY <2>2, <2>3, <2>4, <2>7, FsAddrFacts DEF Invalidates
    <3> QED BY <2>2, <2>3, <2>5, <3>1, <3>2, <3>3, ValidKept
            DEF EntriesAreScanned, Entries
  <2> QED BY <2>2, <2>6, <2>7
<1> QED BY <1>1, <1>2, <1>3, <1>4, <1>5 DEF Boot

LEMMA ScannedStep ==
  ASSUME TypeOK, TypeOK', KnownInv, EntriesAreScanned, [Next]_vars
  PROVE  EntriesAreScanned'
<1>1. CASE UNCHANGED vars
  BY <1>1 DEF vars, EntriesAreScanned, Entries, IsScanned, IsValid
<1>2. CASE PowerLoss \/ PowerLossInProgram
  <2>1. Entries' = {}
    BY <1>2 DEF PowerLoss, PowerLossInProgram, ClearRam, Entries
  <2> QED BY <2>1 DEF EntriesAreScanned
<1>3. CASE Boot
  BY <1>3, ScannedBoot DEF KnownInv
<1>4. CASE (\E id \in Ids, data \in Data : UserWrite(id, data)) \/ UserWriteTooLong
  BY <1>4 DEF UserWrite, UserWriteTooLong, Idle, bootVars, EntriesAreScanned
<1>5. CASE fs_write
  <2>1. mode' = "run"
    BY <1>5 DEF fs_write, updateSector, StaySector, ChangeSector, NoSector,
       MarkCurrent, ProgramBlock, InvalidateOld, Settle, NoFdLeft, Executing, bootVars
  <2> QED BY <2>1 DEF EntriesAreScanned
<1>6. CASE fs_thread
  <2>1. mode' = "run"
    BY <1>6 DEF fs_thread, ThreadBegin, ThreadSelect, ThreadRead, ThreadCopied,
       ThreadRetry, ThreadNext, ThreadErase, ThreadAt, ThreadRuns, bootVars
  <2> QED BY <2>1 DEF EntriesAreScanned
<1> QED BY <1>1, <1>2, <1>3, <1>4, <1>5, <1>6 DEF Next

(* The index that fs_init builds is sound at every moment, however many    *)
(* variables there are in FLASH and however a write was interrupted: each  *)
(* entry stands for a valid block, of a variable of its own.               *)
THEOREM BootIndexSound == Spec => []BootIndexIsSound
<1>1. Init => EntriesAreScanned
  <2>1. Init => Entries = {}
    BY DEF Init, ClearedRam, Entries
  <2> QED BY <2>1 DEF EntriesAreScanned
<1>2. TypeOK /\ TypeOK' /\ KnownInv /\ EntriesAreScanned /\ [Next]_vars
        => EntriesAreScanned'
  BY ScannedStep
<1>3. TypeOK /\ KnownInv /\ EntriesAreScanned => BootIndexIsSound
  <2> SUFFICES ASSUME TypeOK, KnownInv, EntriesAreScanned, mode = "boot", NEW i \in Entries
               PROVE  /\ IsValid(fd[i].address)
                      /\ HeaderOf(flash[fd[i].address]) = fd[i].header
                      /\ \A j \in 0 .. i - 1 : fd[j].header.id # fd[i].header.id
    BY DEF BootIndexIsSound, Entries
  <2>1. \A j \in 0 .. i - 1 : j \in Entries /\ j # i
    BY EntryFacts DEF Entries
  <2> QED BY <2>1 DEF KnownInv, EntriesDiffer, EntriesAreScanned
<1> QED BY <1>1, <1>2, <1>3, KnownEverywhere, PTL DEF Spec

-----------------------------------------------------------------------------
(* If the application has no more variables than the index has entries,    *)
(* there is always one for a variable that has none yet.                   *)
LEMMA IndexSuffices ==
  ASSUME EnoughEntries, TypeOK, KnownInv, NEW id \in Ids
  PROVE  ~Search(FD_MAX, id)
<1> SUFFICES ASSUME Search(FD_MAX, id)
             PROVE  FALSE
  OBVIOUS
<1>1. fd_index = FD_MAX /\ \A j \in Entries : fd[j].header.id # id
  BY EntryFacts, Geometry DEF Search, Entries
<1> DEFINE f == [i \in 0 .. FD_MAX |-> IF i \in Entries THEN fd[i].header.id ELSE id]
<1>2. f \in [0 .. FD_MAX -> Ids]
  BY DEF KnownInv, IdsAreKnown
<1>3. ASSUME NEW i \in 0 .. FD_MAX, NEW j \in 0 .. FD_MAX, f[i] = f[j]
      PROVE  i = j
  <2>1. i \in Entries \/ i = FD_MAX
    BY <1>1, Geometry DEF Entries
  <2>2. j \in Entries \/ j = FD_MAX
    BY <1>1, Geometry DEF Entries
  <2> QED BY <1>1, <1>3, <2>1, <2>2 DEF KnownInv, EntriesDiffer
<1> HIDE DEF f
<1>4. f \in Injection(0 .. FD_MAX, Ids)
  BY <1>2, <1>3 DEF Injection, IsInjective
<1>5. Cardinality(0 .. FD_MAX) <= Cardinality(Ids)
  BY <1>4, FS_Injection DEF EnoughEntries
<1>6. Cardinality(0 .. FD_MAX) = FD_MAX + 1
  BY FS_Interval, Geometry
<1>7. Cardinality(Ids) \in Nat /\ Cardinality(Ids) <= FD_MAX
  BY FS_CardinalityType DEF EnoughEntries
<1> QED BY <1>5, <1>6, <1>7, Geometry
=============================================================================
