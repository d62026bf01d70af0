------------------------ MODULE WormvarsSafetyProofs ------------------------
(***************************************************************************)
(* The invariant of WormvarsInv holds in every reachable state, and what   *)
(* WormvarsProps promises follows from it, for every number of sectors,    *)
(* cells, variables and entries of the index.  And wormvars implements     *)
(* VarStore: seen through what fs_init would recover, the running fs_write *)
(* of the application and what the last one returned, each step of it is a *)
(* step of the store or changes nothing there.                             *)
(***************************************************************************)
EXTENDS WormvarsInvProofs

-----------------------------------------------------------------------------
(* FLASH fresh from the factory. *)
LEMMA InvInit ==
  ASSUME Init
  PROVE  EntriesAreScanned /\ WhileBooting /\ WhileRunning
<1>1. /\ mode = "boot" /\ fd_index = 0
      /\ scan.sector = 0 /\ scan.slot = 0 /\ ~scan.assigned
      /\ \A a \in Addr : flash[a] = Blank
  BY DEF Init, ClearedRam, NoScan
<1>2. Entries = {}
  BY <1>1 DEF Entries
<1>3. \A a \in FsAddr : flash[a] = Blank /\ ~IsValid(a) /\ ~IsScanned(a)
  <2>1. checkBlock(Blank) # BLOCK_IS_VALID
    BY DEF checkBlock, BlankHeader, BLOCK_IS_BLANK, BLOCK_IS_VALID
  <2> QED BY <1>1, <2>1, FsAddrFacts, Geometry DEF IsValid, IsScanned, Sectors, Slots
<1>4. FlashInv
  <2>1. \A s \in Sectors, k \in Slots : flash[<<s, k>>] = Blank
    BY <1>3, FsAddrFacts
  <2>2. FilledInOrder
    BY <2>1 DEF FilledInOrder
  <2>3. OnePartial
    BY <2>1, Geometry DEF OnePartial, IsPartial, Slots
  <2>4. CopiesAreRanked
    BY <1>3 DEF CopiesAreRanked, Copies
  <2> QED BY <2>2, <2>3, <2>4 DEF FlashInv
<1>5. ScanInv
  <2>1. \A s \in Sectors : ~(s < 0)
    BY Geometry DEF Sectors
  <2>2. \A k \in Slots : ~(k < 0)
    BY Geometry DEF Slots
  <2> QED BY <1>1, <1>3, <2>1, <2>2 DEF ScanInv
<1> QED BY <1>1, <1>2, <1>4, <1>5 DEF EntriesAreScanned, WhileBooting, WhileRunning

(* A step that changes nothing but what fs_write has returned. *)
LEMMA InvSame ==
  ASSUME WhileBooting, WhileRunning,
         UNCHANGED <<flash, mode, scan, fd, fd_index, currAddress, currSector, lc,
                     reloc, calls>>
  PROVE  WhileBooting' /\ WhileRunning'
<1>1. mode = "boot" => FlashInv' /\ ScanInv'
  <2>1. FlashInv => FlashInv'
    BY DEF FlashInv, FilledInOrder, OnePartial, IsPartial, CopiesAreRanked, Copies,
       IsValid
  <2>2. ScanInv => ScanInv'
    BY DEF ScanInv, IsScanned, IsValid, Entries
  <2> QED BY <2>1, <2>2 DEF WhileBooting
<1>2. mode = "run" => RunInv'
  BY DEF WhileRunning, RunInv, AddressInv, EntriesInv, CallsInv, RelocInv, RewriteInv,
     Written, Retired, Running, Top, Target, Entries, IsValid, SECTOR_IS_FULL,
     SECTOR_IS_BLANK, Stays, Moved, Contents
<1> QED BY <1>1, <1>2 DEF WhileBooting, WhileRunning

LEMMA InvStep ==
  ASSUME EnoughEntries, TearsShow, IInv, TypeOK', [Next]_vars
  PROVE  WhileBooting' /\ WhileRunning'
<1>1. CASE UNCHANGED vars
  BY <1>1, InvSame DEF IInv, vars
<1>2. CASE UserWriteTooLong
  BY <1>2, InvSame DEF IInv, UserWriteTooLong, bootVars, indexVars, currVars
<1>3. CASE PowerLoss \/ PowerLossInProgram
  BY <1>3, BootLoss DEF IInv
<1>4. CASE Boot
  BY <1>4, BootStep DEF IInv
<1>5. ASSUME NEW id \in Ids, NEW data \in Data, UserWrite(id, data)
      PROVE  WhileBooting' /\ WhileRunning'
  <2>1. mode = "run" /\ mode' = "run"
    BY <1>5 DEF UserWrite, Idle, bootVars
  <2>2. RunInv'
    BY <1>5, <2>1, RunCall DEF IInv, WhileRunning
  <2> QED BY <2>1, <2>2 DEF WhileBooting, WhileRunning
<1>6. CASE fs_write
  <2>1. mode = "run" /\ mode' = "run"
    BY <1>6 DEF fs_write, updateSector, StaySector, ChangeSector, NoSector,
       MarkCurrent, ProgramBlock, InvalidateOld, Settle, NoFdLeft, Executing, bootVars
  <2>2. RunInv'
    BY <1>6, <2>1, RunWrite DEF IInv, WhileRunning
  <2> QED BY <2>1, <2>2 DEF WhileBooting, WhileRunning
<1>7. CASE fs_thread
  <2>1. mode = "run" /\ mode' = "run"
    BY <1>7 DEF fs_thread, ThreadBegin, ThreadSelect, ThreadRead, ThreadCopied,
       ThreadRetry, ThreadNext, ThreadErase, ThreadAt, ThreadRuns, bootVars
  <2>2. RunInv'
    BY <1>7, <2>1, RunThread DEF IInv, WhileRunning
  <2> QED BY <2>1, <2>2 DEF WhileBooting, WhileRunning
<1> QED BY <1>1, <1>2, <1>3, <1>4, <1>5, <1>6, <1>7 DEF Next

(* The invariant holds at every moment, from the first power-up on,        *)
(* however many resets and interrupted writes there have been.             *)
THEOREM InvariantHolds ==
  ASSUME EnoughEntries, TearsShow
  PROVE  Spec => []IInv
<1>1. TypeOK /\ NestingInv /\ KnownInv /\ Init => IInv
  BY InvInit DEF IInv
<1>2. IInv /\ [Next]_vars /\ (TypeOK /\ NestingInv /\ KnownInv)' => IInv'
  <2> SUFFICES ASSUME IInv, [Next]_vars, (TypeOK /\ NestingInv /\ KnownInv)'
               PROVE  IInv'
    OBVIOUS
  <2>1. EntriesAreScanned'
    BY ScannedStep DEF IInv
  <2>2. WhileBooting' /\ WhileRunning'
    BY InvStep
  <2> QED BY <2>1, <2>2 DEF IInv
<1> QED BY <1>1, <1>2, KnownEverywhere, PTL DEF Spec

-----------------------------------------------------------------------------
(* What a reset would recover.  The newest of the blocks of a variable     *)
(* counts.                                                                 *)
LEMMA NewestCounts ==
  ASSUME TypeOK, NEW id, NEW a \in Copies(id),
         \A b \in Copies(id) : b # a => flash[b].newer < flash[a].newer
  PROVE  Recovered(id) = flash[a].data
<1> DEFINE newest == {b \in Copies(id) :
                        \A c \in Copies(id) : flash[c].newer <= flash[b].newer}
<1>1. \A b \in Copies(id) : flash[b].newer \in Int
  BY FsAddrFacts DEF Copies, TypeOK, Cell, Flags, FS_BLOCK_CURRENT, FS_BLOCK_NEWER
<1>2. newest = {a}
  <2>1. a \in newest
    BY <1>1
  <2>2. ASSUME NEW b \in newest
        PROVE  b = a
    BY <1>1
  <2> QED BY <2>1, <2>2
<1> HIDE DEF newest
<1>3. (CHOOSE b \in newest : TRUE) = a
  BY <1>2
<1> QED BY <1>2, <1>3 DEF Recovered, newest

LEMMA NothingToRecover ==
  ASSUME NEW id, Copies(id) = {}
  PROVE  Recovered(id) = Missing
  BY DEF Recovered

(* After fs_init that is the block an fs_write has written, until the      *)
(* index takes it over, and otherwise the block of the entry.              *)
Replaced(id) == Written /\ Top.id = id

LEMMA WhatIsRecovered ==
  ASSUME TypeOK, KnownInv, RunInv, NEW id
  PROVE  /\ Replaced(id) => Recovered(id) = Contents(Top)
         /\ ~Replaced(id) => \A i \in Entries : fd[i].header.id = id =>
                               /\ Recovered(id) = flash[fd[i].address].data
                               /\ fd[i].address \in Copies(id)
         /\ ~Replaced(id) /\ (\A i \in Entries : fd[i].header.id # id) =>
              Recovered(id) = Missing
<1>1. \A b \in Copies(id) : b \in FsAddr /\ IsValid(b) /\ flash[b].id = id
  BY DEF Copies
<1>2. Written => ~SECTOR_IS_FULL(currSector)
  BY DEF Written, Running, RunInv, CallsInv
<1>3. ASSUME NEW b \in Copies(id), ~(Written /\ b = Target)
      PROVE  \E i \in Entries : /\ fd[i].address = b /\ ~Retired(i)
                                /\ fd[i].header.id = id
                                /\ fd[i].header.newer = flash[b].newer
  <2>1. PICK i \in Entries : fd[i].address = b
    BY <1>1, <1>3 DEF RunInv, EntriesInv
  <2>2. ~Retired(i) /\ HeaderOf(flash[b]) = fd[i].header
    BY <1>1, <2>1 DEF RunInv, EntriesInv
  <2> QED BY <1>1, <2>1, <2>2 DEF HeaderOf
<1>4. CASE Replaced(id)
  <2>1. /\ Written /\ IsValid(Target) /\ flash[Target].newer = FS_BLOCK_NEWER
        /\ flash[Target].id = id /\ flash[Target].data = Contents(Top)
    BY <1>4 DEF Replaced, RunInv, CallsInv
  <2>2. Target \in Copies(id)
    BY <1>2, <2>1, TargetFacts DEF Copies
  <2>3. ASSUME NEW b \in Copies(id), b # Target
        PROVE  flash[b].newer < flash[Target].newer
    <3>1. PICK i \in Entries : /\ ~Retired(i) /\ fd[i].header.id = id
                               /\ fd[i].header.newer = flash[b].newer
      BY <1>3, <2>3
    <3>2. Running({"program", "invalidate"})
      BY <1>4, <3>1 DEF Replaced, Retired, Written, Running
    <3>3. flash[b].newer = FS_BLOCK_CURRENT
      BY <1>4, <3>1, <3>2 DEF Replaced, RunInv, CallsInv
    <3> QED BY <2>1, <3>3 DEF FS_BLOCK_CURRENT, FS_BLOCK_NEWER
  <2> QED BY <1>4, <2>1, <2>2, <2>3, NewestCounts
<1>5. CASE ~Replaced(id)
  <2>1. \A b \in Copies(id) : ~(Written /\ b = Target)
    BY <1>1, <1>5 DEF Replaced, RunInv, CallsInv
  <2>2. ASSUME NEW i \in Entries, fd[i].header.id = id
        PROVE  /\ fd[i].address \in Copies(id)
               /\ Recovered(id) = flash[fd[i].address].data
    <3>1. ~Retired(i)
      BY <1>5, <2>2 DEF Retired, Replaced, Written, Running
    <3>2. /\ fd[i].address \in FsAddr /\ IsValid(fd[i].address)
          /\ HeaderOf(flash[fd[i].address]) = fd[i].header
      BY <3>1 DEF RunInv, EntriesInv
    <3>3. fd[i].address \in Copies(id)
      BY <2>2, <3>2 DEF Copies, HeaderOf
    <3>4. \A b \in Copies(id) : b = fd[i].address
      BY <1>3, <2>1, <2>2 DEF KnownInv, EntriesDiffer
    <3> QED BY <3>3, <3>4, NewestCounts
  <2>3. ASSUME \A i \in Entries : fd[i].header.id # id
        PROVE  Recovered(id) = Missing
    BY <1>3, <2>1, <2>3, NothingToRecover
  <2> QED BY <1>5, <2>2, <2>3
<1> QED BY <1>4, <1>5

(* fs_read finds the entry of the variable: there is only one. *)
LEMMA ReadsTheEntry ==
  ASSUME TypeOK, EntriesDiffer, NEW i \in Entries
  PROVE  fs_read(fd[i].header.id) = flash[fd[i].address].data
<1> DEFINE id == fd[i].header.id
           found == CHOOSE j \in 0 .. fd_index - 1 : Search(j, id)
<1>1. \A j \in 0 .. i - 1 : j \in Entries /\ j # i
  BY EntryFacts DEF Entries
<1>2. Search(i, id)
  BY <1>1, EntryFacts DEF Search, Entries, EntriesDiffer
<1>3. found \in 0 .. fd_index - 1 /\ Search(found, id)
  BY <1>2 DEF Entries
<1> HIDE DEF found
<1>4. fd[found].header.id = id /\ found \in Entries
  BY <1>3, EntryFacts DEF Search, Entries
<1>5. found = i
  BY <1>4 DEF EntriesDiffer
<1> QED BY <1>5 DEF fs_read, found

-----------------------------------------------------------------------------
(* The safety properties: each follows from the invariant.                 *)

(* What fs_read gives the application is what fs_init would recover if     *)
(* power failed at that moment, and it finds the same variables.           *)
THEOREM IndexAgrees ==
  ASSUME EnoughEntries, TearsShow
  PROVE  Spec => []IndexAgreesWithFlash
<1>1. IInv => IndexAgreesWithFlash
  <2> SUFFICES ASSUME IInv, Idle, NEW id \in Ids
               PROVE  IF IsIndexed(id) THEN fs_read(id) = Recovered(id)
                                       ELSE Recovered(id) = Missing
    BY DEF IndexAgreesWithFlash
  <2>1. RunInv /\ ~Replaced(id)
    BY DEF Idle, IInv, WhileRunning, Replaced, Written, Running
  <2>2. CASE IsIndexed(id)
    <3>1. PICK i \in Entries : fd[i].header.id = id
      BY <2>2 DEF IsIndexed, Entries
    <3> QED BY <2>1, <2>2, <3>1, ReadsTheEntry, WhatIsRecovered DEF IInv, KnownInv
  <2>3. CASE ~IsIndexed(id)
    BY <2>1, <2>3, WhatIsRecovered DEF IInv, IsIndexed, Entries
  <2> QED BY <2>2, <2>3
<1> QED BY <1>1, InvariantHolds, PTL

(* A variable that fs_read finds would be recovered if power failed.       *)
THEOREM IndexedKept ==
  ASSUME EnoughEntries, TearsShow
  PROVE  Spec => []IndexedIsKept
<1>1. IInv => IndexedIsKept
  <2> SUFFICES ASSUME IInv, Idle, NEW id \in Ids, IsIndexed(id)
               PROVE  Recovered(id) # Missing
    BY DEF IndexedIsKept
  <2>1. RunInv /\ ~Replaced(id)
    BY DEF Idle, IInv, WhileRunning, Replaced, Written, Running
  <2>2. PICK i \in Entries : fd[i].header.id = id
    BY DEF IsIndexed, Entries
  <2>3. Recovered(id) = flash[fd[i].address].data
    BY <2>1, <2>2, WhatIsRecovered DEF IInv
  <2>4. flash[fd[i].address].data \in DataField
    BY EntryFacts DEF IInv, TypeOK, Cell
  <2> QED BY <2>3, <2>4, MissingIsNoData DEF DataField
<1> QED BY <1>1, InvariantHolds, PTL

(* At every moment, fs_init included, two valid blocks of a variable can   *)
(* be ranked: fs_init never meets the case that it calls unexpected.       *)
THEOREM CopiesRanked ==
  ASSUME EnoughEntries, TearsShow
  PROVE  Spec => []CopiesAreRanked
<1>1. IInv => CopiesAreRanked
  <2> SUFFICES ASSUME IInv
               PROVE  FlashInv
    BY DEF FlashInv
  <2>1. CASE mode = "boot"
    BY <2>1 DEF IInv, WhileBooting
  <2>2. CASE mode = "run"
    BY <2>2, RunFlash DEF IInv, WhileRunning, RunInv, KnownInv
  <2> QED BY <2>1, <2>2 DEF IInv, TypeOK
<1> QED BY <1>1, InvariantHolds, PTL

(* fs_write never programs a cell that holds something, nor the cell after *)
(* the last one of a sector, whatever fs_thread did inside updateSector.   *)
THEOREM BlocksLandOnBlank ==
  ASSUME EnoughEntries, TearsShow
  PROVE  Spec => []WritesLandOnBlank
<1>1. IInv => WritesLandOnBlank
  <2> SUFFICES ASSUME IInv, Executing("program")
               PROVE  /\ Target \in FsAddr /\ flash[Target] = Blank
                      /\ ~SECTOR_IS_FULL(currSector)
    BY DEF WritesLandOnBlank
  <2>1. RunInv /\ ~Written /\ Running({"program"})
    BY DEF IInv, WhileRunning, Executing, Written, Running
  <2>2. ~SECTOR_IS_FULL(currSector)
    BY <2>1 DEF RunInv, CallsInv, Running
  <2> QED BY <2>1, <2>2, TargetIsBlank DEF IInv, RunInv
<1> QED BY <1>1, InvariantHolds, PTL

(* The application never sees a second sector partly written, after a      *)
(* reset either.                                                           *)
THEOREM OneSectorIsPartial ==
  ASSUME EnoughEntries, TearsShow
  PROVE  Spec => []OnlyActiveIsPartial
<1>1. IInv => OnlyActiveIsPartial
  <2> SUFFICES ASSUME IInv, Idle PROVE OnlyActiveIsPartial
    BY DEF OnlyActiveIsPartial
  <2>1. AddressInv /\ ~Written
    BY DEF Idle, IInv, WhileRunning, RunInv, Written, Running
  <2> QED BY <2>1, Geometry DEF AddressInv, OnlyActiveIsPartial, SECTOR_IS_BLANK,
                                SECTOR_IS_FULL
<1> QED BY <1>1, InvariantHolds, PTL

(* When the application has control, the write addresses are those of the  *)
(* first blank cells.                                                      *)
THEOREM AddressesAgree ==
  ASSUME EnoughEntries, TearsShow
  PROVE  Spec => []AddressesAgreeWithFlash
<1>1. IInv => AddressesAgreeWithFlash
  <2> SUFFICES ASSUME IInv, Idle PROVE AddressesAgreeWithFlash
    BY DEF AddressesAgreeWithFlash
  <2>1. AddressInv /\ ~Written
    BY DEF Idle, IInv, WhileRunning, RunInv, Written, Running
  <2> QED BY <2>1, FsAddrFacts DEF AddressInv, AddressesAgreeWithFlash
<1> QED BY <1>1, InvariantHolds, PTL

(* When relocation is due there is a sector to relocate, for every         *)
(* geometry that the #error in wormvars.c lets through.                    *)
THEOREM VictimAlwaysExists ==
  ASSUME EnoughEntries, TearsShow
  PROVE  Spec => []VictimExists
<1>1. IInv => VictimExists
  <2> SUFFICES ASSUME IInv, ThreadAt("select"), NeedsReloc
               PROVE  Candidates # {}
    BY DEF VictimExists
  <2>1. RunInv /\ ~Written
    BY DEF IInv, WhileRunning, ThreadAt, ThreadRuns, Written, Running
  <2> QED BY <2>1, VictimFound DEF IInv
<1> QED BY <1>1, InvariantHolds, PTL

(* An fs_write called by fs_thread writes what the variable holds at that  *)
(* moment, though the block was read turns ago.                            *)
THEOREM RelocationFresh ==
  ASSUME EnoughEntries, TearsShow
  PROVE  Spec => []RelocationIsFresh
<1>1. IInv => RelocationIsFresh
  <2> SUFFICES ASSUME IInv, NEW c \in 1 .. Len(calls), calls[c].caller = "fs_thread"
               PROVE  Contents(calls[c]) = Recovered(calls[c].id)
    BY DEF RelocationIsFresh
  <2>1. /\ calls \in Seq(Call) /\ calls # <<>> /\ Len(calls) \in {1, 2}
        /\ Len(calls) = 2 => calls[2].caller = "fs_thread"
    <3>1. Len(calls) \in Nat /\ Len(calls) <= 2 /\ calls # <<>>
      BY CallLength DEF IInv, TypeOK, NestingInv, NestingIsBounded
    <3>2. \A n \in Nat \ {0} : n <= 2 => n \in {1, 2}
      OBVIOUS
    <3>3. Len(calls) \in Nat \ {0}
      BY <3>1, CallLength DEF IInv, TypeOK
    <3>4. Len(calls) \in {1, 2}
      BY <3>1, <3>2, <3>3
    <3> QED BY <3>1, <3>4 DEF IInv, TypeOK, NestingInv
  <2>2. Top.caller = "fs_thread"
    BY <2>1 DEF Top
  <2>3. RunInv
    BY <2>1 DEF IInv, TypeOK, NestingInv, WhileRunning
  <2>4. /\ calls[c].id = reloc.id
        /\ flash[fd[reloc.fd_index].address].data = reloc.buffer
    BY <2>3 DEF RunInv, RewriteInv
  <2>5. /\ reloc.fd_index \in Entries
        /\ fd[reloc.fd_index].header.id = reloc.id
    <3>1. lc \in Relocating
      BY DEF IInv, KnownInv, IdsAreKnown, Rewriting, Relocating
    <3> QED BY <2>3, <3>1 DEF RunInv, RelocInv
  <2>6. Recovered(reloc.id) = reloc.buffer
    <3>1. CASE Replaced(reloc.id)
      BY <2>2, <2>3, <3>1, WhatIsRecovered DEF IInv, Contents
    <3>2. CASE ~Replaced(reloc.id)
      BY <2>3, <2>4, <2>5, <3>2, WhatIsRecovered DEF IInv
    <3> QED BY <3>1, <3>2
  <2> QED BY <2>4, <2>6 DEF Contents
<1> QED BY <1>1, InvariantHolds, PTL

-----------------------------------------------------------------------------
(* Erasing.  Programming a cell that is in use leaves it so; hence only an *)
(* erase makes a sector blank.                                             *)
LEMMA UsedCellStays ==
  ASSUME NEW c \in Cell, HeaderOf(c) # BlankHeader, NEW w
  PROVE  /\ Program(c, w) # Blank /\ ProgramHeader(c, w) # Blank
         /\ ProgramFlags(c, w) # Blank
<1>1. \/ c.size # FS_SIZEERASED \/ c.newer # FS_BLOCK_NEWER \/ c.id # Erased
  BY DEF HeaderOf, BlankHeader, Blank
<1>2. c.size # FS_SIZEERASED => AndBits(c.size, w.size) # FS_SIZEERASED
  BY DEF Cell, Sizes, AndBits, FS_SIZEINVALID, FS_SIZE32, FS_SIZEERASED
<1>3. c.newer # FS_BLOCK_NEWER => AndBits(c.newer, w.newer) # FS_BLOCK_NEWER
  BY DEF Cell, Flags, AndBits, FS_BLOCK_CURRENT, FS_BLOCK_NEWER
<1>4. c.id # Erased => AndField(c.id, w.id) # Erased
  BY FieldsDistinct DEF AndField
<1>5. /\ Blank.size = FS_SIZEERASED /\ Blank.newer = FS_BLOCK_NEWER
      /\ Blank.id = Erased
  BY DEF Blank
<1>6. Program(c, w) # Blank
  <2>1. /\ Program(c, w).size = AndBits(c.size, w.size)
        /\ Program(c, w).newer = AndBits(c.newer, w.newer)
        /\ Program(c, w).id = AndField(c.id, w.id)
    BY DEF Program
  <2> QED BY <1>1, <1>2, <1>3, <1>4, <1>5, <2>1
<1>7. ProgramHeader(c, w) # Blank
  <2>1. /\ ProgramHeader(c, w).size = AndBits(c.size, w.size)
        /\ ProgramHeader(c, w).newer = AndBits(c.newer, w.newer)
        /\ ProgramHeader(c, w).id = AndField(c.id, w.id)
    BY DEF ProgramHeader, Cell
  <2> QED BY <1>1, <1>2, <1>3, <1>4, <1>5, <2>1
<1>8. ProgramFlags(c, w) # Blank
  <2>1. /\ ProgramFlags(c, w).size = AndBits(c.size, w.size)
        /\ ProgramFlags(c, w).newer = AndBits(c.newer, w.newer)
        /\ ProgramFlags(c, w).id = c.id
    BY DEF ProgramFlags, Cell
  <2> QED BY <1>1, <1>2, <1>3, <1>5, <2>1
<1> QED BY <1>6, <1>7, <1>8

(* One cell is written on. *)
WritesOn == \E a, w : \/ flash' = [flash EXCEPT ![a] = Program(@, w)]
                      \/ flash' = [flash EXCEPT ![a] = ProgramHeader(@, w)]
                      \/ flash' = [flash EXCEPT ![a] = ProgramFlags(@, w)]

LEMMA WriteKeepsUsed ==
  ASSUME TearsShow, TypeOK, KnownInv, UNCHANGED flash \/ WritesOn,
         NEW s \in Sectors, \A k \in Slots : flash'[<<s, k>>] = Blank
  PROVE  \A k \in Slots : flash[<<s, k>>] = Blank
<1>1. CASE WritesOn
  <2> SUFFICES ASSUME NEW k \in Slots, flash[<<s, k>>] # Blank
               PROVE  flash'[<<s, k>>] # Blank
    OBVIOUS
  <2> DEFINE b == <<s, k>>
  <2>1. b \in Addr /\ flash[b] \in Cell /\ flash[b] # Blank
    BY FsAddrFacts DEF TypeOK
  <2> HIDE DEF b
  <2>2. HeaderOf(flash[b]) # BlankHeader
    BY <2>1 DEF KnownInv, CellsAreKnown, IsKnown
  <2>3. PICK a, w : \/ flash' = [flash EXCEPT ![a] = Program(@, w)]
                    \/ flash' = [flash EXCEPT ![a] = ProgramHeader(@, w)]
                    \/ flash' = [flash EXCEPT ![a] = ProgramFlags(@, w)]
    BY <1>1 DEF WritesOn
  <2>4. \/ flash'[b] = flash[b] \/ flash'[b] = Program(flash[b], w)
        \/ flash'[b] = ProgramHeader(flash[b], w)
        \/ flash'[b] = ProgramFlags(flash[b], w)
    BY <2>1, <2>3 DEF TypeOK
  <2>5. flash'[b] # Blank
    BY <2>1, <2>2, <2>4, UsedCellStays
  <2> QED BY <2>5 DEF b
<1> QED BY <1>1

LEMMA BootWrites ==
  ASSUME Boot
  PROVE  UNCHANGED flash \/ WritesOn
<1>1. CASE BootBlank \/ BootSkip \/ BootIndex \/ BootNoFd \/ BootDone
  BY <1>1 DEF BootBlank, BootSkip, BootIndex, BootNoFd, BootDone
<1>2. ASSUME NEW i \in FdIndexes, BootDuplicate(i)
      PROVE  WritesOn
  BY <1>2 DEF BootDuplicate, WritesOn
<1> QED BY <1>1, <1>2 DEF Boot

LEMMA WriteWrites ==
  ASSUME fs_write
  PROVE  UNCHANGED flash \/ WritesOn
<1>1. CASE updateSector \/ NoFdLeft
  BY <1>1 DEF updateSector, StaySector, ChangeSector, NoSector, NoFdLeft
<1>2. CASE ProgramBlock
  BY <1>2 DEF ProgramBlock, WritesOn
<1>3. ASSUME NEW i, MarkCurrent(i) \/ InvalidateOld(i) \/ Settle(i)
      PROVE  UNCHANGED flash \/ WritesOn
  BY <1>3 DEF MarkCurrent, InvalidateOld, Settle, WritesOn
<1> QED BY <1>1, <1>2, <1>3 DEF fs_write

LEMMA LossWrites ==
  ASSUME PowerLoss \/ PowerLossInProgram
  PROVE  UNCHANGED flash \/ WritesOn
<1>1. CASE PowerLossInProgram
  <2>1. PICK c \in TornWrites(flash[Target]) : flash' = [flash EXCEPT ![Target] = c]
    BY <1>1 DEF PowerLossInProgram
  <2>2. PICK t \in Tears : c = Program(flash[Target], TornCell[t])
    BY DEF TornWrites
  <2> QED BY <2>1, <2>2 DEF WritesOn
<1> QED BY <1>1 DEF PowerLoss

(* A sector that fs_thread erases has no entry left and is not the active  *)
(* one.                                                                    *)
Erases(s) == /\ s # currSector /\ \A i \in Entries : fd[i].sector # s
             /\ flash' = [a \in Addr |-> IF a[1] = s THEN Blank ELSE flash[a]]

LEMMA ThreadWrites ==
  ASSUME TypeOK, KnownInv, RunInv, fs_thread
  PROVE  UNCHANGED flash \/ \E s \in Sectors : Erases(s)
<1>1. CASE ThreadBegin \/ ThreadRead \/ ThreadCopied \/ ThreadRetry
  BY <1>1 DEF ThreadBegin, ThreadRead, ThreadCopied, ThreadRetry
<1>2. ASSUME NEW s \in Sectors, NEW j \in Nat, RelocateFrom(s, j), s # currSector,
             \A k \in Entries : k < j => fd[k].sector # s
      PROVE  UNCHANGED flash \/ Erases(s)
  <2>1. CASE \E i \in j .. fd_index - 1 : CopyFd(s, i)
    BY <2>1 DEF CopyFd
  <2>2. CASE (\A k \in j .. fd_index - 1 : fd[k].sector # s) /\ Erase(s)
    <3>1. \A k \in Entries : k < j \/ k \in j .. fd_index - 1
      BY EntryFacts DEF Entries
    <3> QED BY <1>2, <2>2, <3>1 DEF Erase, Erases
  <2> QED BY <1>2, <2>1, <2>2 DEF RelocateFrom
<1>3. CASE ThreadSelect
  <2>1. ASSUME NeedsReloc, NEW s \in Sectors, findRelocSector(s), RelocateFrom(s, 0)
        PROVE  UNCHANGED flash \/ Erases(s)
    <3>1. ~Written
      BY <1>3 DEF ThreadSelect, ThreadAt, ThreadRuns, Written, Running
    <3>2. s # currSector
      BY <2>1, <3>1, VictimFound DEF findRelocSector, Candidates
    <3>3. \A k \in Entries : ~(k < 0)
      BY DEF Entries
    <3> QED BY <1>2, <2>1, <3>2, <3>3
  <2> QED BY <1>3, <2>1 DEF ThreadSelect
<1>4. CASE ThreadNext
  <2>1. lc = "next" /\ RelocateFrom(reloc.sector, reloc.fd_index + 1)
    BY <1>4 DEF ThreadNext, ThreadAt
  <2>2. /\ reloc.sector \in Sectors /\ reloc.fd_index \in Nat /\ reloc.fd_index + 1 \in Nat
        /\ \A k \in Entries : k \in Nat
    BY Geometry DEF TypeOK, RelocRecord, Entries
  <2>3. /\ reloc.sector # currSector
        /\ \A k \in Entries : k < reloc.fd_index => fd[k].sector # reloc.sector
        /\ fd[reloc.fd_index].sector # reloc.sector
    BY <2>1 DEF RunInv, RelocInv, Relocating, Moved
  <2>4. \A k \in Entries : k < reloc.fd_index + 1 => fd[k].sector # reloc.sector
    BY <2>2, <2>3
  <2> QED BY <1>2, <2>1, <2>2, <2>3, <2>4
<1>5. CASE ThreadErase
  BY <1>5 DEF ThreadErase, ThreadAt, Erase, Erases, RunInv, RelocInv, TypeOK, RelocRecord
<1> QED BY <1>1, <1>3, <1>4, <1>5 DEF fs_thread

(* A sector becomes blank only when fs_thread erases it, after its last    *)
(* valid block has been written again elsewhere; the active sector never.  *)
THEOREM ErasingLosesNothing ==
  ASSUME EnoughEntries, TearsShow
  PROVE  Spec => EraseLosesNothing
<1> DEFINE Kept == \A s \in Sectors :
                     (\A k \in Slots : flash'[<<s, k>>] = Blank)
                       => \/ \A k \in Slots : flash[<<s, k>>] = Blank
                          \/ /\ \A k \in Slots : ~IsValid(<<s, k>>)
                             /\ s # currSector
<1>1. IInv /\ [Next]_vars => [Kept]_vars
  <2> SUFFICES ASSUME IInv, Next, NEW s \in Sectors,
                      \A k \in Slots : flash'[<<s, k>>] = Blank
               PROVE  \/ \A k \in Slots : flash[<<s, k>>] = Blank
                      \/ /\ \A k \in Slots : ~IsValid(<<s, k>>)
                         /\ s # currSector
    OBVIOUS
  <2>1. CASE UNCHANGED flash \/ WritesOn
    BY <2>1, WriteKeepsUsed DEF IInv
  <2>2. ASSUME fs_thread, NEW t \in Sectors, Erases(t)
        PROVE  \/ \A k \in Slots : flash[<<s, k>>] = Blank
               \/ /\ \A k \in Slots : ~IsValid(<<s, k>>)
                  /\ s # currSector
    <3>1. CASE s # t
      BY <2>2, <3>1, FsAddrFacts DEF Erases
    <3>2. CASE s = t
      <4>1. mode = "run" /\ ~Written
        BY <2>2 DEF fs_thread, ThreadBegin, ThreadSelect, ThreadRead, ThreadCopied,
           ThreadRetry, ThreadNext, ThreadErase, ThreadAt, ThreadRuns, Written, Running
      <4>2. EntriesInv
        BY <4>1 DEF IInv, WhileRunning, RunInv
      <4>3. ASSUME NEW k \in Slots, IsValid(<<s, k>>)
            PROVE  FALSE
        <5>1. PICK i \in Entries : fd[i].address = <<s, k>>
          BY <4>1, <4>2, <4>3, FsAddrFacts DEF EntriesInv
        <5>2. fd[i].sector = s
          BY <4>2, <5>1 DEF EntriesInv
        <5> QED BY <2>2, <3>2, <5>2 DEF Erases
      <4> QED BY <2>2, <3>2, <4>3 DEF Erases
    <3> QED BY <3>1, <3>2
  <2>3. CASE fs_thread
    <3>1. RunInv
      BY <2>3 DEF fs_thread, ThreadBegin, ThreadSelect, ThreadRead, ThreadCopied,
         ThreadRetry, ThreadNext, ThreadErase, ThreadAt, ThreadRuns, IInv, WhileRunning
    <3> QED BY <2>1, <2>2, <2>3, <3>1, ThreadWrites DEF IInv
  <2>4. CASE UserWriteTooLong \/ \E id \in Ids, data \in Data : UserWrite(id, data)
    BY <2>1, <2>4 DEF UserWriteTooLong, UserWrite
  <2> QED BY <2>1, <2>3, <2>4, BootWrites, WriteWrites, LossWrites DEF Next
<1>2. [][Kept]_vars => EraseLosesNothing
  BY PTL DEF EraseLosesNothing
<1> QED BY <1>1, <1>2, InvariantHolds, PTL DEF Spec

-----------------------------------------------------------------------------
(* Steps of the store. *)
SameStore == \A id \in Ids : Recovered(id)' = Recovered(id)

LEMMA StoreRests ==
  ASSUME SameStore, UserRequest' = UserRequest, ret' = ret
  PROVE  UNCHANGED Store!vars
<1>1. [id \in Ids |-> Recovered(id)]' = [id \in Ids |-> Recovered(id)]
  BY DEF SameStore
<1> QED BY <1>1 DEF Store!vars

LEMMA StoreLoses ==
  ASSUME SameStore, UserRequest' = Store!NoRequest, ret' = 0
  PROVE  Store!Next
<1>1. [id \in Ids |-> Recovered(id)]' = [id \in Ids |-> Recovered(id)]
  BY DEF SameStore
<1> QED BY <1>1 DEF Store!Next, Store!PowerLoss

LEMMA DoneField ==
  ASSUME NEW x, NEW y
  PROVE  [Store!Request(x, y, FALSE) EXCEPT !.done = TRUE] = Store!Request(x, y, TRUE)
<1> DEFINE r(a, e) == [active |-> a, id |-> x, data |-> y, done |-> e]
           s(a, e, t) == [r(a, e) EXCEPT !.done = t]
<1>1. \A a, e, t : s(a, e, t) = r(a, t)
  OBVIOUS
<1> HIDE DEF r, s
<1>2. s(TRUE, FALSE, TRUE) = r(TRUE, TRUE)
  BY <1>1, Zenon
<1> QED BY <1>2, Zenon DEF r, s, Store!Request

LEMMA StoreTakes ==
  ASSUME NEW id \in Ids, NEW d,
         UserRequest = Store!Request(id, d, FALSE),
         UserRequest' = Store!Request(id, d, TRUE),
         Recovered(id)' = d, \A j \in Ids \ {id} : Recovered(j)' = Recovered(j),
         ret' = ret
  PROVE  Store!Next
<1> DEFINE store == [j \in Ids |-> Recovered(j)]
<1>1. store' = [store EXCEPT ![id] = d]
  OBVIOUS
<1>2. /\ UserRequest.active /\ ~UserRequest.done
      /\ UserRequest.id = id /\ UserRequest.data = d
  BY DEF Store!Request
<1>3. UserRequest' = [UserRequest EXCEPT !.done = TRUE]
  <2>1. [Store!Request(id, d, FALSE) EXCEPT !.done = TRUE] = Store!Request(id, d, TRUE)
    BY DoneField, Zenon
  <2> QED BY <2>1, Zenon
<1> HIDE DEF store
<1>4. store' = [store EXCEPT ![UserRequest.id] = UserRequest.data]
  BY <1>1, <1>2
<1>5. Store!TakeEffect
  BY <1>2, <1>3, <1>4 DEF Store!TakeEffect, store
<1> QED BY <1>5 DEF Store!Next

LEMMA StoreCalls ==
  ASSUME SameStore, NEW id \in Ids, NEW d \in Data,
         UserRequest = Store!NoRequest,
         UserRequest' = Store!Request(id, d, FALSE),
         ret' = 0
  PROVE  Store!Next
<1>1. [j \in Ids |-> Recovered(j)]' = [j \in Ids |-> Recovered(j)]
  BY DEF SameStore
<1>2. ~UserRequest.active
  BY DEF Store!NoRequest
<1>3. Store!Call(id, d)
  BY <1>1, <1>2 DEF Store!Call
<1> QED BY <1>3 DEF Store!Next

LEMMA StoreReturns ==
  ASSUME SameStore, NEW id, NEW d, NEW done \in BOOLEAN,
         UserRequest = Store!Request(id, d, done),
         UserRequest' = Store!NoRequest,
         ret' = IF done THEN 0 ELSE -2
  PROVE  Store!Next
<1>1. [j \in Ids |-> Recovered(j)]' = [j \in Ids |-> Recovered(j)]
  BY DEF SameStore
<1>2. UserRequest.active /\ (UserRequest.done <=> done)
  BY DEF Store!Request
<1>3. Store!Succeed \/ Store!Fail
  BY <1>1, <1>2 DEF Store!Succeed, Store!Fail
<1> QED BY <1>3 DEF Store!Next

LEMMA StoreRefuses ==
  ASSUME SameStore, UserRequest = Store!NoRequest, UserRequest' = UserRequest,
         ret' = -1
  PROVE  Store!Next
<1>1. [j \in Ids |-> Recovered(j)]' = [j \in Ids |-> Recovered(j)]
  BY DEF SameStore
<1>2. ~UserRequest.active
  BY DEF Store!NoRequest
<1> QED BY <1>1, <1>2 DEF Store!Next, Store!Refuse

-----------------------------------------------------------------------------
(* The request: it is that of the fs_write that the application has called. *)
Late == {"invalidate", "settle"}

LEMMA RequestIs ==
  /\ calls = <<>> \/ calls[1].caller # "user" => UserRequest = Store!NoRequest
  /\ calls # <<>> /\ calls[1].caller = "user" =>
       UserRequest = Store!Request(calls[1].id, calls[1].data, calls[1].at \in Late)
  BY DEF UserRequest, Store!NoRequest, Store!Request, Late

LEMMA NextRequestIs ==
  /\ calls' = <<>> \/ calls'[1].caller # "user" => UserRequest' = Store!NoRequest
  /\ calls' # <<>> /\ calls'[1].caller = "user" =>
       UserRequest' = Store!Request(calls'[1].id, calls'[1].data, calls'[1].at \in Late)
  BY DEF UserRequest, Store!NoRequest, Store!Request, Late

LEMMA RequestStays ==
  ASSUME calls # <<>>, calls' # <<>>, SameCalls(calls, calls', 1),
         calls[1].caller = "user" => (calls[1].at \in Late <=> calls'[1].at \in Late)
  PROVE  UserRequest' = UserRequest
<1>1. /\ calls'[1].caller = calls[1].caller /\ calls'[1].id = calls[1].id
      /\ calls'[1].data = calls[1].data
  BY DEF SameCalls
<1>2. CASE calls[1].caller = "user"
  <2>1. (calls'[1].at \in Late) = (calls[1].at \in Late)
    BY <1>2
  <2> QED BY <1>1, <1>2, <2>1, RequestIs, NextRequestIs
<1>3. CASE calls[1].caller # "user"
  BY <1>1, <1>3, RequestIs, NextRequestIs
<1> QED BY <1>2, <1>3

(* At most two activations, and the second one is by fs_thread. *)
LEMMA CallsAre ==
  ASSUME TypeOK, NestingInv, calls # <<>>
  PROVE  /\ 1 \in 1 .. Len(calls) /\ Len(calls) \in {1, 2}
         /\ Len(calls) = 1 => Top = calls[1]
         /\ Len(calls) = 2 => Top.caller = "fs_thread" /\ calls[1].at = "fs_thread"
<1>1. Len(calls) \in Nat \ {0} /\ Len(calls) <= 2
  BY CallLength DEF TypeOK, NestingInv, NestingIsBounded
<1>2. \A n \in Nat \ {0} : n <= 2 => n \in {1, 2}
  OBVIOUS
<1>3. Len(calls) \in {1, 2}
  BY <1>1, <1>2
<1> QED BY <1>3 DEF Top, NestingInv

LEMMA RequestGoesOn ==
  ASSUME TypeOK, NestingInv, NEW from, NEW to \in CallPoints, Executing(from), GoTo(to),
         (from \in Late <=> to \in Late) \/ Top.caller # "user"
  PROVE  UserRequest' = UserRequest
<1>1. /\ calls # <<>> /\ calls' # <<>> /\ Top.at = from /\ Top \in Call
      /\ Len(calls') = Len(calls) /\ SameCalls(calls, calls', Len(calls))
      /\ \A c \in 1 .. Len(calls) - 1 : calls'[c] = calls[c]
      /\ Top' = [Top EXCEPT !.at = to]
  BY GoToCalls, TopFacts DEF Executing
<1>2. SameCalls(calls, calls', 1)
  BY <1>1, CallsAre DEF SameCalls
<1>3. CASE Len(calls) = 1
  <2>1. Top = calls[1] /\ Top' = calls'[1] /\ Top'.at = to
    BY <1>1, <1>3 DEF Top, Call
  <2> QED BY <1>1, <1>2, <2>1, RequestStays
<1>4. CASE Len(calls) = 2
  <2>1. calls'[1] = calls[1]
    BY <1>1, <1>4
  <2> QED BY <1>1, <1>2, <2>1, RequestStays
<1> QED BY <1>1, <1>3, <1>4, CallsAre

LEMMA RequestReturns ==
  ASSUME TypeOK, NestingInv, NEW from, NEW res \in {0, -1, -2}, Executing(from),
         Return(res)
  PROVE  /\ Top.caller # "user" => UserRequest' = UserRequest /\ ret' = ret
         /\ Top.caller = "user" =>
              /\ UserRequest = Store!Request(Top.id, Top.data, from \in Late)
              /\ UserRequest' = Store!NoRequest /\ ret' = res
<1>1. /\ calls \in Seq(Call) /\ calls' \in Seq(Call) /\ Len(calls') = Len(calls) - 1
      /\ SameCalls(calls, calls', Len(calls'))
      /\ calls' # <<>> => Len(calls) = 2 /\ Len(calls') = 1 /\ Top'.at = "mark"
      /\ calls # <<>> /\ Top.at = from
  BY ReturnCalls DEF TypeOK, Executing
<1>2. CASE Top.caller = "user"
  <2>1. Len(calls) = 1 /\ Top = calls[1] /\ calls' = <<>>
    BY <1>1, <1>2, CallsAre
  <2>2. ret' = res
    BY <1>2 DEF Return
  <2>3. (calls[1].at \in Late) = (from \in Late)
    BY <1>1, <2>1
  <2> QED BY <1>1, <1>2, <2>1, <2>2, <2>3, RequestIs, NextRequestIs
<1>3. CASE Top.caller # "user"
  <2>1. ret' = ret
    BY <1>3 DEF Return
  <2>2. CASE calls' = <<>>
    <3>1. Len(calls) = 1
      BY <1>1, <2>2, CallLength
    <3> QED BY <1>1, <1>3, <2>1, <2>2, <3>1, CallsAre, RequestIs, NextRequestIs
  <2>3. CASE calls' # <<>>
    <3>1. /\ Len(calls') = 1 /\ calls[1].at = "fs_thread" /\ calls'[1].at = "mark"
      BY <1>1, <2>3, CallsAre DEF Top
    <3> QED BY <1>1, <1>3, <2>1, <2>3, <3>1, RequestStays DEF Late
  <2> QED BY <1>3, <2>2, <2>3
<1> QED BY <1>2, <1>3

LEMMA RequestYields ==
  ASSUME TypeOK, NestingInv, ThreadRuns, NEW l \in Continuations, YieldAt(l)
  PROVE  UserRequest' = UserRequest
<1>1. /\ calls \in Seq(Call) /\ calls' \in Seq(Call) /\ Len(calls') = Len(calls)
      /\ SameCalls(calls, calls', Len(calls)) /\ Len(calls') \in {0, 1}
      /\ calls' # <<>> => calls # <<>> /\ Top'.at = "mark"
  BY YieldCalls, YieldKeeps DEF TypeOK
<1>2. CASE calls' = <<>>
  <2>1. calls = <<>>
    BY <1>1, <1>2, CallLength
  <2> QED BY <1>2, <2>1, RequestIs, NextRequestIs
<1>3. CASE calls' # <<>>
  <2>1. Len(calls) = 1 /\ Len(calls') = 1
    BY <1>1, <1>3, CallLength
  <2>2. calls[1].at = "fs_thread" /\ calls'[1].at = "mark"
    BY <1>1, <1>3, <2>1 DEF Top, ThreadRuns
  <2> QED BY <1>1, <1>3, <2>1, <2>2, RequestStays DEF Late
<1> QED BY <1>2, <1>3

LEMMA RequestNested ==
  ASSUME TypeOK, NestingInv, ThreadRuns, CallFsWrite
  PROVE  UserRequest' = UserRequest
<1>1. /\ calls' \in Seq(Call) /\ Len(calls') = Len(calls) + 1 /\ calls' # <<>>
      /\ \A c \in 1 .. Len(calls) : calls'[c] = calls[c]
      /\ Top'.caller = "fs_thread"
  BY PushCalls
<1>2. CASE calls = <<>>
  <2>1. Len(calls') = 1
    BY <1>1, <1>2
  <2>2. calls'[1].caller # "user"
    BY <1>1, <2>1 DEF Top
  <2> QED BY <1>2, <2>2, RequestIs, NextRequestIs
<1>3. CASE calls # <<>>
  <2>1. calls'[1] = calls[1]
    BY <1>1, <1>3, CallsAre
  <2> QED BY <1>1, <1>3, <2>1, RequestStays DEF SameCalls
<1> QED BY <1>2, <1>3

-----------------------------------------------------------------------------
(* What is recovered depends on the valid blocks alone. *)
LEMMA SameCopies ==
  ASSUME NEW id, Copies(id)' = Copies(id),
         \A a \in Copies(id) : flash'[a] = flash[a]
  PROVE  Recovered(id)' = Recovered(id)
<1> DEFINE newest == {a \in Copies(id) :
                        \A b \in Copies(id) : flash[b].newer <= flash[a].newer}
<1>1. newest' = newest
  OBVIOUS
<1>2. newest # {} => (CHOOSE a \in newest : TRUE) \in Copies(id)
  OBVIOUS
<1>3. Recovered(id) = IF newest = {} THEN Missing
                      ELSE flash[CHOOSE a \in newest : TRUE].data
  BY DEF Recovered
<1>4. Recovered(id)' = IF newest' = {} THEN Missing
                       ELSE flash'[CHOOSE a \in newest' : TRUE].data
  BY DEF Recovered
<1> HIDE DEF newest
<1> QED BY <1>1, <1>2, <1>3, <1>4

LEMMA SameFlash ==
  ASSUME UNCHANGED flash
  PROVE  SameStore
<1>1. \A id : Copies(id)' = Copies(id)
  BY DEF Copies, IsValid
<1> QED BY <1>1, SameCopies DEF SameStore

(* Of two blocks of a variable the older one is invalidated. *)
LEMMA NewestCountsNext ==
  ASSUME TypeOK', NEW id, NEW a \in Copies(id)',
         \A b \in Copies(id)' : b # a => flash'[b].newer < flash'[a].newer
  PROVE  Recovered(id)' = flash'[a].data
<1> DEFINE newest == {b \in Copies(id)' :
                        \A c \in Copies(id)' : flash'[c].newer <= flash'[b].newer}
<1>1. \A b \in Copies(id)' : flash'[b].newer \in Int
  BY FsAddrFacts DEF Copies, TypeOK, Cell, Flags, FS_BLOCK_CURRENT, FS_BLOCK_NEWER
<1>2. newest = {a}
  <2>1. a \in newest
    BY <1>1
  <2>2. ASSUME NEW b \in newest
        PROVE  b = a
    BY <1>1
  <2> QED BY <2>1, <2>2
<1>3. Recovered(id)' = IF newest = {} THEN Missing
                       ELSE flash'[CHOOSE b \in newest : TRUE].data
  BY DEF Recovered
<1> HIDE DEF newest
<1>4. (CHOOSE b \in newest : TRUE) = a
  BY <1>2
<1> QED BY <1>2, <1>3, <1>4

LEMMA LoserGoes ==
  ASSUME TypeOK, TypeOK', CopiesAreRanked, NEW l \in FsAddr, NEW w \in FsAddr,
         IsValid(l), IsValid(w), l # w, flash[l].id = flash[w].id,
         flash[w].newer = FS_BLOCK_NEWER \/ flash[l].newer = FS_BLOCK_CURRENT,
         Invalidates(l)
  PROVE  SameStore
<1>1. /\ ~IsValid(l)'
      /\ \A a \in FsAddr : a # l => (IsValid(a)' <=> IsValid(a)) /\ flash'[a] = flash[a]
  BY InvalidatedCell, FsAddrFacts
<1>2. \A id : Copies(id)' = Copies(id) \ {l}
  BY <1>1 DEF Copies
<1>3. ASSUME NEW id \in Ids
      PROVE  Recovered(id)' = Recovered(id)
  <2>1. CASE id # flash[l].id
    <3>1. l \notin Copies(id)
      BY <2>1 DEF Copies
    <3>2. Copies(id)' = Copies(id) /\ \A a \in Copies(id) : flash'[a] = flash[a]
      BY <1>1, <1>2, <3>1 DEF Copies
    <3> QED BY <3>2, SameCopies
  <2>2. CASE id = flash[l].id
    <3>1. l \in Copies(id) /\ w \in Copies(id) /\ id \in IdField
      BY <2>2 DEF Copies, IdField
    <3>2. \A a, b \in Copies(id) : a # b => flash[a].newer # flash[b].newer
      BY <3>1 DEF CopiesAreRanked
    <3>3. \A a \in Copies(id) : flash[a].newer \in {FS_BLOCK_CURRENT, FS_BLOCK_NEWER}
      BY FsAddrFacts DEF Copies, TypeOK, Cell, Flags
    <3>4. flash[w].newer = FS_BLOCK_NEWER
      BY <3>1, <3>2, <3>3
    <3>5. \A a \in Copies(id) : a # w => flash[a].newer < flash[w].newer
      BY <3>1, <3>2, <3>3, <3>4 DEF FS_BLOCK_CURRENT, FS_BLOCK_NEWER
    <3>6. Recovered(id) = flash[w].data
      BY <3>1, <3>5, NewestCounts
    <3>7. /\ w \in Copies(id)' /\ flash'[w] = flash[w]
          /\ \A a \in Copies(id)' : a \in Copies(id) /\ flash'[a] = flash[a]
      BY <1>1, <1>2, <3>1 DEF Copies
    <3>8. Recovered(id)' = flash'[w].data
      BY <3>5, <3>7, NewestCountsNext
    <3> QED BY <3>6, <3>7, <3>8
  <2> QED BY <2>1, <2>2
<1> QED BY <1>3 DEF SameStore

(* fs_init: blocks are only invalidated, and each time the one that does   *)
(* not count.                                                              *)
IsOlder(l, w) ==
  /\ IsValid(l) /\ IsValid(w) /\ l # w /\ flash[l].id = flash[w].id
  /\ flash[w].newer = FS_BLOCK_NEWER \/ flash[l].newer = FS_BLOCK_CURRENT

LEMMA DuplicateLoses ==
  ASSUME TearsShow, IInv, TypeOK', NEW i \in FdIndexes, BootDuplicate(i)
  PROVE  \E l, w \in FsAddr : IsOlder(l, w) /\ Invalidates(l)
<1>1. mode = "boot"
  BY DEF BootDuplicate, Scanning
<1>2. /\ i \in Entries /\ ScanAddr \in FsAddr /\ IsValid(ScanAddr)
      /\ fd[i].header.id = Scanned.id /\ fd[i].address # ScanAddr
  BY DuplicateFacts DEF IInv
<1>3. PICK a \in FsAddr : a = fd[i].address
  BY <1>1, <1>2 DEF IInv, EntriesAreScanned
<1>4. IsValid(a) /\ HeaderOf(flash[a]) = fd[i].header
  BY <1>1, <1>2, <1>3 DEF IInv, EntriesAreScanned
<1>5. PICK b \in FsAddr : b = ScanAddr
  BY <1>2
<1>6. IsValid(b) /\ flash[b] = Scanned /\ a # b /\ flash[b].id = flash[a].id
      /\ flash[a].newer = fd[i].header.newer
  BY <1>2, <1>3, <1>4, <1>5 DEF Scanned, HeaderOf
<1>7. a \in Addr /\ b \in Addr /\ flash[b] \in Cell /\ fd[i].header \in Header
  BY <1>2, FsAddrFacts, EntryFacts DEF IInv, TypeOK
<1>8. CASE /\ fd[i].header.newer = FS_BLOCK_CURRENT
           /\ Scanned.newer = FS_BLOCK_NEWER
  <2> DEFINE h == [fd[i].header EXCEPT !.size = FS_SIZEINVALID]
  <2>1. flash' = [flash EXCEPT ![a] = ProgramHeader(@, h)]
    BY <1>3, <1>8 DEF BootDuplicate
  <2>2. h \in Header /\ h.size = FS_SIZEINVALID
    BY <1>7 DEF Header, Sizes
  <2> HIDE DEF h
  <2>3. Invalidates(a)
    BY <1>7, <2>1, <2>2, InvalidatingWrite DEF IInv
  <2> QED BY <1>4, <1>6, <1>8, <2>3 DEF IsOlder
<1>9. CASE ~(/\ fd[i].header.newer = FS_BLOCK_CURRENT
             /\ Scanned.newer = FS_BLOCK_NEWER)
  <2> DEFINE h == [HeaderOf(flash[b]) EXCEPT !.size = FS_SIZEINVALID]
  <2>1. flash' = [flash EXCEPT ![b] = ProgramHeader(@, h)]
    BY <1>5, <1>9 DEF BootDuplicate
  <2>2. h \in Header /\ h.size = FS_SIZEINVALID
    BY <1>7, HeaderType DEF Header, Sizes
  <2> HIDE DEF h
  <2>3. Invalidates(b)
    BY <1>7, <2>1, <2>2, InvalidatingWrite DEF IInv
  <2>4. flash[a].newer = FS_BLOCK_NEWER \/ flash[b].newer = FS_BLOCK_CURRENT
    BY <1>6, <1>7, <1>9 DEF Cell, Header, Flags
  <2> QED BY <1>4, <1>6, <2>3, <2>4 DEF IsOlder
<1> QED BY <1>8, <1>9

LEMMA BootStore ==
  ASSUME TearsShow, IInv, TypeOK', Boot
  PROVE  UNCHANGED Store!vars
<1>1. calls' = calls /\ ret' = ret
  BY DEF Boot, BootBlank, BootSkip, BootIndex, BootNoFd, BootDone, BootDuplicate
<1>2. UserRequest' = UserRequest
  BY <1>1 DEF UserRequest
<1>3. CASE BootBlank \/ BootSkip \/ BootIndex \/ BootNoFd \/ BootDone
  <2>1. UNCHANGED flash
    BY <1>3 DEF BootBlank, BootSkip, BootIndex, BootNoFd, BootDone
  <2> QED BY <1>1, <1>2, <2>1, SameFlash, StoreRests
<1>4. ASSUME NEW i \in FdIndexes, BootDuplicate(i)
      PROVE  UNCHANGED Store!vars
  <2>1. CopiesAreRanked
    BY <1>4 DEF BootDuplicate, Scanning, IInv, WhileBooting, FlashInv
  <2>2. PICK l \in FsAddr, w \in FsAddr : IsOlder(l, w) /\ Invalidates(l)
    BY <1>4, DuplicateLoses
  <2>3. SameStore
    BY <2>1, <2>2, LoserGoes DEF IInv, IsOlder
  <2> QED BY <1>1, <1>2, <2>3, StoreRests
<1> QED BY <1>3, <1>4 DEF Boot

(* Power fails: what was being written is not valid. *)
LEMMA TornTouches ==
  ASSUME TearsShow, IInv, PowerLossInProgram
  PROVE  /\ ~Written /\ ~SECTOR_IS_FULL(currSector)
         /\ Target \in FsAddr /\ flash[Target] = Blank
         /\ \A a \in Addr : a # Target => flash'[a] = flash[a]
         /\ \A id : /\ Copies(id)' = Copies(id)
                    /\ \A a \in Copies(id) : flash'[a] = flash[a]
<1>1. /\ Executing("program")
      /\ \E c \in TornWrites(flash[Target]) : flash' = [flash EXCEPT ![Target] = c]
  BY DEF PowerLossInProgram
<1>2. RunInv /\ ~Written /\ ~SECTOR_IS_FULL(currSector)
  BY <1>1 DEF Executing, IInv, WhileRunning, RunInv, CallsInv, Written, Running
<1>3. PICK t \in FsAddr : t = Target /\ t \in Addr
  BY <1>2, TargetFacts DEF IInv
<1>4. PICK c \in TornWrites(flash[t]) : flash' = [flash EXCEPT ![t] = c]
  BY <1>1, <1>3
<1>5. c \in Cell /\ ~c.hash
  BY <1>3, <1>4, TornType, TornKnown DEF IInv, TypeOK, KnownInv, CellsAreKnown
<1>6. flash'[t] = c /\ \A a \in Addr : a # t => flash'[a] = flash[a]
  BY <1>3, <1>4 DEF IInv, TypeOK
<1>7. flash[t] = Blank
  BY <1>2, <1>3, TargetIsBlank DEF IInv, RunInv
<1>8. ~IsValid(t)' /\ ~IsValid(t)
  BY <1>5, <1>6, <1>7, CheckBlockFacts
  DEF IsValid, checkBlock, BlankHeader, BLOCK_IS_VALID, BLOCK_IS_BLANK
<1>9. \A id : /\ Copies(id)' = Copies(id)
             /\ \A a \in Copies(id) : flash'[a] = flash[a]
  BY <1>6, <1>8, ValidKept, FsAddrFacts DEF Copies
<1> QED BY <1>2, <1>3, <1>6, <1>7, <1>9

LEMMA LossStore ==
  ASSUME TearsShow, IInv, PowerLoss \/ PowerLossInProgram
  PROVE  Store!Next
<1>1. calls' = <<>> /\ ret' = 0
  BY DEF PowerLoss, PowerLossInProgram, ClearRam
<1>2. UserRequest' = Store!NoRequest
  BY <1>1, NextRequestIs
<1>3. CASE PowerLoss
  BY <1>1, <1>2, <1>3, SameFlash, StoreLoses DEF PowerLoss
<1>4. CASE PowerLossInProgram
  <2>1. SameStore
    BY <1>4, TornTouches, SameCopies DEF SameStore
  <2> QED BY <1>1, <1>2, <2>1, StoreLoses
<1> QED BY <1>3, <1>4

-----------------------------------------------------------------------------
(* After fs_init: WhatIsRecovered, as an invariant. *)
RecoveredInv ==
  mode = "run" =>
    \A id \in Ids :
      /\ Replaced(id) => Recovered(id) = Contents(Top)
      /\ ~Replaced(id) => \A i \in Entries : fd[i].header.id = id =>
                            Recovered(id) = flash[fd[i].address].data
      /\ ~Replaced(id) /\ (\A i \in Entries : fd[i].header.id # id) =>
           Recovered(id) = Missing

LEMMA RecoveredFollows ==
  ASSUME IInv
  PROVE  RecoveredInv
  BY WhatIsRecovered DEF IInv, WhileRunning, RecoveredInv

(* The invariants of a step, at both ends. *)
BothEnds == IInv /\ IInv' /\ RecoveredInv /\ RecoveredInv'

(* A variable that is not being replaced keeps its contents with its entry. *)
LEMMA EntryKeeps ==
  ASSUME BothEnds, mode = "run", mode' = "run", NEW id \in Ids, ~Replaced(id),
         ~Replaced(id)',
         \A i \in Entries : fd[i].header.id = id =>
           /\ i \in Entries' /\ fd'[i].header.id = id
           /\ flash'[fd'[i].address].data = flash[fd[i].address].data,
         \A i \in Entries' : fd'[i].header.id = id =>
           i \in Entries /\ fd[i].header.id = id
  PROVE  Recovered(id)' = Recovered(id)
<1>1. CASE \E i \in Entries : fd[i].header.id = id
  BY <1>1 DEF BothEnds, RecoveredInv
<1>2. CASE \A i \in Entries : fd[i].header.id # id
  BY <1>2 DEF BothEnds, RecoveredInv
<1> QED BY <1>1, <1>2

(* Steps that keep every entry where it is and its data. *)
LEMMA EntriesKeep ==
  ASSUME BothEnds, mode = "run", mode' = "run",
         \A id \in Ids : /\ Replaced(id)' <=> Replaced(id)
                         /\ Replaced(id) => Contents(Top)' = Contents(Top),
         Entries' = Entries,
         \A i \in Entries : /\ fd'[i].header.id = fd[i].header.id
                            /\ fd'[i].address = fd[i].address
                            /\ flash'[fd[i].address].data = flash[fd[i].address].data
  PROVE  SameStore
<1> SUFFICES ASSUME NEW id \in Ids
             PROVE  Recovered(id)' = Recovered(id)
  BY DEF SameStore
<1>1. CASE Replaced(id)
  BY <1>1 DEF BothEnds, RecoveredInv
<1>2. CASE ~Replaced(id)
  BY <1>2, EntryKeeps
<1> QED BY <1>1, <1>2

(* Writing a header leaves the data alone. *)
LEMMA DataStays ==
  ASSUME TypeOK, NEW b, NEW h,
         \/ flash' = [flash EXCEPT ![b] = ProgramHeader(@, h)]
         \/ flash' = [flash EXCEPT ![b] = ProgramFlags(@, h)]
  PROVE  \A a \in Addr : flash'[a].data = flash[a].data
<1>1. \A c \in Cell : ProgramHeader(c, h).data = c.data /\ ProgramFlags(c, h).data = c.data
  BY DEF ProgramHeader, ProgramFlags, Cell
<1> QED BY <1>1 DEF TypeOK

(* The header of entry i is written, in the index and in FLASH, or nothing *)
(* is.                                                                     *)
LEMMA HeaderOnly ==
  ASSUME TypeOK, NEW i \in Entries, NEW h \in Header, h.id = fd[i].header.id,
         fd' = [fd EXCEPT ![i].header = h], UNCHANGED fd_index,
         \/ flash' = [flash EXCEPT ![fd[i].address] = ProgramHeader(@, h)]
         \/ flash' = [flash EXCEPT ![fd[i].address] = ProgramFlags(@, h)]
  PROVE  /\ Entries' = Entries
         /\ \A j \in Entries :
              /\ fd'[j].header.id = fd[j].header.id /\ fd'[j].address = fd[j].address
              /\ flash'[fd[j].address].data = flash[fd[j].address].data
<1>1. Entries' = Entries
  BY DEF Entries
<1>2. \A j \in Entries : j \in FdIndexes /\ fd[j].address \in Addr
  BY EntryFacts
<1>3. \A a \in Addr : flash'[a].data = flash[a].data
  BY DataStays
<1>4. /\ \A j \in Entries : j # i => fd'[j] = fd[j]
      /\ fd'[i].header = h /\ fd'[i].address = fd[i].address
  BY <1>2 DEF TypeOK, FileDescriptor
<1> QED BY <1>1, <1>2, <1>3, <1>4

(* Between two FLASH writes of fs_write. *)
LEMMA PointFacts ==
  ASSUME TypeOK, NEW from, NEW to \in CallPoints, Executing(from), GoTo(to),
         UNCHANGED <<mode, reloc>>
  PROVE  /\ Top'.at = to /\ Top.at = from /\ Top'.id = Top.id
         /\ Contents(Top)' = Contents(Top)
         /\ mode = "run" /\ mode' = "run" /\ calls # <<>> /\ calls' # <<>>
         /\ \A id : /\ Replaced(id) <=> from \in Late /\ id = Top.id
                    /\ Replaced(id)' <=> to \in Late /\ id = Top.id
<1>1. Top' = [Top EXCEPT !.at = to] /\ Top \in Call /\ calls' # <<>>
  BY GoToCalls, TopFacts
<1>2. /\ Top'.at = to /\ Top.at = from /\ Top'.id = Top.id /\ calls # <<>>
      /\ Top'.caller = Top.caller /\ Top'.data = Top.data
      /\ mode = "run" /\ mode' = "run"
  BY <1>1 DEF Call, Executing
<1>3. Contents(Top)' = Contents(Top)
  BY <1>2 DEF Contents
<1> QED BY <1>1, <1>2, <1>3 DEF Replaced, Written, Running, Late

LEMMA UpdateSectorStore ==
  ASSUME IInv, updateSector
  PROVE  [Store!Next]_(Store!vars)
<1>1. Executing("updateSector") /\ UNCHANGED flash
  BY DEF updateSector, StaySector, ChangeSector, NoSector
<1>2. SameStore
  BY <1>1, SameFlash
<1>3. CASE StaySector \/ ChangeSector
  <2>1. (GoTo("mark") \/ GoTo("fs_thread")) /\ ret' = ret
    BY <1>3 DEF StaySector, ChangeSector
  <2>2. UserRequest' = UserRequest
    BY <1>1, <2>1, RequestGoesOn DEF IInv, CallPoints, Late
  <2> QED BY <1>2, <2>1, <2>2, StoreRests
<1>4. CASE NoSector
  <2>1. Return(-2)
    BY <1>4 DEF NoSector
  <2>2. CASE Top.caller = "user"
    <3>1. /\ UserRequest = Store!Request(Top.id, Top.data, "updateSector" \in Late)
          /\ UserRequest' = Store!NoRequest /\ ret' = -2
      BY <1>1, <2>1, <2>2, RequestReturns DEF IInv
    <3>2. ("updateSector" \in Late) = FALSE
      BY DEF Late
    <3>3. UserRequest = Store!Request(Top.id, Top.data, FALSE)
      BY <3>1, <3>2
    <3> QED BY <1>2, <3>1, <3>3, StoreReturns
  <2>3. CASE Top.caller # "user"
    BY <1>1, <1>2, <2>1, <2>3, RequestReturns, StoreRests DEF IInv
  <2> QED BY <2>2, <2>3
<1> QED BY <1>3, <1>4 DEF updateSector

LEMMA MarkStore ==
  ASSUME BothEnds, NEW i \in 0 .. FD_MAX, MarkCurrent(i)
  PROVE  UNCHANGED Store!vars
<1> DEFINE h == [fd[i].header EXCEPT !.newer = FS_BLOCK_CURRENT]
<1>1. /\ TypeOK /\ NestingInv /\ Executing("mark") /\ GoTo("program")
      /\ "program" \in CallPoints /\ ret' = ret /\ UNCHANGED <<mode, reloc, fd_index>>
  BY DEF BothEnds, IInv, MarkCurrent, CallPoints, bootVars
<1>2. UserRequest' = UserRequest
  BY <1>1, RequestGoesOn DEF Late
<1>3. CASE UNCHANGED <<flash, fd>>
  BY <1>1, <1>2, <1>3, SameFlash, StoreRests
<1>4. CASE /\ i < fd_index /\ fd' = [fd EXCEPT ![i].header = h]
           /\ flash' = [flash EXCEPT ![fd[i].address] = ProgramHeader(@, h)]
  <2>1. i \in Entries /\ fd[i].header \in Header
    BY <1>1, <1>4, EntryFacts DEF Entries
  <2>2. h \in Header /\ h.id = fd[i].header.id
    BY <2>1 DEF Header, Flags
  <2> HIDE DEF h
  <2>3. /\ Entries' = Entries
        /\ \A j \in Entries :
             /\ fd'[j].header.id = fd[j].header.id /\ fd'[j].address = fd[j].address
             /\ flash'[fd[j].address].data = flash[fd[j].address].data
    BY <1>1, <1>4, <2>1, <2>2, HeaderOnly
  <2>4. /\ mode = "run" /\ mode' = "run" /\ \A id : ~Replaced(id) /\ ~Replaced(id)'
    BY <1>1, PointFacts DEF Late
  <2>5. SameStore
    BY <2>3, <2>4, EntriesKeep
  <2> QED BY <1>1, <1>2, <2>5, StoreRests
<1> QED BY <1>3, <1>4 DEF MarkCurrent

LEMMA InvalidateStore ==
  ASSUME BothEnds, NEW i \in 0 .. FD_MAX, InvalidateOld(i)
  PROVE  UNCHANGED Store!vars
<1> DEFINE h == [fd[i].header EXCEPT !.size = FS_SIZEINVALID]
<1>1. /\ TypeOK /\ NestingInv /\ Executing("invalidate") /\ GoTo("settle")
      /\ "settle" \in CallPoints /\ ret' = ret /\ UNCHANGED <<mode, reloc, fd_index>>
  BY DEF BothEnds, IInv, InvalidateOld, CallPoints, bootVars
<1>2. UserRequest' = UserRequest
  BY <1>1, RequestGoesOn DEF Late
<1>3. CASE UNCHANGED <<flash, fd>>
  BY <1>1, <1>2, <1>3, SameFlash, StoreRests
<1>4. CASE /\ i < fd_index /\ fd' = [fd EXCEPT ![i].header = h]
           /\ flash' = [flash EXCEPT ![fd[i].address] = ProgramFlags(@, h)]
  <2>1. i \in Entries /\ fd[i].header \in Header
    BY <1>1, <1>4, EntryFacts DEF Entries
  <2>2. h \in Header /\ h.id = fd[i].header.id
    BY <2>1 DEF Header, Sizes
  <2> HIDE DEF h
  <2>3. /\ Entries' = Entries
        /\ \A j \in Entries :
             /\ fd'[j].header.id = fd[j].header.id /\ fd'[j].address = fd[j].address
             /\ flash'[fd[j].address].data = flash[fd[j].address].data
    BY <1>1, <1>4, <2>1, <2>2, HeaderOnly
  <2>4. /\ mode = "run" /\ mode' = "run" /\ Contents(Top)' = Contents(Top)
        /\ \A id : Replaced(id)' <=> Replaced(id)
    BY <1>1, PointFacts DEF Late
  <2>5. SameStore
    BY <2>3, <2>4, EntriesKeep
  <2> QED BY <1>1, <1>2, <2>5, StoreRests
<1> QED BY <1>3, <1>4 DEF InvalidateOld

(* The write takes effect here; one that fs_thread has called writes what  *)
(* the variable holds.                                                     *)
LEMMA ProgramStore ==
  ASSUME BothEnds, RelocationIsFresh, ProgramBlock
  PROVE  [Store!Next]_(Store!vars)
<1>1. /\ TypeOK /\ NestingInv /\ KnownInv /\ Executing("program") /\ GoTo("invalidate")
      /\ "invalidate" \in CallPoints /\ ret' = ret
      /\ UNCHANGED <<mode, reloc, fd, fd_index>>
      /\ \E c : flash' = [flash EXCEPT ![Target] = c]
  BY DEF BothEnds, IInv, ProgramBlock, CallPoints, bootVars, indexVars
<1>2. /\ mode = "run" /\ mode' = "run" /\ calls # <<>> /\ Top.at = "program"
      /\ Contents(Top)' = Contents(Top) /\ Top.id \in Ids
      /\ \A id : ~Replaced(id) /\ (Replaced(id)' <=> id = Top.id)
  BY <1>1, PointFacts, TopKnown DEF Late
<1>3. RunInv /\ ~Written
  BY <1>2 DEF BothEnds, IInv, WhileRunning, Written, Running
<1>4. PICK v \in Ids : v = Top.id /\ Recovered(v)' = Contents(Top)
  <2>1. PICK v \in Ids : v = Top.id
    BY <1>2
  <2>2. Replaced(v)' /\ mode' = "run"
    BY <1>2, <2>1
  <2>3. Recovered(v)' = Contents(Top)'
    BY <2>2 DEF BothEnds, RecoveredInv
  <2> QED BY <1>2, <2>1, <2>3
<1>5. flash[Target] = Blank
  BY <1>1, <1>2, <1>3, TargetIsBlank DEF RunInv, CallsInv, Running
<1>6. \A i \in Entries : flash'[fd[i].address] = flash[fd[i].address]
  <2>1. \A i \in Entries : IsValid(fd[i].address) /\ fd[i].address \in Addr
    BY <1>3, FsAddrFacts, NotRetired DEF RunInv, EntriesInv
  <2>2. \A i \in Entries : fd[i].address # Target
    BY <1>5, <2>1 DEF IsValid, checkBlock, BlankHeader, BLOCK_IS_VALID, BLOCK_IS_BLANK
  <2> QED BY <1>1, <2>1, <2>2 DEF TypeOK
<1>7. \A id \in Ids \ {v} : Recovered(id)' = Recovered(id)
  BY <1>1, <1>2, <1>4, <1>6, EntryKeeps DEF Entries
<1>8. CASE Top.caller = "user"
  <2>1. Top = calls[1] /\ calls'[1] = Top' /\ Contents(Top) = Top.data /\ Top \in Call
    BY <1>1, <1>2, <1>8, CallsAre, TopFacts, GoToCalls DEF Contents, Top
  <2>2. Top' = [Top EXCEPT !.at = "invalidate"] /\ calls' # <<>>
    BY <1>1, GoToCalls
  <2>3. /\ calls'[1].caller = "user" /\ calls'[1].id = Top.id
        /\ calls'[1].data = Top.data
        /\ (calls'[1].at \in Late) = TRUE /\ (calls[1].at \in Late) = FALSE
    BY <1>2, <1>8, <2>1, <2>2 DEF Call, Late
  <2>4. UserRequest = Store!Request(Top.id, Top.data, FALSE)
    BY <1>2, <1>8, <2>1, <2>3, RequestIs
  <2>5. UserRequest' = Store!Request(Top.id, Top.data, TRUE)
    BY <2>2, <2>3, NextRequestIs
  <2>6. /\ UserRequest = Store!Request(v, Top.data, FALSE)
        /\ UserRequest' = Store!Request(v, Top.data, TRUE) /\ Recovered(v)' = Top.data
    BY <1>4, <2>1, <2>4, <2>5
  <2> QED BY <1>1, <1>7, <2>6, StoreTakes
<1>9. CASE Top.caller # "user"
  <2>1. Len(calls) \in 1 .. Len(calls) /\ Top.caller = "fs_thread"
    BY <1>1, <1>2, <1>9, CallLength, TopFacts DEF TypeOK, Call
  <2>2. Contents(Top) = Recovered(Top.id)
    BY <2>1 DEF RelocationIsFresh, Top
  <2>3. Recovered(v)' = Recovered(v)
    BY <1>4, <2>2
  <2>4. SameStore
    BY <1>7, <2>3 DEF SameStore
  <2>5. UserRequest' = UserRequest
    BY <1>1, <1>9, RequestGoesOn
  <2> QED BY <1>1, <2>4, <2>5, StoreRests
<1> QED BY <1>8, <1>9

(* The index takes over the block: the variable has now an entry again. *)
LEMMA SettleStore ==
  ASSUME BothEnds, NEW i \in 0 .. FD_MAX, Settle(i)
  PROVE  [Store!Next]_(Store!vars)
<1> DEFINE h == [size |-> FS_SIZE32, newer |-> FS_BLOCK_CURRENT, id |-> Top.id]
           e == [address |-> Target, sector |-> currSector, header |-> h]
<1>1. /\ TypeOK /\ NestingInv /\ KnownInv /\ Executing("settle") /\ Return(0)
      /\ UNCHANGED <<mode, reloc>> /\ i \in FdIndexes /\ Search(i, Top.id)
      /\ fd_index' = IF i = fd_index THEN fd_index + 1 ELSE fd_index
      /\ fd' = [fd EXCEPT ![i] = e]
      /\ flash' = [flash EXCEPT ![Target] = ProgramFlags(@, h)]
  BY Geometry DEF BothEnds, IInv, Settle, FdIndexes, bootVars
<1>2. /\ mode = "run" /\ mode' = "run" /\ calls # <<>> /\ Written /\ Top.id \in Ids
      /\ \A id : Replaced(id) <=> id = Top.id
  BY <1>1, TopKnown DEF Executing, Written, Running, Replaced
<1>3. \A id : ~Replaced(id)'
  <2>1. calls' # <<>> => Top'.at = "mark"
    BY <1>1, ReturnCalls
  <2> QED BY <2>1 DEF Replaced, Written, Running
<1>4. Target \in Addr /\ flash[Target].data = Contents(Top)
  BY <1>2, TargetFacts DEF BothEnds, IInv, WhileRunning, RunInv, CallsInv, Written,
     Running
<1>5. \A a \in Addr : flash'[a].data = flash[a].data
  BY <1>1, DataStays
<1>6. /\ i \in Entries' /\ fd'[i] = e /\ Entries \subseteq Entries'
      /\ \A j \in Entries' : j # i => j \in Entries /\ fd'[j] = fd[j]
      /\ \A j \in Entries : j # i => fd'[j] = fd[j]
      /\ i \in Entries => fd[i].header.id = Top.id
  <2>1. i \in Entries' /\ Entries \subseteq Entries'
        /\ \A j \in Entries' : j # i => j \in Entries
    BY <1>1, EntryFacts DEF Search, Entries
  <2> HIDE DEF e
  <2>2. fd'[i] = e /\ \A j \in FdIndexes : j # i => fd'[j] = fd[j]
    BY <1>1 DEF TypeOK
  <2>3. i \in Entries => fd[i].header.id = Top.id
    BY <1>1, EntryFacts DEF Search, Entries
  <2> QED BY <1>1, <2>1, <2>2, <2>3, EntryFacts
<1>7. e.address = Target /\ e.header.id = Top.id
  OBVIOUS
<1> HIDE DEF e, h
<1>8. PICK v \in Ids : v = Top.id /\ Recovered(v)' = Recovered(v)
  <2>1. PICK v \in Ids : v = Top.id
    BY <1>2
  <2>2. Recovered(v) = Contents(Top)
    BY <1>2, <2>1 DEF BothEnds, RecoveredInv
  <2>3. fd'[i].header.id = v /\ i \in Entries' /\ ~Replaced(v)' /\ mode' = "run"
    BY <1>2, <1>3, <1>6, <1>7, <2>1
  <2>4. Recovered(v)' = flash'[fd'[i].address].data
    BY <2>3 DEF BothEnds, RecoveredInv
  <2>5. fd'[i].address = Target
    BY <1>6, <1>7
  <2>6. Recovered(v)' = Contents(Top)
    BY <1>4, <1>5, <2>4, <2>5
  <2> QED BY <2>1, <2>2, <2>6
<1>9. ASSUME NEW id \in Ids
      PROVE  Recovered(id)' = Recovered(id)
  <2>1. CASE id = Top.id
    BY <1>8, <2>1
  <2>2. CASE id # Top.id
    <3>1. \A j \in Entries : fd[j].address \in Addr
      BY <1>1, EntryFacts
    <3> QED BY <1>2, <1>3, <1>5, <1>6, <1>7, <2>2, <3>1, EntryKeeps
  <2> QED BY <2>1, <2>2
<1>10. SameStore
  BY <1>9 DEF SameStore
<1>11. CASE Top.caller = "user"
  <2>1. /\ UserRequest = Store!Request(Top.id, Top.data, "settle" \in Late)
        /\ UserRequest' = Store!NoRequest /\ ret' = 0
    BY <1>1, <1>11, RequestReturns
  <2>2. ("settle" \in Late) = TRUE
    BY DEF Late
  <2>3. UserRequest = Store!Request(Top.id, Top.data, TRUE)
    BY <2>1, <2>2
  <2> QED BY <1>10, <2>1, <2>3, StoreReturns
<1>12. CASE Top.caller # "user"
  BY <1>1, <1>10, <1>12, RequestReturns, StoreRests
<1> QED BY <1>11, <1>12

(* fs_thread: the sector that it erases holds no entry. *)
LEMMA ThreadStore ==
  ASSUME BothEnds, fs_thread
  PROVE  UNCHANGED Store!vars
<1>1. /\ TypeOK /\ NestingInv /\ KnownInv /\ ThreadRuns /\ mode = "run" /\ mode' = "run"
      /\ ret' = ret /\ UNCHANGED <<fd, fd_index>> /\ RunInv
  BY DEF BothEnds, IInv, WhileRunning, fs_thread, ThreadBegin, ThreadSelect, ThreadRead,
     ThreadCopied, ThreadRetry, ThreadNext, ThreadErase, ThreadAt, ThreadRuns, bootVars,
     indexVars
<1>2. CallFsWrite \/ \E l \in Continuations : YieldAt(l)
  <2>1. {"begin", "select", "await_read", "copied", "next", "await_erase"}
          \subseteq Continuations
    BY DEF Continuations
  <2>2. ASSUME NEW s, NEW j, RelocateFrom(s, j)
        PROVE  \E l \in Continuations : YieldAt(l)
    BY <2>1, <2>2 DEF RelocateFrom, CopyFd, Erase
  <2> QED BY <2>1, <2>2 DEF fs_thread, ThreadBegin, ThreadSelect, ThreadRead,
          ThreadCopied, ThreadRetry, ThreadNext, ThreadErase, Erase
<1>3. UserRequest' = UserRequest
  BY <1>1, <1>2, RequestYields, RequestNested
<1>4. CASE UNCHANGED flash
  BY <1>1, <1>3, <1>4, SameFlash, StoreRests
<1>5. ASSUME NEW s \in Sectors, Erases(s)
      PROVE  SameStore
  <2>1. ~Written /\ \A id : ~Replaced(id)
    BY <1>1 DEF ThreadRuns, Written, Running, Replaced
  <2>2. ~Written' /\ \A id : ~Replaced(id)'
    <3>1. calls' # <<>> => Top'.at \in {"mark", "updateSector"}
      BY <1>1, <1>2, YieldCalls, PushCalls
    <3> QED BY <3>1 DEF Written, Running, Replaced
  <2>3. \A i \in Entries : /\ fd[i].address \in Addr /\ fd[i].address[1] # s
                           /\ flash'[fd[i].address] = flash[fd[i].address]
    BY <1>1, <1>5, <2>1, NotRetired, FsAddrFacts DEF Erases, RunInv, EntriesInv
  <2> QED BY <1>1, <2>1, <2>2, <2>3, EntriesKeep DEF Entries
<1> QED BY <1>1, <1>3, <1>4, <1>5, ThreadWrites, StoreRests

(* The application calls. *)
LEMMA CallStore ==
  ASSUME NEW id \in Ids, NEW data \in Data, UserWrite(id, data)
  PROVE  Store!Next
<1>1. /\ calls = <<>> /\ ret' = 0 /\ UNCHANGED flash
      /\ calls' = <<[caller |-> "user", at |-> "updateSector", id |-> id,
                     data |-> data]>>
  BY DEF UserWrite, Idle
<1>2. UserRequest = Store!NoRequest /\ SameStore
  BY <1>1, RequestIs, SameFlash
<1>3. /\ calls' # <<>> /\ calls'[1].caller = "user" /\ calls'[1].id = id
      /\ calls'[1].data = data /\ (calls'[1].at \in Late) = FALSE
  BY <1>1 DEF Late
<1>4. UserRequest' = Store!Request(id, data, FALSE)
  BY <1>3, NextRequestIs
<1> QED BY <1>1, <1>2, <1>4, StoreCalls

LEMMA RefuseStore ==
  ASSUME UserWriteTooLong
  PROVE  Store!Next
<1>1. /\ calls = <<>> /\ calls' = <<>> /\ ret' = -1 /\ UNCHANGED flash
  BY DEF UserWriteTooLong, Idle
<1>2. UserRequest = Store!NoRequest /\ UserRequest' = UserRequest /\ SameStore
  BY <1>1, RequestIs, NextRequestIs, SameFlash
<1> QED BY <1>1, <1>2, StoreRefuses

LEMMA InitStore ==
  ASSUME Init
  PROVE  Store!Init
<1>1. /\ calls = <<>> /\ ret = 0 /\ \A a \in Addr : flash[a] = Blank
  BY DEF Init, ClearedRam
<1>2. \A id : Copies(id) = {}
  <2>1. checkBlock(Blank) # BLOCK_IS_VALID
    BY DEF checkBlock, BlankHeader, BLOCK_IS_BLANK, BLOCK_IS_VALID
  <2> QED BY <1>1, <2>1, FsAddrFacts DEF Copies, IsValid
<1>3. [id \in Ids |-> Recovered(id)] = [id \in Ids |-> Missing]
  BY <1>2, NothingToRecover
<1> QED BY <1>1, <1>3, RequestIs DEF Store!Init

LEMMA StoreStep ==
  ASSUME EnoughEntries, TearsShow, BothEnds, RelocationIsFresh, [Next]_vars
  PROVE  [Store!Next]_(Store!vars)
<1>1. CASE UNCHANGED vars
  <2>1. UNCHANGED <<flash, calls, ret>>
    BY <1>1 DEF vars
  <2>2. UserRequest' = UserRequest
    BY <2>1 DEF UserRequest
  <2> QED BY <2>1, <2>2, SameFlash, StoreRests
<1>2. CASE PowerLoss \/ PowerLossInProgram
  BY <1>2, LossStore DEF BothEnds
<1>3. CASE Boot
  BY <1>3, BootStore DEF BothEnds, IInv
<1>4. CASE fs_write
  <2>1. ~NoFdLeft
    BY TopKnown, IndexSuffices DEF NoFdLeft, BothEnds, IInv
  <2> QED BY <1>4, <2>1, UpdateSectorStore, MarkStore, ProgramStore, InvalidateStore,
             SettleStore DEF fs_write, BothEnds
<1> QED BY <1>1, <1>2, <1>3, <1>4, ThreadStore, CallStore, RefuseStore DEF Next

(* wormvars is a store that survives power failures: a write takes effect  *)
(* at once or not at all, fs_write returns 0 exactly when it has, and      *)
(* nothing that fs_thread or fs_init does changes what a variable holds.   *)
THEOREM StoreImplemented ==
  ASSUME EnoughEntries, TearsShow
  PROVE  Spec => ImplementsStore
<1>1. Init => Store!Init
  BY InitStore
<1>2. IInv /\ RecoveredInv /\ RelocationIsFresh /\ [Next]_vars
        /\ IInv' /\ RecoveredInv' => [Store!Next]_(Store!vars)
  <2> SUFFICES ASSUME IInv, RecoveredInv, RelocationIsFresh, [Next]_vars, IInv',
                      RecoveredInv'
               PROVE  [Store!Next]_(Store!vars)
    OBVIOUS
  <2>1. BothEnds
    BY DEF BothEnds
  <2> QED BY <2>1, StoreStep
<1>3. IInv => RecoveredInv
  BY RecoveredFollows
<1> QED BY <1>1, <1>2, <1>3, InvariantHolds, RelocationFresh, PTL
        DEF Spec, ImplementsStore, Store!Spec
=============================================================================
