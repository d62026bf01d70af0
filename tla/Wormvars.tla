------------------------------ MODULE Wormvars ------------------------------
(***************************************************************************)
(* wormvars: non-volatile variables kept in FLASH sectors.                 *)
(*                                                                         *)
(* The application calls fs_write and fs_read and polls the protothread    *)
(* fs_thread from its main loop; everything runs on one stack, but every   *)
(* FLASH access is a point where power may fail, fs_thread gives control   *)
(* back to the main loop at every PT_YIELD, and fs_write calls fs_thread   *)
(* (which may call fs_write) when it moves to another sector.  An action   *)
(* runs from one such point to the next.  After a power failure fs_init    *)
(* rebuilds the index in RAM from FLASH, one cell per action.              *)
(***************************************************************************)
EXTENDS NorFlash, Sequences, FiniteSets

CONSTANTS FS_NUM_SECTORS,      \* sectors of the file system
          FDS_PER_SECTOR,      \* cells of a sector
          FS_MIN_BLANKSECTORS, \* blank sectors below which relocation starts
          FD_MAX               \* entries of the index

ASSUME Geometry == /\ FS_NUM_SECTORS \in Nat \ {0}
                   /\ FDS_PER_SECTOR \in Nat \ {0, 1}
                   /\ FS_MIN_BLANKSECTORS \in Nat \ {0}
                   /\ FD_MAX \in Nat \ {0}

(* The compile-time check of wormvars.c. *)
ASSUME ReserveKept ==
  FD_MAX <= (FS_NUM_SECTORS - FS_MIN_BLANKSECTORS - 1) * FDS_PER_SECTOR

Sectors == 0 .. FS_NUM_SECTORS - 1
Slots == 0 .. FDS_PER_SECTOR - 1

(* Cell k of sector s has address <<s, k>>.  Sectors are contiguous: the   *)
(* cell after the last one of a sector is the first one of the next, and   *)
(* the cell after the last sector is FLASH that wormvars does not own.     *)
Addr == (Sectors \X Slots) \cup {<<FS_NUM_SECTORS, 0>>}
CellAt(s, k) == IF k < FDS_PER_SECTOR THEN <<s, k>> ELSE <<s + 1, 0>>

VARIABLES
  flash,        \* contents of every cell: all that survives a power failure
  mode,         \* "boot" inside fs_init, "run" after it
  scan,         \* locals of fs_init and initFileDescriptors
  fd,           \* Fs.fd
  fd_index,     \* Fs.curr.fd_index
  currAddress,  \* Fs.curr.address, as the slot it points to in its sector
  currSector,   \* Fs.curr.sector
  lc,           \* Fs.pt.lc: where fs_thread resumes
  reloc,        \* Fs.reloc
  calls,        \* activations of fs_write, the running one last
  ret           \* what the application's last fs_write returned

vars == <<flash, mode, scan, fd, fd_index, currAddress, currSector, lc, reloc,
          calls, ret>>
indexVars == <<fd, fd_index>>
currVars == <<currAddress, currSector>>
bootVars == <<mode, scan>>

(* struct st_fileDescriptor, and its value in RAM cleared by the start-up  *)
(* code (Erased stands for "no identifier yet").                           *)
FileDescriptor == [address : Addr, sector : Sectors, header : Header]
NoFd == [address |-> <<0, 0>>, sector |-> 0,
         header |-> [size |-> 0, newer |-> 0, id |-> Erased]]
NoScan == [sector |-> 0, slot |-> 0, blankSector |-> 0, assigned |-> FALSE]
NoReloc == [sector |-> 0, fd_index |-> 0, address |-> <<0, 0>>, id |-> Erased,
            buffer |-> Erased]

FdIndexes == 0 .. FD_MAX - 1
EmptyIndex == [i \in FdIndexes |-> NoFd]

(* The continuations of fs_thread: its first PT_WAIT_UNTIL, and the        *)
(* PT_YIELDs and PT_WAIT_WHILEs in the order of the text.                  *)
Continuations == {"begin", "select", "await_read", "copied", "retry", "next",
                  "await_erase"}

(* Where an activation of fs_write stands: before updateSector, inside the *)
(* fs_thread(1) called from it, and before each of its FLASH writes.  The  *)
(* data that fs_thread passes stay in Fs.reloc.buffer, which fs_write      *)
(* reads when updateSector has returned.                                   *)
CallPoints == {"updateSector", "fs_thread", "mark", "program", "invalidate",
               "settle"}
Call == [caller : {"user", "fs_thread"}, at : CallPoints, id : IdField,
         data : DataField]

SECTOR_IS_FULL(s) == currAddress[s] >= FDS_PER_SECTOR
SECTOR_IS_BLANK(s) == currAddress[s] = 0

(* The exit value i of the loops that search the index for a variable. *)
Search(i, id) ==
  /\ i \in 0 .. fd_index
  /\ \A j \in 0 .. i - 1 : fd[j].header.id # id
  /\ i < fd_index => fd[i].header.id = id

-----------------------------------------------------------------------------
(* Initial state: FLASH fresh from the factory, RAM cleared.               *)
ClearedRam ==
  /\ mode = "boot" /\ scan = NoScan
  /\ fd = EmptyIndex /\ fd_index = 0
  /\ currAddress = [s \in Sectors |-> 0] /\ currSector = 0
  /\ lc = "begin" /\ reloc = NoReloc
  /\ calls = <<>> /\ ret = 0

Init == flash = [a \in Addr |-> Blank] /\ ClearedRam

(* Power fails between two FLASH writes: only FLASH survives. *)
ClearRam ==
  /\ mode' = "boot" /\ scan' = NoScan
  /\ fd' = EmptyIndex /\ fd_index' = 0
  /\ currAddress' = [s \in Sectors |-> 0] /\ currSector' = 0
  /\ lc' = "begin" /\ reloc' = NoReloc
  /\ calls' = <<>> /\ ret' = 0

PowerLoss == ClearRam /\ UNCHANGED flash

-----------------------------------------------------------------------------
(* fs_init: initFileDescriptors looks at the cells of each sector in turn. *)
ScanAddr == <<scan.sector, scan.slot>>
Scanned == flash[ScanAddr]
Scanning == mode = "boot" /\ scan.sector < FS_NUM_SECTORS

NextSector == scan' = [scan EXCEPT !.sector = @ + 1, !.slot = 0]

(* Seeded faults (their names begin with Bug) stand before the definitions *)
(* that they alter; no action uses them.  Here: the loop goes one cell too *)
(* far; the write address of a full sector stays on its last cell.         *)
BugNextCellOverrun ==
  IF scan.slot + 1 <= FDS_PER_SECTOR
  THEN /\ scan' = [scan EXCEPT !.slot = @ + 1]
       /\ currAddress' = [currAddress EXCEPT ![scan.sector] = scan.slot]
  ELSE /\ NextSector
       /\ currAddress' = [currAddress EXCEPT ![scan.sector] = scan.slot + 1]

BugNextCellAddress ==
  /\ IF scan.slot + 1 < FDS_PER_SECTOR
     THEN scan' = [scan EXCEPT !.slot = @ + 1]
     ELSE NextSector
  /\ currAddress' = [currAddress EXCEPT ![scan.sector] = scan.slot]

(* Go on with the next cell; after the last one the sector is full. *)
NextCell ==
  IF scan.slot + 1 < FDS_PER_SECTOR
  THEN /\ scan' = [scan EXCEPT !.slot = @ + 1]
       /\ currAddress' = [currAddress EXCEPT ![scan.sector] = scan.slot]
  ELSE /\ NextSector
       /\ currAddress' = [currAddress EXCEPT ![scan.sector] = scan.slot + 1]

(* A blank header ends the sector: it is blank, or it is the target of the *)
(* next writes.                                                            *)
BootBlank ==
  /\ Scanning /\ checkBlock(Scanned) = BLOCK_IS_BLANK
  /\ currAddress' = [currAddress EXCEPT ![scan.sector] = scan.slot]
  /\ IF scan.slot = 0
     THEN /\ scan' = [scan EXCEPT !.sector = @ + 1, !.blankSector = scan.sector]
          /\ UNCHANGED currSector
     ELSE /\ scan' = [scan EXCEPT !.sector = @ + 1, !.slot = 0, !.assigned = TRUE]
          /\ currSector' = scan.sector
  /\ UNCHANGED <<flash, mode, indexVars, lc, reloc, calls, ret>>

(* Seeded fault: the loop does not get past a block that it skips. *)
BugBootSkip ==
  /\ Scanning
  /\ checkBlock(Scanned) \in {BLOCK_IS_INVALID, BLOCK_IS_ILLEGALSIZE,
                              BLOCK_IS_ERRORED}
  /\ currAddress' = [currAddress EXCEPT ![scan.sector] = scan.slot]
  /\ UNCHANGED <<flash, mode, scan, indexVars, currSector, lc, reloc, calls, ret>>

(* Invalidated, illegal and errored blocks are passed over. *)
BootSkip ==
  /\ Scanning
  /\ checkBlock(Scanned) \in {BLOCK_IS_INVALID, BLOCK_IS_ILLEGALSIZE,
                              BLOCK_IS_ERRORED}
  /\ NextCell
  /\ UNCHANGED <<flash, mode, indexVars, currSector, lc, reloc, calls, ret>>

(* First block found of its variable. *)
BootIndex ==
  /\ Scanning /\ checkBlock(Scanned) = BLOCK_IS_VALID
  /\ Search(fd_index, Scanned.id) /\ fd_index < FD_MAX
  /\ fd' = [fd EXCEPT ![fd_index] = [address |-> ScanAddr,
                                     sector  |-> scan.sector,
                                     header  |-> HeaderOf(Scanned)]]
  /\ fd_index' = fd_index + 1
  /\ NextCell
  /\ UNCHANGED <<flash, mode, currSector, lc, reloc, calls, ret>>

(* No entry left: the rest of the sector is not looked at. *)
BootNoFd ==
  /\ Scanning /\ checkBlock(Scanned) = BLOCK_IS_VALID
  /\ Search(FD_MAX, Scanned.id)
  /\ currAddress' = [currAddress EXCEPT ![scan.sector] = scan.slot]
  /\ NextSector
  /\ UNCHANGED <<flash, mode, indexVars, currSector, lc, reloc, calls, ret>>

(* Seeded fault: the index keeps the block that is invalidated. *)
BugDuplicateNotIndexed(i) ==
  /\ Scanning /\ checkBlock(Scanned) = BLOCK_IS_VALID
  /\ Search(i, Scanned.id) /\ i < fd_index
  /\ IF /\ fd[i].header.newer = FS_BLOCK_CURRENT
        /\ Scanned.newer = FS_BLOCK_NEWER
     THEN flash' = [flash EXCEPT ![fd[i].address] =
                      ProgramHeader(@, [fd[i].header EXCEPT
                                          !.size = FS_SIZEINVALID])]
     ELSE flash' = [flash EXCEPT ![ScanAddr] =
                      ProgramHeader(@, [HeaderOf(@) EXCEPT
                                          !.size = FS_SIZEINVALID])]
  /\ NextCell
  /\ UNCHANGED <<mode, indexVars, currSector, lc, reloc, calls, ret>>

(* A second block of the variable: the indexed one is invalidated if it is *)
(* current and this one is newer, otherwise this one is.                   *)
BootDuplicate(i) ==
  /\ Scanning /\ checkBlock(Scanned) = BLOCK_IS_VALID
  /\ Search(i, Scanned.id) /\ i < fd_index
  /\ IF /\ fd[i].header.newer = FS_BLOCK_CURRENT
        /\ Scanned.newer = FS_BLOCK_NEWER
     THEN /\ flash' = [flash EXCEPT ![fd[i].address] =
                         ProgramHeader(@, [fd[i].header EXCEPT
                                             !.size = FS_SIZEINVALID])]
          /\ fd' = [fd EXCEPT ![i] = [address |-> ScanAddr,
                                      sector  |-> scan.sector,
                                      header  |-> HeaderOf(Scanned)]]
     ELSE /\ flash' = [flash EXCEPT ![ScanAddr] =
                         ProgramHeader(@, [HeaderOf(@) EXCEPT
                                             !.size = FS_SIZEINVALID])]
          /\ UNCHANGED fd
  /\ NextCell
  /\ UNCHANGED <<mode, fd_index, currSector, lc, reloc, calls, ret>>

(* Seeded fault: a sector that is partly written is not preferred. *)
BugBootDoneBlank ==
  /\ mode = "boot" /\ scan.sector = FS_NUM_SECTORS
  /\ mode' = "run" /\ scan' = NoScan
  /\ currSector' = scan.blankSector
  /\ lc' = "begin"
  /\ UNCHANGED <<flash, indexVars, currAddress, reloc, calls, ret>>

(* All sectors are accounted for: decide where the next block goes. *)
BootDone ==
  /\ mode = "boot" /\ scan.sector = FS_NUM_SECTORS
  /\ mode' = "run" /\ scan' = NoScan
  /\ currSector' = IF scan.assigned THEN currSector ELSE scan.blankSector
  /\ lc' = "begin"
  /\ UNCHANGED <<flash, indexVars, currAddress, reloc, calls, ret>>

Boot == \/ BootBlank \/ BootSkip \/ BootIndex \/ BootNoFd \/ BootDone
        \/ \E i \in FdIndexes : BootDuplicate(i)

-----------------------------------------------------------------------------
(* fs_write.                                                               *)
Top == calls[Len(calls)]
Executing(at) == mode = "run" /\ calls # <<>> /\ Top.at = at
GoTo(at) == calls' = [calls EXCEPT ![Len(calls)].at = at]
Idle == mode = "run" /\ calls = <<>>

(* When fs_thread yields inside updateSector, the fs_write that called it  *)
(* goes on.                                                                *)
Resumed(c) == IF c = <<>> THEN c ELSE [c EXCEPT ![Len(c)].at = "mark"]

(* Seeded fault: fs_thread retries after a success too. *)
BugReturn(res) ==
  LET below == SubSeq(calls, 1, Len(calls) - 1)
  IN  IF Top.caller = "user"
      THEN ret' = res /\ calls' = below /\ UNCHANGED lc
      ELSE lc' = "retry" /\ calls' = Resumed(below) /\ UNCHANGED ret

(* The running fs_write returns: to the application, or to fs_thread,      *)
(* which yields after a success and retries at its next turn otherwise.    *)
Return(res) ==
  LET below == SubSeq(calls, 1, Len(calls) - 1)
  IN  IF Top.caller = "user"
      THEN ret' = res /\ calls' = below /\ UNCHANGED lc
      ELSE /\ lc' = IF res < 0 THEN "retry" ELSE "next"
           /\ calls' = Resumed(below)
           /\ UNCHANGED ret

(* The application calls fs_write; data that is too long is refused.       *)
UserWrite(id, data) ==
  /\ Idle
  /\ calls' = <<[caller |-> "user", at |-> "updateSector", id |-> id,
                 data |-> data]>>
  /\ ret' = 0
  /\ UNCHANGED <<flash, bootVars, indexVars, currVars, lc, reloc>>

UserWriteTooLong ==
  /\ Idle
  /\ ret' = -1
  /\ UNCHANGED <<flash, bootVars, indexVars, currVars, lc, reloc, calls>>

(* updateSector: stay in a sector that is not full, else move to the next  *)
(* one that is not and give fs_thread a turn, else give up.                *)
Distance(s) == (s + FS_NUM_SECTORS - currSector) % FS_NUM_SECTORS
NextOpenSector(s) ==
  /\ s \in Sectors /\ ~SECTOR_IS_FULL(s)
  /\ \A t \in Sectors : Distance(t) < Distance(s) => SECTOR_IS_FULL(t)

StaySector ==
  /\ Executing("updateSector") /\ ~SECTOR_IS_FULL(currSector)
  /\ GoTo("mark")
  /\ UNCHANGED <<flash, bootVars, indexVars, currVars, lc, reloc, ret>>

(* Seeded fault: the sector moved to may be full. *)
BugChangeSectorFull ==
  /\ Executing("updateSector") /\ SECTOR_IS_FULL(currSector)
  /\ currSector' = (currSector + 1) % FS_NUM_SECTORS
  /\ GoTo("fs_thread")
  /\ UNCHANGED <<flash, bootVars, indexVars, currAddress, lc, reloc, ret>>

ChangeSector ==
  /\ Executing("updateSector") /\ SECTOR_IS_FULL(currSector)
  /\ \E s \in Sectors : NextOpenSector(s) /\ currSector' = s
  /\ GoTo("fs_thread")
  /\ UNCHANGED <<flash, bootVars, indexVars, currAddress, lc, reloc, ret>>

NoSector ==
  /\ Executing("updateSector") /\ \A s \in Sectors : SECTOR_IS_FULL(s)
  /\ Return(-2)
  /\ UNCHANGED <<flash, bootVars, indexVars, currVars, reloc>>

updateSector == StaySector \/ ChangeSector \/ NoSector

(* Seeded faults: the block in use is not flagged; it is invalidated       *)
(* before the new one is written.                                          *)
BugNoMark(i) ==
  /\ Executing("mark") /\ Search(i, Top.id)
  /\ GoTo("program")
  /\ UNCHANGED <<flash, bootVars, indexVars, currVars, lc, reloc, ret>>

BugMarkInvalid(i) ==
  /\ Executing("mark") /\ Search(i, Top.id)
  /\ IF i < fd_index
     THEN LET h == [fd[i].header EXCEPT !.size = FS_SIZEINVALID]
          IN  /\ fd' = [fd EXCEPT ![i].header = h]
              /\ flash' = [flash EXCEPT ![fd[i].address] = ProgramHeader(@, h)]
     ELSE UNCHANGED <<flash, fd>>
  /\ GoTo("program")
  /\ UNCHANGED <<bootVars, fd_index, currVars, lc, reloc, ret>>

(* The block in use must be flagged current before a newer one is written. *)
MarkCurrent(i) ==
  /\ Executing("mark") /\ Search(i, Top.id)
  /\ IF i < fd_index /\ fd[i].header.newer = FS_BLOCK_NEWER
     THEN LET h == [fd[i].header EXCEPT !.newer = FS_BLOCK_CURRENT]
          IN  /\ fd' = [fd EXCEPT ![i].header = h]
              /\ flash' = [flash EXCEPT ![fd[i].address] = ProgramHeader(@, h)]
     ELSE UNCHANGED <<flash, fd>>
  /\ GoTo("program")
  /\ UNCHANGED <<bootVars, fd_index, currVars, lc, reloc, ret>>

(* The new block is written at the current address of the active sector.   *)
Target == CellAt(currSector, currAddress[currSector])

Contents(c) == IF c.caller = "fs_thread" THEN reloc.buffer ELSE c.data

ProgramBlock ==
  /\ Executing("program")
  /\ flash' = [flash EXCEPT ![Target] = Program(@, Block(Top.id, Contents(Top)))]
  /\ GoTo("invalidate")
  /\ UNCHANGED <<bootVars, indexVars, currVars, lc, reloc, ret>>

(* Power fails while the new block is being written. *)
PowerLossInProgram ==
  /\ Executing("program")
  /\ \E c \in TornWrites(flash[Target]) : flash' = [flash EXCEPT ![Target] = c]
  /\ ClearRam

(* The block in use until now, if any, is invalidated. *)
InvalidateOld(i) ==
  /\ Executing("invalidate") /\ Search(i, Top.id)
  /\ IF i < fd_index
     THEN LET h == [fd[i].header EXCEPT !.size = FS_SIZEINVALID]
          IN  /\ fd' = [fd EXCEPT ![i].header = h]
              /\ flash' = [flash EXCEPT ![fd[i].address] = ProgramFlags(@, h)]
     ELSE UNCHANGED <<flash, fd>>
  /\ GoTo("settle")
  /\ UNCHANGED <<bootVars, fd_index, currVars, lc, reloc, ret>>

(* The index takes over the new block, which is flagged current in turn.   *)
Settle(i) ==
  /\ Executing("settle") /\ Search(i, Top.id) /\ i < FD_MAX
  /\ LET h == [size |-> FS_SIZE32, newer |-> FS_BLOCK_CURRENT, id |-> Top.id]
     IN  /\ fd' = [fd EXCEPT ![i] = [address |-> Target, sector |-> currSector,
                                     header |-> h]]
         /\ flash' = [flash EXCEPT ![Target] = ProgramFlags(@, h)]
  /\ fd_index' = IF i = fd_index THEN fd_index + 1 ELSE fd_index
  /\ currAddress' = [currAddress EXCEPT ![currSector] = @ + 1]
  /\ Return(0)
  /\ UNCHANGED <<bootVars, currSector, reloc>>

(* No entry is left for the variable: fs_write gives up with the block     *)
(* already in FLASH and the current address still on it.                   *)
NoFdLeft ==
  /\ Executing("settle") /\ Search(FD_MAX, Top.id)
  /\ Return(-1)
  /\ UNCHANGED <<flash, bootVars, indexVars, currVars, reloc>>

fs_write == \/ updateSector
            \/ ProgramBlock
            \/ \E i \in 0 .. FD_MAX : MarkCurrent(i) \/ InvalidateOld(i) \/ Settle(i)
            \/ NoFdLeft

(* fs_read of an indexed variable; it changes no state.                    *)
IsIndexed(id) == \E i \in 0 .. fd_index - 1 : fd[i].header.id = id
fs_read(id) ==
  LET i == CHOOSE j \in 0 .. fd_index - 1 : Search(j, id)
  IN  flash[fd[i].address].data

-----------------------------------------------------------------------------
(* findRelocSector: relocation is due when too few sectors other than the  *)
(* active one are blank; the victim is the full sector with fewest entries *)
(* in the index, the first one after the active sector in case of a tie.   *)
NeedsReloc == Cardinality({s \in Sectors \ {currSector} : SECTOR_IS_BLANK(s)})
                < FS_MIN_BLANKSECTORS
FdCount(s) == Cardinality({i \in 0 .. fd_index - 1 : fd[i].sector = s})
Candidates == {s \in Sectors \ {currSector} :
                 SECTOR_IS_FULL(s) /\ FdCount(s) < FDS_PER_SECTOR}

(* Seeded fault: the full sector with most entries is relocated. *)
BugFindRelocSector(s) ==
  \/ Candidates = {} /\ s = 0
  \/ /\ s \in Candidates
     /\ \A t \in Candidates \ {s} :
          \/ FdCount(s) > FdCount(t)
          \/ FdCount(s) = FdCount(t) /\ Distance(s) < Distance(t)

findRelocSector(s) ==
  \/ Candidates = {} /\ s = 0
  \/ /\ s \in Candidates
     /\ \A t \in Candidates \ {s} :
          \/ FdCount(s) < FdCount(t)
          \/ FdCount(s) = FdCount(t) /\ Distance(s) < Distance(t)

(* fs_thread runs when the main loop polls it and when updateSector calls  *)
(* it with its flag set.  flash_ready() may say no: the protothread then   *)
(* waits for its next turn.                                                *)
ThreadRuns == mode = "run" /\ (calls # <<>> => Top.at = "fs_thread")
ThreadAt(l) == ThreadRuns /\ lc = l
YieldAt(l) == lc' = l /\ calls' = Resumed(calls)

(* The timer has expired, or updateSector asks for a relocation.  While    *)
(* neither holds a poll changes nothing.                                   *)
ThreadBegin ==
  /\ ThreadAt("begin")
  /\ YieldAt("select")
  /\ UNCHANGED <<flash, bootVars, indexVars, currVars, reloc, ret>>

(* The entry is remembered and, when FLASH is ready, its block is read.    *)
CopyFd(s, i) ==
  /\ \/ /\ reloc' = [sector |-> s, fd_index |-> i, address |-> fd[i].address,
                     id |-> fd[i].header.id,
                     buffer |-> flash[fd[i].address].data]
        /\ YieldAt("copied")
     \/ /\ reloc' = [reloc EXCEPT !.sector = s, !.fd_index = i,
                                  !.address = fd[i].address,
                                  !.id = fd[i].header.id]
        /\ YieldAt("await_read")
  /\ UNCHANGED <<flash, currAddress>>

(* Seeded fault: the write address of an erased sector is not reset. *)
BugEraseAddress(s) ==
  \/ /\ flash' = [a \in Addr |-> IF a[1] = s THEN Blank ELSE flash[a]]
     /\ reloc' = NoReloc
     /\ YieldAt("begin")
     /\ UNCHANGED currAddress
  \/ /\ reloc' = [NoReloc EXCEPT !.sector = s]
     /\ YieldAt("await_erase")
     /\ UNCHANGED <<flash, currAddress>>

(* No entry is left in the sector: it is erased when FLASH is ready.  The  *)
(* fields of reloc that are not used again before they are assigned are    *)
(* cleared here, as the code need not do.                                  *)
Erase(s) ==
  \/ /\ flash' = [a \in Addr |-> IF a[1] = s THEN Blank ELSE flash[a]]
     /\ currAddress' = [currAddress EXCEPT ![s] = 0]
     /\ reloc' = NoReloc
     /\ YieldAt("begin")
  \/ /\ reloc' = [NoReloc EXCEPT !.sector = s]
     /\ YieldAt("await_erase")
     /\ UNCHANGED <<flash, currAddress>>

(* The loop of fs_thread over the index, from entry j on. *)
RelocateFrom(s, j) ==
  \/ \E i \in j .. fd_index - 1 :
       /\ fd[i].sector = s /\ \A k \in j .. i - 1 : fd[k].sector # s
       /\ CopyFd(s, i)
  \/ /\ \A k \in j .. fd_index - 1 : fd[k].sector # s
     /\ Erase(s)

ThreadSelect ==
  /\ ThreadAt("select")
  /\ \/ /\ ~NeedsReloc
        /\ YieldAt("begin")
        /\ UNCHANGED <<flash, currAddress, reloc>>
     \/ /\ NeedsReloc
        /\ \E s \in Sectors : findRelocSector(s) /\ RelocateFrom(s, 0)
  /\ UNCHANGED <<bootVars, indexVars, currSector, ret>>

ThreadRead ==
  /\ ThreadAt("await_read")
  /\ \/ /\ reloc' = [reloc EXCEPT !.buffer = flash[reloc.address].data]
        /\ YieldAt("copied")
     \/ YieldAt("await_read") /\ UNCHANGED reloc
  /\ UNCHANGED <<flash, bootVars, indexVars, currVars, ret>>

(* The entry is written again in the active sector by fs_write, unless it  *)
(* has moved since its block was read.                                     *)
CallFsWrite ==
  calls' = Append(calls, [caller |-> "fs_thread", at |-> "updateSector",
                          id |-> reloc.id, data |-> Erased])

(* Seeded fault: the entry is written again wherever it is now. *)
BugCopiedUnchecked ==
  /\ ThreadAt("copied")
  /\ CallFsWrite
  /\ UNCHANGED <<flash, bootVars, indexVars, currVars, lc, reloc, ret>>

ThreadCopied ==
  /\ ThreadAt("copied")
  /\ IF fd[reloc.fd_index].address = reloc.address
     THEN CallFsWrite /\ UNCHANGED lc
     ELSE YieldAt("next")
  /\ UNCHANGED <<flash, bootVars, indexVars, currVars, reloc, ret>>

ThreadRetry ==
  /\ ThreadAt("retry")
  /\ CallFsWrite
  /\ UNCHANGED <<flash, bootVars, indexVars, currVars, lc, reloc, ret>>

(* Seeded fault: an entry is skipped. *)
BugNextSkips ==
  /\ ThreadAt("next")
  /\ RelocateFrom(reloc.sector, reloc.fd_index + 2)
  /\ UNCHANGED <<bootVars, indexVars, currSector, ret>>

ThreadNext ==
  /\ ThreadAt("next")
  /\ RelocateFrom(reloc.sector, reloc.fd_index + 1)
  /\ UNCHANGED <<bootVars, indexVars, currSector, ret>>

ThreadErase ==
  /\ ThreadAt("await_erase")
  /\ Erase(reloc.sector)
  /\ UNCHANGED <<bootVars, indexVars, currSector, ret>>

fs_thread == \/ ThreadBegin \/ ThreadSelect \/ ThreadRead \/ ThreadCopied
             \/ ThreadRetry \/ ThreadNext \/ ThreadErase

-----------------------------------------------------------------------------
Next == \/ PowerLoss \/ PowerLossInProgram
        \/ Boot
        \/ \E id \in Ids, data \in Data : UserWrite(id, data)
        \/ UserWriteTooLong
        \/ fs_write
        \/ fs_thread

Spec == Init /\ [][Next]_vars
=============================================================================
