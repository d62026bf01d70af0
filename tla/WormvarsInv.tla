----------------------------- MODULE WormvarsInv ----------------------------
(***************************************************************************)
(* The inductive invariant of wormvars: what holds between any two FLASH   *)
(* accesses, and why the properties of WormvarsProps follow from it.  It   *)
(* is stated in parts, each about one part of the state.                   *)
(***************************************************************************)
EXTENDS WormvarsProps

(* The two hypotheses: the application has no more variables than the      *)
(* index has entries, and a block write that is interrupted leaves its     *)
(* mark on the header of the cell.                                         *)
EnoughEntries == IsFiniteSet(Ids) /\ Cardinality(Ids) <= FD_MAX
TearsShow == "dirty" \notin Tears

Entries == 0 .. fd_index - 1

-----------------------------------------------------------------------------
(* A hash that matches is that of a block of a variable; a cell with a     *)
(* blank header is blank all through if interrupted writes show.           *)
IsKnown(c) == /\ TearsShow /\ HeaderOf(c) = BlankHeader => c = Blank
              /\ c.hash => c.id \in Ids
CellsAreKnown == \A a \in Addr : IsKnown(flash[a])

(* The running fs_write is at one of the points. *)
Running(points) == mode = "run" /\ calls # <<>> /\ Top.at \in points

(* Identifiers in RAM are those of variables, and the fs_write that        *)
(* fs_thread calls returns to where fs_thread waits for it.                *)
Relocating == {"await_read", "copied", "retry", "next"}
Rewriting == {"copied", "retry", "next"}
IdsAreKnown ==
  /\ \A i \in Entries : fd[i].header.id \in Ids
  /\ lc \in Relocating => reloc.id \in Ids
  /\ \A c \in 1 .. Len(calls) : /\ calls[c].id \in Ids
                                /\ calls[c].caller = "fs_thread" => lc \in Rewriting

(* Until updateSector is over fs_thread stands where it called fs_write.   *)
CallerWaits == Running({"updateSector", "fs_thread"}) /\ Top.caller = "fs_thread" =>
                 lc \in {"copied", "retry"}

(* Each variable has one entry. *)
EntriesDiffer ==
  \A i, j \in Entries : fd[i].header.id = fd[j].header.id => i = j

-----------------------------------------------------------------------------
(* While fs_init runs: an entry stands for a valid block that has been     *)
(* scanned.                                                                *)
IsScanned(a) == \/ a[1] < scan.sector
                \/ a[1] = scan.sector /\ a[2] < scan.slot
EntriesAreScanned ==
  mode = "boot" =>
    \A i \in Entries :
      /\ fd[i].address \in FsAddr /\ IsScanned(fd[i].address)
      /\ fd[i].sector = fd[i].address[1]
      /\ IsValid(fd[i].address) /\ HeaderOf(flash[fd[i].address]) = fd[i].header

-----------------------------------------------------------------------------
(* What fs_init relies on whenever power fails: sectors are filled in      *)
(* order, one at a time, and no variable has two blocks of the same rank.  *)
LastSlot == FDS_PER_SECTOR - 1
IsPartial(s) == flash[<<s, 0>>] # Blank /\ flash[<<s, LastSlot>>] = Blank
FilledInOrder ==
  \A s \in Sectors, j, k \in Slots :
    j < k /\ flash[<<s, k>>] # Blank => flash[<<s, j>>] # Blank
OnePartial ==
  \A s, t \in Sectors : IsPartial(s) /\ IsPartial(t) => s = t
FlashInv == FilledInOrder /\ OnePartial /\ CopiesAreRanked

(* The sectors already scanned have their write addresses, only the one    *)
(* assigned is partly written, and their valid blocks are in the index.    *)
ScanInv ==
  /\ \A s \in Sectors : s < scan.sector =>
       /\ currAddress[s] <= FDS_PER_SECTOR
       /\ \A k \in Slots : flash[<<s, k>>] = Blank <=> k >= currAddress[s]
       /\ ~(scan.assigned /\ s = currSector) =>
             currAddress[s] \in {0, FDS_PER_SECTOR}
  /\ scan.sector < FS_NUM_SECTORS =>
       \A k \in Slots : k < scan.slot => flash[<<scan.sector, k>>] # Blank
  /\ scan.assigned => /\ currSector < scan.sector
                      /\ currAddress[currSector] \in 1 .. LastSlot
  /\ \A a \in FsAddr : IsScanned(a) /\ IsValid(a) =>
       \E i \in Entries : fd[i].address = a

-----------------------------------------------------------------------------
(* When fs_init is over.  From the end of ProgramBlock to Settle the cell  *)
(* at the write address is in use; once the old block is invalidated the   *)
(* entry of the variable stands for no valid block.                        *)
Written == Running({"invalidate", "settle"})
Retired(i) == Running({"settle"}) /\ fd[i].header.id = Top.id

AddressInv ==
  /\ \A s \in Sectors : /\ currAddress[s] <= FDS_PER_SECTOR
                        /\ s # currSector => currAddress[s] \in {0, FDS_PER_SECTOR}
  /\ \A a \in FsAddr : ~(Written /\ a = Target) =>
       (flash[a] = Blank <=> a[2] >= currAddress[a[1]])

EntriesInv ==
  /\ \A i \in Entries :
       /\ fd[i].address \in FsAddr /\ fd[i].sector = fd[i].address[1]
       /\ IF Retired(i) THEN ~IsValid(fd[i].address)
          ELSE IsValid(fd[i].address) /\ HeaderOf(flash[fd[i].address]) = fd[i].header
  /\ \A a \in FsAddr : IsValid(a) => \/ \E i \in Entries : fd[i].address = a
                                     \/ Written /\ a = Target

(* An fs_write that is past updateSector has a cell to write to; one that  *)
(* waits in it for fs_thread has a whole sector.                           *)
CallsInv ==
  /\ Running({"mark", "program", "invalidate", "settle"}) =>
       ~SECTOR_IS_FULL(currSector)
  /\ \A c \in 1 .. Len(calls) :
       calls[c].at = "fs_thread" => SECTOR_IS_BLANK(currSector)
  /\ Running({"program", "invalidate"}) =>
       \A i \in Entries : fd[i].header.id = Top.id =>
                            fd[i].header.newer = FS_BLOCK_CURRENT
  /\ Written => /\ IsValid(Target) /\ flash[Target].newer = FS_BLOCK_NEWER
                /\ flash[Target].id = Top.id
                /\ flash[Target].data = Contents(Top)

(* The sector that is relocated is full and not the active one.  The entry *)
(* in hand is still where it was copied from, or has moved to the active   *)
(* sector; the entries before it are elsewhere.  What was copied is what   *)
(* the variable holds as long as it is written again.                      *)
Stays == fd[reloc.fd_index].address = reloc.address
Moved == fd[reloc.fd_index].sector # reloc.sector
RelocInv ==
  /\ lc \in Relocating \cup {"await_erase"} =>
       reloc.sector # currSector /\ SECTOR_IS_FULL(reloc.sector)
  /\ lc \in Relocating =>
       /\ reloc.fd_index \in Entries
       /\ fd[reloc.fd_index].header.id = reloc.id
       /\ reloc.address \in FsAddr /\ reloc.address[1] = reloc.sector
       /\ \A j \in Entries : j < reloc.fd_index => fd[j].sector # reloc.sector
  /\ lc \in {"await_read", "copied"} => Stays \/ Moved
  /\ lc \in {"copied", "retry"} => flash[reloc.address].data = reloc.buffer
  /\ lc = "retry" => Stays /\ \A s \in Sectors : SECTOR_IS_FULL(s)
  /\ lc = "next" => Moved
  /\ lc = "await_erase" => \A j \in Entries : fd[j].sector # reloc.sector
RewriteInv ==
  \A c \in 1 .. Len(calls) : calls[c].caller = "fs_thread" =>
    /\ calls[c].id = reloc.id
    /\ flash[fd[reloc.fd_index].address].data = reloc.buffer
    /\ calls[c].at \in {"updateSector", "fs_thread"} => Stays

RunInv == AddressInv /\ EntriesInv /\ CallsInv /\ RelocInv /\ RewriteInv

-----------------------------------------------------------------------------
(* All parts together.                                                     *)
KnownInv == CellsAreKnown /\ IdsAreKnown /\ CallerWaits /\ EntriesDiffer
WhileBooting == mode = "boot" => FlashInv /\ ScanInv
WhileRunning == mode = "run" => RunInv
IInv == /\ TypeOK /\ NestingInv /\ KnownInv
        /\ EntriesAreScanned /\ WhileBooting /\ WhileRunning
=============================================================================
