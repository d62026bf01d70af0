-------------------------- MODULE WormvarsInvProofs -------------------------
(***************************************************************************)
(* Proof that the invariant of WormvarsInv is inductive: what each action  *)
(* does to its parts.                                                      *)
(***************************************************************************)
EXTENDS WormvarsProofs

-----------------------------------------------------------------------------
(* Cells and addresses. *)
LEMMA CellFacts ==
  ASSUME TearsShow, TypeOK, KnownInv, NEW a \in Addr
  PROVE  /\ checkBlock(flash[a]) = BLOCK_IS_BLANK <=> flash[a] = Blank
         /\ IsValid(a) <=> flash[a].hash /\ flash[a].size = FS_SIZE32
         /\ IsValid(a) => flash[a] # Blank /\ flash[a].id \in Ids
         /\ flash[a] \in Cell
<1>1. flash[a] \in Cell
  BY DEF TypeOK
<1>2. IsKnown(flash[a]) /\ HeaderOf(Blank) = BlankHeader
  BY DEF KnownInv, CellsAreKnown, BlankHeader
<1>3. checkBlock(flash[a]) = BLOCK_IS_BLANK <=> flash[a] = Blank
  BY <1>1, <1>2, CheckBlockFacts DEF IsKnown, checkBlock
<1>4. IsValid(a) <=> flash[a].hash /\ flash[a].size = FS_SIZE32
  BY <1>1, CheckBlockFacts DEF IsValid
<1>5. ~Blank.hash
  BY DEF Blank
<1> QED BY <1>1, <1>2, <1>3, <1>4, <1>5 DEF IsKnown

LEMMA TargetFacts ==
  ASSUME TypeOK
  PROVE  /\ ~SECTOR_IS_FULL(currSector) =>
              /\ Target = <<currSector, currAddress[currSector]>>
              /\ Target \in FsAddr /\ Target \in Addr
              /\ Target[1] = currSector /\ Target[2] = currAddress[currSector]
         /\ currAddress[currSector] \in Nat
<1>1. currSector \in Sectors /\ currAddress[currSector] \in Nat
  BY DEF TypeOK
<1>2. ASSUME ~SECTOR_IS_FULL(currSector)
      PROVE  Target = <<currSector, currAddress[currSector]>> /\ Target \in FsAddr
  <2>1. currAddress[currSector] < FDS_PER_SECTOR /\ currAddress[currSector] \in Slots
    BY <1>1, <1>2, Geometry DEF SECTOR_IS_FULL, Slots
  <2> QED BY <1>1, <2>1, FsAddrFacts DEF Target, CellAt
<1> QED BY <1>1, <1>2, FsAddrFacts

(* A valid block that is not retired belongs to one entry.                 *)
LEMMA AddressesDiffer ==
  ASSUME EntriesDiffer, EntriesInv, NEW i \in Entries, NEW j \in Entries,
         ~Retired(i), ~Retired(j), fd[i].address = fd[j].address
  PROVE  i = j
<1>1. fd[i].header.id = fd[j].header.id
  BY DEF EntriesInv
<1> QED BY <1>1 DEF EntriesDiffer

(* The block just written belongs to none. *)
LEMMA TargetIsFree ==
  ASSUME TypeOK, EntriesInv, CallsInv, Written, NEW i \in Entries
  PROVE  fd[i].address # Target
<1> SUFFICES ASSUME fd[i].address = Target
             PROVE  FALSE
  OBVIOUS
<1>1. IsValid(Target) /\ flash[Target].newer = FS_BLOCK_NEWER /\ flash[Target].id = Top.id
  BY DEF CallsInv
<1>2. ~Retired(i)
  BY <1>1 DEF EntriesInv
<1>3. fd[i].header.newer = FS_BLOCK_NEWER /\ fd[i].header.id = Top.id
  <2>1. HeaderOf(flash[Target]) = fd[i].header
    BY <1>2 DEF EntriesInv
  <2> QED BY <1>1, <2>1 DEF HeaderOf
<1>4. Running({"program", "invalidate"})
  BY <1>2, <1>3 DEF Retired, Written, Running
<1> QED BY <1>3, <1>4 DEF CallsInv, FS_BLOCK_NEWER, FS_BLOCK_CURRENT

-----------------------------------------------------------------------------
(* What fs_init finds if power fails between two steps. *)
LEMMA RunFlash ==
  ASSUME TypeOK, EntriesDiffer, AddressInv, EntriesInv, CallsInv
  PROVE  FlashInv
<1>1. /\ \A s \in Sectors : currAddress[s] \in Nat
      /\ \A k \in Slots : k \in Nat /\ k < FDS_PER_SECTOR
      /\ LastSlot \in Slots /\ 0 \in Slots /\ \A k \in Slots : k <= LastSlot
  BY Geometry DEF TypeOK, Slots, LastSlot
<1>2. Written => ~SECTOR_IS_FULL(currSector)
  BY DEF Written, Running, CallsInv
<1>3. \A s \in Sectors, k \in Slots :
        ~(Written /\ <<s, k>> = Target) =>
           (flash[<<s, k>>] = Blank <=> k >= currAddress[s])
  BY FsAddrFacts DEF AddressInv
<1>4. Written => flash[Target] # Blank
  BY DEF CallsInv, IsValid, checkBlock, BlankHeader, BLOCK_IS_VALID, BLOCK_IS_BLANK
<1>5. FilledInOrder
  <2> SUFFICES ASSUME NEW s \in Sectors, NEW j \in Slots, NEW k \in Slots, j < k,
                      flash[<<s, k>>] # Blank
               PROVE  flash[<<s, j>>] # Blank
    BY DEF FilledInOrder
  <2>1. CASE Written /\ <<s, j>> = Target
    BY <1>4, <2>1
  <2>2. CASE ~(Written /\ <<s, j>> = Target)
    <3>1. CASE Written /\ <<s, k>> = Target
      BY <1>1, <1>2, <1>3, <2>2, <3>1, TargetFacts
    <3>2. CASE ~(Written /\ <<s, k>> = Target)
      BY <1>1, <1>3, <2>2, <3>2
    <3> QED BY <3>1, <3>2
  <2> QED BY <2>1, <2>2
<1>6. OnePartial
  <2> SUFFICES ASSUME NEW s \in Sectors, IsPartial(s), s # currSector
               PROVE  FALSE
    BY DEF OnePartial
  <2>1. currAddress[s] \in {0, FDS_PER_SECTOR}
    BY DEF AddressInv
  <2>2. \A k \in Slots : <<s, k>> = Target => ~Written
    BY <1>2, TargetFacts
  <2> QED BY <1>1, <1>3, <2>1, <2>2, Geometry DEF IsPartial
<1>7. CopiesAreRanked
  <2> SUFFICES ASSUME NEW id, NEW a \in Copies(id), NEW b \in Copies(id), a # b,
                      flash[a].newer = flash[b].newer
               PROVE  FALSE
    BY DEF CopiesAreRanked
  <2>1. /\ a \in FsAddr /\ IsValid(a) /\ flash[a].id = id
        /\ b \in FsAddr /\ IsValid(b) /\ flash[b].id = id
    BY DEF Copies
  <2>2. ASSUME NEW x \in FsAddr, IsValid(x), NEW i \in Entries, fd[i].address = x
        PROVE  /\ ~Retired(i) /\ fd[i].header.id = flash[x].id
               /\ fd[i].header.newer = flash[x].newer
    <3>1. ~Retired(i) /\ HeaderOf(flash[x]) = fd[i].header
      BY <2>2 DEF EntriesInv
    <3> QED BY <3>1 DEF HeaderOf
  <2>3. ASSUME NEW x \in FsAddr, IsValid(x), flash[x].id = id, x # Target,
               NEW y \in FsAddr, y = Target, flash[y].id = id, Written
        PROVE  flash[x].newer # flash[y].newer
    <3>1. PICK i \in Entries : fd[i].address = x
      BY <2>3 DEF EntriesInv
    <3>2. fd[i].header.id = Top.id /\ ~Retired(i) /\ fd[i].header.newer = flash[x].newer
      BY <2>2, <2>3, <3>1 DEF CallsInv
    <3>3. Running({"program", "invalidate"})
      BY <2>3, <3>2 DEF Retired, Written, Running
    <3> QED BY <2>3, <3>2, <3>3 DEF CallsInv, FS_BLOCK_NEWER, FS_BLOCK_CURRENT
  <2>4. CASE Written /\ (a = Target \/ b = Target)
    BY <2>1, <2>3, <2>4
  <2>5. CASE ~(Written /\ (a = Target \/ b = Target))
    <3>1. PICK i \in Entries, j \in Entries : fd[i].address = a /\ fd[j].address = b
      BY <2>1, <2>5 DEF EntriesInv
    <3>2. fd[i].header.id = fd[j].header.id
      BY <2>1, <2>2, <3>1
    <3> QED BY <3>1, <3>2 DEF EntriesDiffer
  <2> QED BY <2>4, <2>5
<1> QED BY <1>5, <1>6, <1>7 DEF FlashInv
-----------------------------------------------------------------------------
LEMMA NotRetired ==
  ASSUME ~Written
  PROVE  \A i : ~Retired(i)
  BY DEF Written, Retired, Running

(* Some sector has room: fs_thread is not waiting to try again. *)
LEMMA NotRetrying ==
  ASSUME RelocInv, NEW s \in Sectors, ~SECTOR_IS_FULL(s)
  PROVE  lc # "retry"
  BY DEF RelocInv

(* Steps that leave FLASH, the index and the addresses alone, outside the  *)
(* time from the end of ProgramBlock to Settle.                            *)
LEMMA QuietStep ==
  ASSUME AddressInv, EntriesInv, ~Written, ~Written',
         UNCHANGED <<flash, fd, fd_index, currAddress, currSector>>
  PROVE  AddressInv' /\ EntriesInv'
<1>1. (\A i : ~Retired(i)) /\ (\A i : ~Retired(i)')
  BY DEF Written, Retired, Running
<1>2. AddressInv'
  BY DEF AddressInv
<1>3. EntriesInv'
  BY <1>1, ValidKept DEF EntriesInv, Entries
<1> QED BY <1>2, <1>3

(* What RelocInv needs of a step of fs_write: entries stay or go to the    *)
(* active sector, which is not one that was full.                          *)
LEMMA RelocKept ==
  ASSUME TypeOK, RelocInv, lc # "retry", UNCHANGED <<lc, reloc>>,
         Entries \subseteq Entries',
         \A i \in Entries : /\ fd'[i].header.id = fd[i].header.id
                            /\ \/ /\ fd'[i].address = fd[i].address
                                  /\ fd'[i].sector = fd[i].sector
                               \/ fd'[i].sector = currSector',
         \A i \in Entries' \ Entries : fd'[i].sector = currSector',
         \A s \in Sectors : s # currSector /\ SECTOR_IS_FULL(s) =>
                              s # currSector' /\ SECTOR_IS_FULL(s)',
         \A a \in FsAddr : a[1] # currSector => flash'[a].data = flash[a].data
  PROVE  RelocInv'
<1>1. reloc.sector \in Sectors
  BY DEF TypeOK, RelocRecord
<1>2. lc \in Relocating \cup {"await_erase"} =>
        /\ reloc.sector # currSector /\ SECTOR_IS_FULL(reloc.sector)
        /\ reloc.sector # currSector' /\ SECTOR_IS_FULL(reloc.sector)'
  BY <1>1 DEF RelocInv
<1>3. lc \in Relocating =>
       /\ reloc.fd_index \in Entries'
       /\ fd'[reloc.fd_index].header.id = reloc.id
       /\ reloc.address \in FsAddr /\ reloc.address[1] = reloc.sector
       /\ \A j \in Entries' : j < reloc.fd_index => fd'[j].sector # reloc.sector
  BY <1>2 DEF RelocInv
<1>4. (lc \in {"await_read", "copied"} => Stays' \/ Moved') /\ (lc = "next" => Moved')
  BY <1>2 DEF RelocInv, Stays, Moved, Relocating
<1>5. lc = "copied" => flash'[reloc.address].data = reloc.buffer
  BY <1>2, <1>3 DEF RelocInv, Relocating
<1>6. lc = "await_erase" => \A j \in Entries' : fd'[j].sector # reloc.sector
  BY <1>2 DEF RelocInv
<1> QED BY <1>2, <1>3, <1>4, <1>5, <1>6 DEF RelocInv

(* fs_write goes on to its next FLASH access: the entry that is written    *)
(* again holds the same data.                                              *)
LEMMA RewriteGoesOn ==
  ASSUME TypeOK, IdsAreKnown, RelocInv, RewriteInv, NEW from, NEW to \in CallPoints,
         Executing(from), GoTo(to), UNCHANGED reloc,
         \A i \in Entries : /\ fd'[i].address = fd[i].address
                            /\ flash'[fd[i].address].data = flash[fd[i].address].data,
         to \in {"updateSector", "fs_thread"} => from = "updateSector"
  PROVE  RewriteInv'
<1>1. /\ Len(calls') = Len(calls) /\ SameCalls(calls, calls', Len(calls))
      /\ \A c \in 1 .. Len(calls) - 1 : calls'[c] = calls[c]
      /\ Top' = [Top EXCEPT !.at = to] /\ Top \in Call
  BY GoToCalls, TopFacts
<1>2. Top'.at = to /\ Top.at = from
  BY <1>1 DEF Call, Executing
<1> SUFFICES ASSUME NEW c \in 1 .. Len(calls), calls'[c].caller = "fs_thread"
             PROVE  /\ calls'[c].id = reloc.id
                    /\ flash'[fd'[reloc.fd_index].address].data = reloc.buffer
                    /\ calls'[c].at \in {"updateSector", "fs_thread"} => Stays'
  BY <1>1 DEF RewriteInv
<1>3. calls[c].caller = "fs_thread" /\ calls'[c].id = calls[c].id
  BY <1>1 DEF SameCalls
<1>4. reloc.fd_index \in Entries
  BY <1>3 DEF IdsAreKnown, RelocInv, Rewriting, Relocating
<1>5. calls[c].at \in {"updateSector", "fs_thread"} => Stays'
  BY <1>3, <1>4 DEF RewriteInv, Stays
<1>6. calls'[c].at \in {"updateSector", "fs_thread"} =>
        calls[c].at \in {"updateSector", "fs_thread"}
  <2>1. CASE c = Len(calls)
    BY <1>1, <1>2, <2>1 DEF Top
  <2>2. CASE c # Len(calls)
    <3>1. c \in 1 .. Len(calls) - 1
      BY <2>2, CallLength DEF TypeOK
    <3> QED BY <1>1, <3>1
  <2> QED BY <2>1, <2>2
<1> QED BY <1>3, <1>4, <1>5, <1>6 DEF RewriteInv

(* fs_write goes on: another fs_write that waits in updateSector still does. *)
LEMMA OthersWait ==
  ASSUME TypeOK, NEW from, NEW to \in CallPoints, Executing(from), GoTo(to),
         to # "fs_thread"
  PROVE  \A c \in 1 .. Len(calls') : calls'[c].at = "fs_thread" =>
           c \in 1 .. Len(calls) /\ calls[c].at = "fs_thread"
<1>1. /\ Len(calls') = Len(calls) /\ Top' = [Top EXCEPT !.at = to] /\ Top \in Call
      /\ \A c \in 1 .. Len(calls) - 1 : calls'[c] = calls[c]
  BY GoToCalls, TopFacts
<1>2. \A c \in 1 .. Len(calls') : c = Len(calls') \/ c \in 1 .. Len(calls) - 1
  BY <1>1, CallLength DEF TypeOK
<1> QED BY <1>1, <1>2 DEF Top, Call

LEMMA RelocSame ==
  ASSUME RelocInv,
         UNCHANGED <<flash, fd, fd_index, currAddress, currSector, lc, reloc>>
  PROVE  RelocInv'
  BY DEF RelocInv, Entries, Stays, Moved, SECTOR_IS_FULL

-----------------------------------------------------------------------------
(* The application calls fs_write. *)
LEMMA RunCall ==
  ASSUME RunInv, NEW id, NEW data, UserWrite(id, data)
  PROVE  RunInv'
<1>1. /\ calls = <<>> /\ UNCHANGED <<flash, fd, fd_index, currAddress, currSector, lc, reloc>>
      /\ calls' = <<[caller |-> "user", at |-> "updateSector", id |-> id,
                     data |-> data]>>
  BY DEF UserWrite, Idle, indexVars, currVars
<1>2. /\ \A c \in 1 .. Len(calls') : calls'[c].caller = "user" /\ calls'[c].at = "updateSector"
      /\ Top'.at = "updateSector"
  BY <1>1 DEF Top
<1>3. ~Written /\ ~Written'
  BY <1>1, <1>2 DEF Written, Running
<1>4. CallsInv'
  BY <1>2, <1>3 DEF CallsInv, Running
<1>5. RewriteInv'
  BY <1>2 DEF RewriteInv
<1> QED BY <1>1, <1>3, <1>4, <1>5, QuietStep, RelocSame DEF RunInv

(* updateSector. *)
LEMMA RunStay ==
  ASSUME TypeOK, KnownInv, RunInv, StaySector
  PROVE  RunInv'
<1>1. /\ Executing("updateSector") /\ GoTo("mark") /\ "mark" \in CallPoints
      /\ UNCHANGED <<flash, fd, fd_index, currAddress, currSector, lc, reloc>>
      /\ ~SECTOR_IS_FULL(currSector)
  BY DEF StaySector, indexVars, currVars, CallPoints
<1>2. /\ Len(calls') = Len(calls) /\ Top' = [Top EXCEPT !.at = "mark"] /\ Top \in Call
      /\ \A c \in 1 .. Len(calls) - 1 : calls'[c] = calls[c]
  BY <1>1, GoToCalls, TopFacts
<1>3. Top'.at = "mark" /\ Top.at = "updateSector" /\ ~Written /\ ~Written'
  BY <1>1, <1>2 DEF Call, Executing, Written, Running
<1>5. CallsInv'
  BY <1>1, <1>3, OthersWait DEF RunInv, CallsInv, Running, SECTOR_IS_FULL,
     SECTOR_IS_BLANK
<1>6. RewriteInv'
  BY <1>1, RewriteGoesOn DEF RunInv, KnownInv
<1> QED BY <1>1, <1>3, <1>5, <1>6, QuietStep, RelocSame DEF RunInv

(* The sector moved to is blank: only the active one is partly written,    *)
(* and that one is full.                                                   *)
LEMMA RunChange ==
  ASSUME TypeOK, KnownInv, RunInv, ChangeSector
  PROVE  RunInv'
<1>1. /\ Executing("updateSector") /\ GoTo("fs_thread") /\ "fs_thread" \in CallPoints
      /\ UNCHANGED <<flash, fd, fd_index, currAddress, lc, reloc>>
      /\ SECTOR_IS_FULL(currSector)
  BY DEF ChangeSector, indexVars, CallPoints
<1>2. /\ Len(calls') = Len(calls) /\ Top' = [Top EXCEPT !.at = "fs_thread"] /\ Top \in Call
  BY <1>1, GoToCalls, TopFacts
<1>3. Top'.at = "fs_thread" /\ Top.at = "updateSector" /\ ~Written /\ ~Written'
  BY <1>1, <1>2 DEF Call, Executing, Written, Running
<1>4. currSector' \in Sectors /\ ~SECTOR_IS_FULL(currSector') /\ currSector' # currSector
  BY <1>1 DEF ChangeSector, NextOpenSector
<1>5. AddressInv'
  <2>1. /\ \A s \in Sectors : currAddress'[s] = currAddress[s] /\ currAddress[s] \in Nat
        /\ currSector \in Sectors
    BY <1>1 DEF TypeOK
  <2>2. currAddress[currSector] = FDS_PER_SECTOR
    BY <1>1, <2>1, Geometry DEF RunInv, AddressInv, SECTOR_IS_FULL
  <2> QED BY <1>1, <1>3, <2>1, <2>2 DEF RunInv, AddressInv
<1>6. EntriesInv'
  BY <1>1, <1>3, NotRetired, ValidKept DEF RunInv, EntriesInv, Entries, Retired, Written,
     Running
<1>7. currAddress'[currSector'] = 0
  BY <1>1, <1>4 DEF RunInv, AddressInv, SECTOR_IS_FULL
<1>8. CallsInv'
  BY <1>3, <1>7 DEF CallsInv, Running, SECTOR_IS_BLANK
<1>9. RelocInv'
  <2>1. lc # "retry"
    BY <1>4, NotRetrying DEF RunInv
  <2>2. \A s \in Sectors : SECTOR_IS_FULL(s) => s # currSector' /\ SECTOR_IS_FULL(s)'
    BY <1>1, <1>4 DEF SECTOR_IS_FULL
  <2> QED BY <1>1, <2>1, <2>2, RelocKept DEF RunInv, Entries
<1>10. RewriteInv'
  BY <1>1, RewriteGoesOn DEF RunInv, KnownInv
<1> QED BY <1>5, <1>6, <1>8, <1>9, <1>10 DEF RunInv

(* updateSector gives up only in a call by fs_thread or the application    *)
(* that waits for no other: fs_thread keeps its entry in hand.             *)
LEMMA RunNoSector ==
  ASSUME TypeOK, NestingInv, KnownInv, RunInv, NoSector
  PROVE  RunInv'
<1>1. /\ Executing("updateSector") /\ Return(-2) /\ \A s \in Sectors : SECTOR_IS_FULL(s)
      /\ UNCHANGED <<flash, fd, fd_index, currAddress, currSector, reloc>>
  BY DEF NoSector, indexVars, currVars
<1>2. /\ calls' \in Seq(Call) /\ Len(calls') = Len(calls) - 1
      /\ calls' # <<>> => Len(calls) = 2
      /\ Top.caller = "user" => lc' = lc
      /\ Top.caller # "user" => lc' = "retry" /\ Top.caller = "fs_thread"
  BY <1>1, ReturnCalls
<1>3. calls' = <<>> /\ Len(calls) = 1
  <2>1. ASSUME Len(calls) = 2
        PROVE  FALSE
    <3>1. calls[1].at = "fs_thread" /\ 1 \in 1 .. Len(calls)
      BY <2>1 DEF NestingInv
    <3>2. SECTOR_IS_BLANK(currSector) /\ SECTOR_IS_FULL(currSector)
      BY <1>1, <3>1 DEF RunInv, CallsInv, TypeOK
    <3> QED BY <3>2, Geometry DEF SECTOR_IS_BLANK, SECTOR_IS_FULL
  <2> QED BY <1>2, <2>1, CallLength DEF TypeOK
<1>4. ~Written /\ ~Written'
  BY <1>1, <1>3 DEF Written, Running, Executing
<1>5. CallsInv' /\ RewriteInv'
  <2>1. \A c \in 1 .. Len(calls') : FALSE
    BY <1>2, <1>3
  <2> QED BY <1>3, <1>4, <2>1 DEF CallsInv, RewriteInv, Running
<1>6. RelocInv'
  <2>1. CASE Top.caller = "user"
    BY <1>1, <1>2, <2>1, RelocSame DEF RunInv
  <2>2. CASE Top.caller # "user"
    <3>1. lc' = "retry" /\ Top.caller = "fs_thread" /\ lc \in {"copied", "retry"}
      BY <1>1, <1>2, <2>2 DEF KnownInv, CallerWaits, Running, Executing
    <3>2. Stays /\ flash[fd[reloc.fd_index].address].data = reloc.buffer
      BY <1>1, <1>3, <3>1 DEF RunInv, RewriteInv, Top, Executing
    <3>3. /\ reloc.sector # currSector /\ SECTOR_IS_FULL(reloc.sector)
          /\ reloc.fd_index \in Entries
          /\ fd[reloc.fd_index].header.id = reloc.id
          /\ reloc.address \in FsAddr /\ reloc.address[1] = reloc.sector
          /\ \A j \in Entries : j < reloc.fd_index => fd[j].sector # reloc.sector
      BY <3>1 DEF RunInv, RelocInv, Relocating
    <3> QED BY <1>1, <3>1, <3>2, <3>3 DEF RelocInv, Entries, Stays, SECTOR_IS_FULL
  <2> QED BY <2>1, <2>2
<1> QED BY <1>1, <1>4, <1>5, <1>6, QuietStep DEF RunInv

-----------------------------------------------------------------------------
(* Writing the header of a valid block. *)
LEMMA HeaderWrite ==
  ASSUME TypeOK, TypeOK', NEW a \in Addr, NEW h \in Header, IsValid(a),
         h.id = flash[a].id,
         \/ flash' = [flash EXCEPT ![a] = ProgramHeader(@, h)]
         \/ flash' = [flash EXCEPT ![a] = ProgramFlags(@, h)]
  PROVE  /\ \A b \in Addr : b # a => flash'[b] = flash[b]
         /\ \A b \in Addr : flash'[b].data = flash[b].data
         /\ flash'[a].size = AndBits(FS_SIZE32, h.size)
         /\ flash'[a].newer = AndBits(flash[a].newer, h.newer)
         /\ flash'[a].id = h.id /\ flash'[a].hash
         /\ \A b \in Addr : flash'[b] = Blank <=> flash[b] = Blank
<1>1. flash[a] \in Cell /\ flash[a].hash /\ flash[a].size = FS_SIZE32
  BY CheckBlockFacts DEF TypeOK, IsValid
<1>2. /\ flash'[a].size = AndBits(FS_SIZE32, h.size) /\ flash'[a].data = flash[a].data
      /\ flash'[a].newer = AndBits(flash[a].newer, h.newer)
      /\ flash'[a].id = h.id /\ flash'[a].hash
  BY <1>1, HeaderFields, FlagsFields DEF TypeOK, AndField
<1>3. \A b \in Addr : b # a => flash'[b] = flash[b]
  BY DEF TypeOK
<1>4. ~Blank.hash
  BY DEF Blank
<1> QED BY <1>1, <1>2, <1>3, <1>4

(* A valid block is flagged current: it stays valid. *)
LEMMA FlagWrite ==
  ASSUME TypeOK, TypeOK', NEW a \in Addr, NEW h \in Header, IsValid(a),
         h.id = flash[a].id, h.size = FS_SIZE32, h.newer = FS_BLOCK_CURRENT,
         \/ flash' = [flash EXCEPT ![a] = ProgramHeader(@, h)]
         \/ flash' = [flash EXCEPT ![a] = ProgramFlags(@, h)]
  PROVE  IsValid(a)' /\ HeaderOf(flash'[a]) = h
<1>1. /\ flash'[a].size = AndBits(FS_SIZE32, h.size)
      /\ flash'[a].newer = AndBits(flash[a].newer, h.newer)
      /\ flash'[a].id = h.id /\ flash'[a].hash
  BY HeaderWrite
<1>2. flash'[a] \in Cell /\ flash[a].newer \in Flags
  BY DEF TypeOK, Cell
<1>3. flash'[a].size = FS_SIZE32 /\ flash'[a].newer = FS_BLOCK_CURRENT
  BY <1>1, <1>2 DEF AndBits, Flags, FS_SIZE32, FS_BLOCK_CURRENT, FS_BLOCK_NEWER
<1>4. IsValid(a)'
  BY <1>1, <1>2, <1>3, CheckBlockFacts DEF IsValid
<1>5. HeaderOf(flash'[a]) = h
  BY <1>1, <1>3 DEF HeaderOf, Header
<1> QED BY <1>4, <1>5

(* The block in use is flagged current. *)
LEMMA RunMark ==
  ASSUME TypeOK, TypeOK', KnownInv, RunInv, NEW i \in 0 .. FD_MAX, MarkCurrent(i)
  PROVE  RunInv'
<1> DEFINE h == [fd[i].header EXCEPT !.newer = FS_BLOCK_CURRENT]
<1>1. /\ Executing("mark") /\ GoTo("program") /\ {"mark", "program"} \subseteq CallPoints
      /\ UNCHANGED <<fd_index, currAddress, currSector, lc, reloc>>
      /\ Search(i, Top.id)
  BY DEF MarkCurrent, CallPoints, currVars
<1>2. /\ Len(calls') = Len(calls) /\ Top' = [Top EXCEPT !.at = "program"] /\ Top \in Call
      /\ \A c \in 1 .. Len(calls) - 1 : calls'[c] = calls[c]
  BY <1>1, GoToCalls, TopFacts
<1>3. /\ Top'.at = "program" /\ Top.at = "mark" /\ Top'.id = Top.id
      /\ ~Written /\ ~Written'
  BY <1>1, <1>2 DEF Call, Executing, Written, Running
<1>4. /\ \A j \in Entries : /\ ~Retired(j) /\ ~Retired(j)'
                            /\ fd[j].address \in FsAddr /\ fd[j].address \in Addr
                            /\ fd[j].sector = fd[j].address[1]
                            /\ IsValid(fd[j].address)
                            /\ HeaderOf(flash[fd[j].address]) = fd[j].header
      /\ Entries' = Entries
  BY <1>1, <1>3, FsAddrFacts DEF RunInv, EntriesInv, Retired, Written, Running, Entries
<1>5. ~SECTOR_IS_FULL(currSector) /\ lc # "retry"
  BY <1>1, NotRetrying DEF RunInv, CallsInv, Running, Executing, TypeOK
<1>6. /\ \A a \in Addr : /\ flash'[a].data = flash[a].data
                         /\ flash'[a] = Blank <=> flash[a] = Blank
                         /\ IsValid(a)' <=> IsValid(a)
      /\ \A j \in Entries : /\ fd'[j].address = fd[j].address
                            /\ fd'[j].sector = fd[j].sector
                            /\ fd'[j].header.id = fd[j].header.id
                            /\ HeaderOf(flash'[fd[j].address]) = fd'[j].header
      /\ \A j \in Entries : fd[j].header.id = Top.id =>
                              fd'[j].header.newer = FS_BLOCK_CURRENT
  <2>1. CASE i < fd_index /\ fd[i].header.newer = FS_BLOCK_NEWER
    <3>1. /\ fd' = [fd EXCEPT ![i].header = h]
          /\ flash' = [flash EXCEPT ![fd[i].address] = ProgramHeader(@, h)]
      BY <2>1 DEF MarkCurrent
    <3>2. i \in Entries /\ fd[i].header.id = Top.id
      BY <1>1, <2>1, EntryFacts DEF Search, Entries
    <3>3. /\ h \in Header /\ h.newer = FS_BLOCK_CURRENT /\ h.id = fd[i].header.id
          /\ h.size = fd[i].header.size
      BY <3>2, EntryFacts DEF Header, Flags
    <3> HIDE DEF h
    <3>4. PICK a \in Addr : a = fd[i].address
      BY <1>4, <3>2
    <3>5. fd[i].header.size = FS_SIZE32 /\ fd[i].header.id = flash[fd[i].address].id
      <4>1. HeaderOf(flash[fd[i].address]) = fd[i].header /\ IsValid(fd[i].address)
            /\ flash[fd[i].address] \in Cell
        BY <1>4, <3>2 DEF TypeOK
      <4> QED BY <4>1, CheckBlockFacts DEF HeaderOf, IsValid
    <3>6. IsValid(a) /\ h.id = flash[a].id /\ h.size = FS_SIZE32
      BY <1>4, <3>2, <3>3, <3>5, <3>4 DEF IsValid
    <3>7. IsValid(a)' /\ HeaderOf(flash'[a]) = h
      BY <3>1, <3>3, <3>4, <3>6, FlagWrite
    <3>8. \A b \in Addr : /\ flash'[b].data = flash[b].data
                          /\ flash'[b] = Blank <=> flash[b] = Blank
                          /\ b # a => flash'[b] = flash[b]
      BY <3>1, <3>3, <3>4, <3>6, HeaderWrite
    <3>9. /\ \A j \in Entries : j # i => fd'[j] = fd[j]
          /\ fd'[i].address = fd[i].address /\ fd'[i].sector = fd[i].sector
          /\ fd'[i].header = h
      BY <3>1, <3>2, EntryFacts DEF TypeOK, FileDescriptor
    <3>10. \A j \in Entries : j # i => fd[j].address # fd[i].address
      BY <1>4, <3>2, AddressesDiffer DEF KnownInv, RunInv
    <3>11. \A j \in Entries : fd[j].header.id = Top.id => j = i
      BY <3>2 DEF KnownInv, EntriesDiffer
    <3>12. \A b \in Addr : IsValid(b)' <=> IsValid(b)
      BY <3>7, <3>8, <3>6, ValidKept
    <3>13. \A j \in Entries : HeaderOf(flash'[fd[j].address]) = fd'[j].header
      BY <1>4, <3>7, <3>8, <3>9, <3>10, <3>4
    <3> QED BY <3>3, <3>8, <3>9, <3>11, <3>12, <3>13
  <2>2. CASE ~(i < fd_index /\ fd[i].header.newer = FS_BLOCK_NEWER)
    <3>1. UNCHANGED <<flash, fd>>
      BY <2>2 DEF MarkCurrent
    <3>2. \A j \in Entries : fd[j].header.id = Top.id => j = i /\ i < fd_index
      BY <1>1, EntryFacts DEF Search, Entries, KnownInv, EntriesDiffer
    <3>3. \A j \in Entries : fd[j].header.newer \in {FS_BLOCK_CURRENT, FS_BLOCK_NEWER}
      BY EntryFacts DEF Header, Flags
    <3> QED BY <1>4, <2>2, <3>1, <3>2, <3>3, ValidKept
  <2> QED BY <2>1, <2>2
<1> HIDE DEF h
<1>7. AddressInv'
  BY <1>1, <1>3, <1>6, FsAddrFacts DEF RunInv, AddressInv
<1>8. EntriesInv'
  BY <1>3, <1>4, <1>6, FsAddrFacts DEF RunInv, EntriesInv
<1>9. CallsInv'
  BY <1>1, <1>3, <1>4, <1>5, <1>6, OthersWait DEF RunInv, CallsInv, Running,
     SECTOR_IS_FULL, SECTOR_IS_BLANK
<1>10. RelocInv'
  BY <1>1, <1>4, <1>5, <1>6, FsAddrFacts, RelocKept DEF RunInv, SECTOR_IS_FULL
<1>11. RewriteInv'
  BY <1>1, <1>4, <1>6, RewriteGoesOn DEF RunInv, KnownInv
<1> QED BY <1>7, <1>8, <1>9, <1>10, <1>11 DEF RunInv

(* The cells at and past the write address of the active sector are blank. *)
LEMMA TargetIsBlank ==
  ASSUME TypeOK, AddressInv, ~Written, ~SECTOR_IS_FULL(currSector)
  PROVE  Target \in FsAddr /\ flash[Target] = Blank
<1>1. /\ Target = <<currSector, currAddress[currSector]>> /\ Target \in FsAddr
      /\ Target[1] = currSector /\ Target[2] = currAddress[currSector]
  BY TargetFacts
<1>2. currAddress[currSector] \in Nat
  BY DEF TypeOK
<1> QED BY <1>1, <1>2 DEF AddressInv

(* A block written on a blank cell is as it was composed. *)
LEMMA BlockOnBlank ==
  ASSUME NEW id \in Ids, NEW data \in DataField
  PROVE  LET c == Program(Blank, Block(id, data))
         IN  /\ checkBlock(c) = BLOCK_IS_VALID /\ c # Blank /\ c.newer = FS_BLOCK_NEWER
             /\ c.id = id /\ c.data = data
<1> DEFINE c == Program(Blank, Block(id, data))
<1>1. /\ c.size = FS_SIZE32 /\ c.newer = FS_BLOCK_NEWER /\ c.id = id /\ c.data = data
      /\ c.hash
  BY DEF Program, Blank, Block, AndBits, AndField, FS_SIZE32, FS_SIZEERASED,
     FS_BLOCK_NEWER
<1>2. c \in Cell
  BY BlankType, BlockType, ProgramType DEF IdField
<1>3. ~Blank.hash
  BY DEF Blank
<1> HIDE DEF c
<1>4. checkBlock(c) = BLOCK_IS_VALID
  BY <1>1, <1>2, CheckBlockFacts
<1> QED BY <1>1, <1>3, <1>4 DEF c

(* The new block is written. *)
LEMMA RunProgram ==
  ASSUME TypeOK, KnownInv, RunInv, ProgramBlock
  PROVE  RunInv'
<1>1. /\ Executing("program") /\ GoTo("invalidate") /\ "invalidate" \in CallPoints
      /\ UNCHANGED <<fd, fd_index, currAddress, currSector, lc, reloc>>
      /\ flash' = [flash EXCEPT ![Target] = Program(@, Block(Top.id, Contents(Top)))]
  BY DEF ProgramBlock, CallPoints, currVars, indexVars
<1>2. /\ Len(calls') = Len(calls) /\ Top' = [Top EXCEPT !.at = "invalidate"] /\ Top \in Call
      /\ \A c \in 1 .. Len(calls) - 1 : calls'[c] = calls[c] /\ c \in 1 .. Len(calls)
  BY <1>1, GoToCalls, TopFacts
<1>3. /\ Top'.at = "invalidate" /\ Top.at = "program" /\ Top'.id = Top.id
      /\ Top'.caller = Top.caller /\ Top'.data = Top.data
      /\ ~Written /\ mode' = "run" /\ calls' # <<>>
  BY <1>1, <1>2, GoToCalls DEF Call, Executing, Written, Running, ProgramBlock, bootVars
<1>4. ~SECTOR_IS_FULL(currSector) /\ lc # "retry"
  BY <1>1, NotRetrying DEF RunInv, CallsInv, Running, Executing, TypeOK
<1>5. PICK a \in FsAddr : a = Target /\ flash[a] = Blank /\ a[1] = currSector
  BY <1>3, <1>4, TargetIsBlank, TargetFacts DEF RunInv
<1>6. Target' = a
  BY <1>1, <1>5 DEF Target
<1>7. Top.id \in Ids /\ Contents(Top) \in DataField
  BY <1>1, TopKnown, TopFacts DEF Contents, TypeOK, RelocRecord
<1>8. /\ IsValid(a)' /\ flash'[a] # Blank /\ flash'[a].newer = FS_BLOCK_NEWER
      /\ flash'[a].id = Top.id /\ flash'[a].data = Contents(Top)
      /\ \A b \in FsAddr : b # a => flash'[b] = flash[b]
  BY <1>1, <1>5, <1>7, BlockOnBlank, FsAddrFacts DEF TypeOK, IsValid
<1>9. ~IsValid(a)
  BY <1>5, BlankType, CheckBlockFacts DEF IsValid, Blank
<1>10. Contents(Top)' = Contents(Top)
  BY <1>1, <1>3 DEF Contents
<1>11. \A j \in Entries : /\ fd[j].address \in FsAddr /\ fd[j].address # a
                          /\ fd[j].sector = fd[j].address[1]
                          /\ IsValid(fd[j].address)
                          /\ HeaderOf(flash[fd[j].address]) = fd[j].header
  BY <1>3, <1>9, NotRetired DEF RunInv, EntriesInv
<1>12. Entries' = Entries /\ \A j : ~Retired(j)'
  BY <1>1, <1>3 DEF Entries, Retired, Running
<1>13. AddressInv'
  BY <1>1, <1>3, <1>5, <1>6, <1>8 DEF RunInv, AddressInv, Written, Running
<1>14. EntriesInv'
  <2>1. \A b \in FsAddr : b # a => (IsValid(b)' <=> IsValid(b))
    BY <1>8, ValidKept
  <2> QED BY <1>1, <1>3, <1>6, <1>8, <1>11, <1>12, <2>1
          DEF RunInv, EntriesInv, Written, Running
<1>15. CallsInv'
  <2>1. \A i \in Entries : fd[i].header.id = Top.id => fd[i].header.newer = FS_BLOCK_CURRENT
    BY <1>1 DEF RunInv, CallsInv, Running, Executing
  <2> QED BY <1>1, <1>3, <1>4, <1>6, <1>8, <1>10, <1>12, <2>1, OthersWait
          DEF RunInv, CallsInv, Running, SECTOR_IS_FULL, SECTOR_IS_BLANK
<1>16. RelocInv'
  BY <1>1, <1>4, <1>5, <1>8, <1>12, FsAddrFacts, RelocKept DEF RunInv, SECTOR_IS_FULL
<1>17. RewriteInv'
  BY <1>1, <1>8, <1>11, RewriteGoesOn DEF RunInv, KnownInv
<1> QED BY <1>13, <1>14, <1>15, <1>16, <1>17 DEF RunInv

(* The block in use until now is invalidated: no entry stands for the      *)
(* variable until Settle.                                                  *)
LEMMA RunInvalidate ==
  ASSUME TypeOK, TypeOK', KnownInv, RunInv, NEW i \in 0 .. FD_MAX, InvalidateOld(i)
  PROVE  RunInv'
<1> DEFINE h == [fd[i].header EXCEPT !.size = FS_SIZEINVALID]
<1>1. /\ Executing("invalidate") /\ GoTo("settle") /\ "settle" \in CallPoints
      /\ UNCHANGED <<fd_index, currAddress, currSector, lc, reloc>>
      /\ Search(i, Top.id)
  BY DEF InvalidateOld, CallPoints, currVars
<1>2. /\ Len(calls') = Len(calls) /\ Top' = [Top EXCEPT !.at = "settle"] /\ Top \in Call
  BY <1>1, GoToCalls, TopFacts
<1>3. /\ Top'.at = "settle" /\ Top.at = "invalidate" /\ Top'.id = Top.id
      /\ Top'.caller = Top.caller /\ Top'.data = Top.data /\ Contents(Top)' = Contents(Top)
      /\ Written /\ mode' = "run" /\ calls' # <<>>
  BY <1>1, <1>2, GoToCalls
     DEF Call, Executing, Written, Running, InvalidateOld, bootVars, Contents
<1>4. ~SECTOR_IS_FULL(currSector) /\ lc # "retry"
  BY <1>1, NotRetrying DEF RunInv, CallsInv, Running, Executing, TypeOK
<1>5. PICK t \in FsAddr : t = Target /\ t[1] = currSector
  BY <1>4, TargetFacts
<1>6. /\ Target' = t /\ IsValid(t) /\ flash[t].newer = FS_BLOCK_NEWER
      /\ flash[t].id = Top.id /\ flash[t].data = Contents(Top)
  BY <1>1, <1>3, <1>5 DEF Target, RunInv, CallsInv
<1>7. /\ \A j \in Entries : /\ fd[j].address \in FsAddr /\ fd[j].address # t
                            /\ fd[j].sector = fd[j].address[1]
                            /\ IsValid(fd[j].address) /\ ~Retired(j)
                            /\ HeaderOf(flash[fd[j].address]) = fd[j].header
      /\ Entries' = Entries
  BY <1>1, <1>3, <1>5, TargetIsFree DEF RunInv, EntriesInv, Retired, Running, Entries
<1>8. /\ \A a \in FsAddr : /\ flash'[a].data = flash[a].data
                           /\ flash'[a] = Blank <=> flash[a] = Blank
                           /\ IsValid(a)' => IsValid(a)
      /\ flash'[t] = flash[t]
      /\ \A j \in Entries : /\ fd'[j].address = fd[j].address
                            /\ fd'[j].sector = fd[j].sector
                            /\ fd'[j].header.id = fd[j].header.id
                            /\ fd[j].header.id # Top.id =>
                                 /\ fd'[j] = fd[j]
                                 /\ flash'[fd[j].address] = flash[fd[j].address]
      /\ \A j \in Entries, a \in FsAddr :
           fd[j].address = a /\ fd[j].header.id = Top.id => ~IsValid(a)'
  <2>1. CASE i < fd_index
    <3>1. /\ fd' = [fd EXCEPT ![i].header = h]
          /\ flash' = [flash EXCEPT ![fd[i].address] = ProgramFlags(@, h)]
      BY <2>1 DEF InvalidateOld
    <3>2. i \in Entries /\ fd[i].header.id = Top.id
      BY <1>1, <2>1, EntryFacts DEF Search, Entries
    <3>3. h \in Header /\ h.size = FS_SIZEINVALID /\ h.id = fd[i].header.id
      BY <3>2, EntryFacts DEF Header, Sizes
    <3> HIDE DEF h
    <3>4. PICK a \in FsAddr : a = fd[i].address
      BY <1>7, <3>2
    <3>5. a \in Addr /\ a # t /\ flash[a] # Blank
      BY <1>7, <3>2, <3>4, FsAddrFacts DEF IsValid, checkBlock, BlankHeader,
         BLOCK_IS_VALID, BLOCK_IS_BLANK
    <3>6. Invalidates(a)
      BY <3>1, <3>3, <3>4, <3>5, InvalidatingWrite
    <3>7. /\ ~IsValid(a)' /\ flash'[a] # Blank /\ flash'[a].data = flash[a].data
          /\ \A b \in Addr : b # a => (IsValid(b)' <=> IsValid(b)) /\ flash'[b] = flash[b]
      BY <3>5, <3>6, InvalidatedCell DEF Invalidates
    <3>8. /\ \A j \in Entries : j # i => fd'[j] = fd[j]
          /\ fd'[i].address = fd[i].address /\ fd'[i].sector = fd[i].sector
          /\ fd'[i].header = h
      BY <3>1, <3>2, EntryFacts DEF TypeOK, FileDescriptor
    <3>9. \A j \in Entries : j # i => fd[j].address # a /\ fd[j].header.id # Top.id
      BY <1>7, <3>2, <3>4, AddressesDiffer DEF KnownInv, RunInv, EntriesDiffer
    <3> QED BY <1>7, <3>2, <3>3, <3>4, <3>5, <3>7, <3>8, <3>9, FsAddrFacts
  <2>2. CASE ~(i < fd_index)
    <3>1. UNCHANGED <<flash, fd>>
      BY <2>2 DEF InvalidateOld
    <3>2. \A j \in Entries : fd[j].header.id # Top.id
      BY <1>1, <2>2, EntryFacts DEF Search, Entries
    <3> QED BY <3>1, <3>2, ValidKept
  <2> QED BY <2>1, <2>2
<1> HIDE DEF h
<1>9. AddressInv'
  BY <1>1, <1>3, <1>5, <1>6, <1>8 DEF RunInv, AddressInv, Written, Running
<1>10. EntriesInv'
  <2>1. \A j \in Entries : Retired(j)' <=> fd[j].header.id = Top.id
    BY <1>3, <1>8 DEF Retired, Running
  <2>2. Written' /\ Target' = Target
    BY <1>3, <1>5, <1>6 DEF Written, Running
  <2>3. ASSUME NEW j \in Entries
        PROVE  /\ fd'[j].address \in FsAddr /\ fd'[j].sector = fd'[j].address[1]
               /\ IF Retired(j)' THEN ~IsValid(fd[j].address)'
                  ELSE /\ IsValid(fd[j].address)'
                       /\ HeaderOf(flash'[fd'[j].address]) = fd'[j].header
    <3>1. PICK a \in FsAddr : a = fd[j].address
      BY <1>7
    <3>2. fd'[j].address = a /\ fd'[j].sector = a[1]
      BY <1>7, <1>8, <3>1
    <3>3. CASE fd[j].header.id = Top.id
      <4>1. ~IsValid(a)'
        BY <1>8, <3>1, <3>3
      <4> QED BY <2>1, <3>2, <3>3, <4>1 DEF IsValid
    <3>4. CASE fd[j].header.id # Top.id
      <4>1. flash'[a] = flash[a] /\ fd'[j] = fd[j]
        BY <1>8, <3>1, <3>4
      <4> QED BY <1>7, <2>1, <3>1, <3>2, <3>4, <4>1 DEF IsValid
    <3> QED BY <3>3, <3>4
  <2> QED BY <1>3, <1>7, <1>8, <2>2, <2>3 DEF RunInv, EntriesInv
<1>11. CallsInv'
  BY <1>1, <1>3, <1>4, <1>6, <1>8, OthersWait
     DEF RunInv, CallsInv, Running, SECTOR_IS_FULL, SECTOR_IS_BLANK, IsValid, Written
<1>12. RelocInv'
  BY <1>1, <1>4, <1>7, <1>8, RelocKept DEF RunInv, SECTOR_IS_FULL
<1>13. RewriteInv'
  BY <1>1, <1>7, <1>8, RewriteGoesOn DEF RunInv, KnownInv
<1> QED BY <1>9, <1>10, <1>11, <1>12, <1>13 DEF RunInv

(* The index takes over the new block.  An fs_write that waits in          *)
(* updateSector goes on; it has a cell, for the sector was blank.          *)
LEMMA RunSettle ==
  ASSUME TypeOK, TypeOK', NestingInv, KnownInv, RunInv, NEW i \in 0 .. FD_MAX, Settle(i)
  PROVE  RunInv'
<1> DEFINE h == [size |-> FS_SIZE32, newer |-> FS_BLOCK_CURRENT, id |-> Top.id]
           e == [address |-> Target, sector |-> currSector, header |-> h]
<1>1. /\ Executing("settle") /\ Return(0) /\ UNCHANGED <<reloc, currSector>>
      /\ i \in FdIndexes /\ Search(i, Top.id)
      /\ fd_index' = IF i = fd_index THEN fd_index + 1 ELSE fd_index
      /\ currAddress' = [currAddress EXCEPT ![currSector] = @ + 1]
      /\ fd' = [fd EXCEPT ![i] = e]
      /\ flash' = [flash EXCEPT ![Target] = ProgramFlags(@, h)]
  BY Geometry DEF Settle, FdIndexes
<1>2. Top.at = "settle" /\ Written /\ Top.id \in Ids /\ h \in Header
  BY <1>1, TopKnown DEF Executing, Written, Running, Header, Sizes, Flags, IdField
<1>3. /\ calls' \in Seq(Call) /\ Len(calls') = Len(calls) - 1
      /\ SameCalls(calls, calls', Len(calls'))
      /\ calls' # <<>> => Len(calls) = 2 /\ Len(calls') = 1 /\ Top'.at = "mark"
      /\ Top.caller = "user" => lc' = lc
      /\ Top.caller # "user" => lc' = "next" /\ Top.caller = "fs_thread"
  BY <1>1, ReturnCalls
<1>4. ~SECTOR_IS_FULL(currSector) /\ lc # "retry"
  BY <1>1, NotRetrying DEF RunInv, CallsInv, Running, Executing, TypeOK
<1>5. PICK t \in FsAddr : /\ t = Target /\ t[1] = currSector
                          /\ t[2] = currAddress[currSector] /\ t \in Addr
  BY <1>4, TargetFacts
<1>6. /\ IsValid(t) /\ flash[t].id = Top.id /\ flash[t].data = Contents(Top)
  BY <1>1, <1>2, <1>5 DEF RunInv, CallsInv
<1>7. /\ h.id = flash[t].id /\ h.size = FS_SIZE32 /\ h.newer = FS_BLOCK_CURRENT
      /\ e.address = t /\ e.sector = t[1] /\ e.header = h /\ e.sector = currSector
  BY <1>5, <1>6
<1> HIDE DEF h, e
<1>8. /\ IsValid(t)' /\ HeaderOf(flash'[t]) = h /\ flash'[t] # Blank
      /\ \A a \in FsAddr : /\ flash'[a].data = flash[a].data
                           /\ a # t => flash'[a] = flash[a]
                           /\ IsValid(a)' <=> IsValid(a)
  <2>1. IsValid(t)' /\ HeaderOf(flash'[t]) = h
    BY <1>1, <1>2, <1>5, <1>6, <1>7, FlagWrite
  <2>2. flash[t] # Blank
    BY <1>6 DEF IsValid, checkBlock, BlankHeader, BLOCK_IS_VALID,
       BLOCK_IS_BLANK
  <2>3. \A a \in Addr : /\ flash'[a].data = flash[a].data
                        /\ flash'[a] = Blank <=> flash[a] = Blank
                        /\ a # t => flash'[a] = flash[a]
    BY <1>1, <1>2, <1>5, <1>6, <1>7, HeaderWrite
  <2> QED BY <1>5, <1>6, <2>1, <2>2, <2>3, FsAddrFacts, ValidKept
<1>9. /\ i \in Entries' /\ fd'[i] = e /\ Entries \subseteq Entries'
      /\ \A j \in Entries' : j # i => j \in Entries /\ fd'[j] = fd[j]
                                                   /\ fd[j].header.id # Top.id
      /\ i \in Entries => fd[i].header.id = Top.id
  <2>1. \A j \in Entries : j # i => fd[j].header.id # Top.id
    BY <1>1, EntryFacts DEF Search, Entries, KnownInv, EntriesDiffer
  <2>2. i \in Entries' /\ Entries \subseteq Entries'
        /\ \A j \in Entries' : j # i => j \in Entries
    BY <1>1, EntryFacts DEF Search, Entries
  <2>3. fd'[i] = e /\ \A j \in FdIndexes : j # i => fd'[j] = fd[j]
    BY <1>1 DEF TypeOK
  <2>4. i \in Entries => fd[i].header.id = Top.id
    BY <1>1, EntryFacts DEF Search, Entries
  <2> QED BY <2>1, <2>2, <2>3, <2>4, EntryFacts
<1>10. \A j \in Entries : j # i =>
         /\ ~Retired(j) /\ fd[j].address \in FsAddr /\ fd[j].sector = fd[j].address[1]
         /\ IsValid(fd[j].address) /\ HeaderOf(flash[fd[j].address]) = fd[j].header
         /\ fd[j].address # t
  BY <1>2, <1>5, <1>9, TargetIsFree DEF RunInv, EntriesInv, Retired
<1>11. ~Written' /\ \A j : ~Retired(j)'
  BY <1>3 DEF Written, Retired, Running
<1>12. AddressInv'
  <2>1. /\ \A s \in Sectors : currAddress[s] \in Nat
        /\ \A s \in Sectors : currAddress'[s] = IF s = currSector THEN currAddress[s] + 1
                                               ELSE currAddress[s]
        /\ currSector \in Sectors /\ currSector' = currSector
    BY <1>1 DEF TypeOK
  <2>2. \A a \in FsAddr : a[1] \in Sectors /\ a[2] \in Nat /\ a = <<a[1], a[2]>>
    BY FsAddrFacts, Geometry DEF Slots
  <2>3. \A a \in FsAddr : a # t => (a[1] # t[1] \/ a[2] # t[2])
    BY <1>5, <2>2
  <2>4. \A s \in Sectors : /\ currAddress'[s] <= FDS_PER_SECTOR
                           /\ s # currSector' => currAddress'[s] \in {0, FDS_PER_SECTOR}
    BY <1>4, <2>1, Geometry DEF RunInv, AddressInv, SECTOR_IS_FULL
  <2>5. ASSUME NEW a \in FsAddr
        PROVE  flash'[a] = Blank <=> a[2] >= currAddress'[a[1]]
    <3>1. CASE a = t
      BY <1>5, <1>8, <2>1, <2>2, <3>1
    <3>2. CASE a # t
      BY <1>5, <1>8, <2>1, <2>2, <2>3, <3>2 DEF RunInv, AddressInv
    <3> QED BY <3>1, <3>2
  <2> QED BY <2>4, <2>5 DEF AddressInv
<1>13. EntriesInv'
  <2>1. ASSUME NEW j \in Entries'
        PROVE  /\ fd'[j].address \in FsAddr /\ fd'[j].sector = fd'[j].address[1]
               /\ IsValid(fd[j].address)'
               /\ HeaderOf(flash'[fd'[j].address]) = fd'[j].header
    <3>1. CASE j = i
      BY <1>7, <1>8, <1>9, <3>1 DEF IsValid
    <3>2. CASE j # i
      <4>1. PICK a \in FsAddr : a = fd[j].address
        BY <1>9, <1>10, <3>2
      <4>2. fd'[j] = fd[j] /\ flash'[a] = flash[a] /\ j \in Entries
        BY <1>8, <1>9, <1>10, <3>2, <4>1
      <4> QED BY <1>10, <3>2, <4>1, <4>2 DEF IsValid
    <3> QED BY <3>1, <3>2
  <2>2. ASSUME NEW a \in FsAddr, IsValid(a)'
        PROVE  \E j \in Entries' : fd'[j].address = a
    <3>1. CASE a = t
      BY <1>7, <1>9, <3>1
    <3>2. CASE a # t
      <4>1. IsValid(a)
        BY <1>8, <2>2
      <4>2. PICK j \in Entries : fd[j].address = a
        BY <1>5, <3>2, <4>1 DEF RunInv, EntriesInv
      <4>3. j # i
        BY <1>1, <1>9, <4>1, <4>2 DEF RunInv, EntriesInv, Retired, Running, Executing
      <4> QED BY <1>9, <4>2, <4>3
    <3> QED BY <3>1, <3>2
  <2> QED BY <1>11, <2>1, <2>2 DEF EntriesInv
<1>14. CallsInv'
  <2>1. ASSUME calls' # <<>>
        PROVE  ~SECTOR_IS_FULL(currSector)'
    <3>1. calls[1].at = "fs_thread" /\ 1 \in 1 .. Len(calls)
      BY <1>3, <2>1 DEF NestingInv
    <3>2. currAddress[currSector] = 0
      BY <3>1 DEF RunInv, CallsInv, SECTOR_IS_BLANK
    <3> QED BY <1>1, <3>2, Geometry DEF SECTOR_IS_FULL, TypeOK
  <2>2. \A c \in 1 .. Len(calls') : calls'[c].at # "fs_thread"
    BY <1>3, CallLength DEF Top
  <2> QED BY <1>3, <1>11, <2>1, <2>2 DEF CallsInv, Running
<1>15. Top.caller = "fs_thread" =>
         /\ lc \in Relocating /\ i = reloc.fd_index /\ Contents(Top) = reloc.buffer
         /\ reloc.fd_index \in Entries
  <2> SUFFICES ASSUME Top.caller = "fs_thread"
               PROVE  /\ lc \in Relocating /\ i = reloc.fd_index
                      /\ Contents(Top) = reloc.buffer /\ reloc.fd_index \in Entries
    OBVIOUS
  <2>1. lc \in Relocating
    BY <1>1, TopKnown DEF Rewriting, Relocating
  <2>2. reloc.fd_index \in Entries /\ fd[reloc.fd_index].header.id = reloc.id
    BY <2>1 DEF RunInv, RelocInv
  <2>3. Top.id = reloc.id
    BY <1>1, CallLength DEF Executing, TypeOK, RunInv, RewriteInv, Top
  <2> QED BY <1>9, <2>1, <2>2, <2>3 DEF Contents
<1>16. /\ \A s \in Sectors : s # currSector /\ SECTOR_IS_FULL(s) =>
                               s # currSector' /\ SECTOR_IS_FULL(s)'
       /\ \A j \in Entries' \ Entries : fd'[j].sector = currSector'
       /\ \A j \in Entries : /\ fd'[j].header.id = fd[j].header.id
                             /\ \/ /\ fd'[j].address = fd[j].address
                                   /\ fd'[j].sector = fd[j].sector
                                \/ fd'[j].sector = currSector'
  <2>1. \A s \in Sectors : s # currSector => currAddress'[s] = currAddress[s]
    BY <1>1 DEF TypeOK
  <2> QED BY <1>1, <1>2, <1>6, <1>7, <1>9, <2>1 DEF SECTOR_IS_FULL
<1>17. RelocInv'
  <2>1. CASE Top.caller = "user"
    BY <1>1, <1>3, <1>4, <1>8, <1>9, <1>16, <2>1, RelocKept DEF RunInv
  <2>2. CASE Top.caller # "user"
    <3>1. reloc.sector \in Sectors /\ lc \in Relocating /\ lc' = "next"
      BY <1>3, <1>15, <2>2 DEF TypeOK, RelocRecord
    <3>2. /\ reloc.sector # currSector' /\ SECTOR_IS_FULL(reloc.sector)'
          /\ reloc.sector # currSector
      BY <1>1, <1>16, <3>1 DEF RunInv, RelocInv, SECTOR_IS_FULL
    <3>3. /\ reloc.fd_index \in Entries' /\ fd'[reloc.fd_index].header.id = reloc.id
          /\ reloc.address \in FsAddr /\ reloc.address[1] = reloc.sector
          /\ \A j \in Entries' : j < reloc.fd_index => fd'[j].sector # reloc.sector
      BY <1>1, <1>9, <1>16, <3>1, <3>2 DEF RunInv, RelocInv
    <3>4. fd'[reloc.fd_index].sector # reloc.sector
      BY <1>3, <1>7, <1>9, <1>15, <2>2, <3>2
    <3> QED BY <1>1, <3>1, <3>2, <3>3, <3>4 DEF RelocInv, Moved, Relocating
  <2> QED BY <2>1, <2>2
<1>18. RewriteInv'
  <2> SUFFICES ASSUME NEW c \in 1 .. Len(calls'), calls'[c].caller = "fs_thread"
               PROVE  /\ calls'[c].id = reloc.id
                      /\ flash'[fd'[reloc.fd_index].address].data = reloc.buffer
                      /\ calls'[c].at \notin {"updateSector", "fs_thread"}
    BY <1>1 DEF RewriteInv
  <2>1. Len(calls) = 2 /\ Len(calls') = 1 /\ Top'.at = "mark" /\ c = 1
    BY <1>3, CallLength
  <2>2. Top.caller = "fs_thread" /\ calls[c].caller = "fs_thread" /\ calls'[c].id = calls[c].id
    BY <1>3, <2>1 DEF NestingInv, Top, SameCalls
  <2>3. flash'[t].data = reloc.buffer /\ fd'[reloc.fd_index].address = t
    BY <1>5, <1>6, <1>7, <1>8, <1>9, <1>15, <2>2
  <2>4. calls'[c].at = "mark"
    BY <2>1 DEF Top
  <2>5. calls[c].id = reloc.id
    BY <2>1, <2>2 DEF RunInv, RewriteInv
  <2> QED BY <2>2, <2>3, <2>4, <2>5
<1> QED BY <1>12, <1>13, <1>14, <1>17, <1>18 DEF RunInv

-----------------------------------------------------------------------------
(* fs_thread. *)

(* It leaves no call behind, unless it has returned to where it waited.    *)
LEMMA NoRewriter ==
  ASSUME TypeOK, NestingInv, KnownInv, ThreadRuns, lc \notin {"copied", "retry"}
  PROVE  \A c \in 1 .. Len(calls) : calls[c].caller # "fs_thread"
<1>1. CASE calls = <<>>
  BY <1>1
<1>2. CASE calls # <<>>
  <2>1. Len(calls) \in Nat \ {0} /\ Len(calls) <= 2
    BY <1>2, CallLength DEF TypeOK, NestingInv, NestingIsBounded
  <2>2. Top.at = "fs_thread" /\ mode = "run"
    BY <1>2 DEF ThreadRuns
  <2>3. Len(calls) = 1
    <3>1. Len(calls) = 2 => calls[2].at # "fs_thread"
      BY DEF NestingInv
    <3>2. Len(calls) = 2 => Top = calls[2]
      BY DEF Top
    <3>3. \A n \in Nat \ {0} : n <= 2 => n \in {1, 2}
      OBVIOUS
    <3> QED BY <2>1, <2>2, <3>1, <3>2, <3>3
  <2>4. Top.caller # "fs_thread"
    BY <1>2, <2>2 DEF KnownInv, CallerWaits, Running
  <2> QED BY <2>3, <2>4 DEF Top
<1> QED BY <1>1, <1>2

(* After a turn of fs_thread the fs_write that gave it the turn goes on,   *)
(* in the sector that it had found blank.                                  *)
LEMMA CallsYield ==
  ASSUME TypeOK, NestingInv, RunInv, ThreadRuns, NEW l \in Continuations, YieldAt(l),
         currSector' = currSector, currAddress'[currSector] = currAddress[currSector]
  PROVE  CallsInv' /\ ~Written /\ ~Written'
<1>1. /\ calls' \in Seq(Call) /\ Len(calls') = Len(calls)
      /\ calls' # <<>> => calls # <<>> /\ Top'.at = "mark"
      /\ Len(calls') \in {0, 1}
  BY YieldCalls, YieldKeeps
<1>2. ~Written /\ ~Written'
  BY <1>1 DEF Written, Running, ThreadRuns
<1>3. ASSUME calls' # <<>>
      PROVE  ~SECTOR_IS_FULL(currSector)'
  <2>1. Len(calls) \in 1 .. Len(calls) /\ calls[Len(calls)].at = "fs_thread"
    BY <1>1, <1>3, CallLength DEF TypeOK, ThreadRuns, Top
  <2>2. currAddress[currSector] = 0
    BY <2>1 DEF RunInv, CallsInv, SECTOR_IS_BLANK
  <2> QED BY <2>2, Geometry DEF SECTOR_IS_FULL
<1>4. \A c \in 1 .. Len(calls') : calls'[c].at # "fs_thread"
  <2> SUFFICES ASSUME NEW c \in 1 .. Len(calls')
               PROVE  calls'[c].at # "fs_thread"
    OBVIOUS
  <2>1. c = Len(calls') /\ calls' # <<>>
    BY <1>1, CallLength
  <2> QED BY <1>1, <2>1 DEF Top
<1>5. CallsInv'
  BY <1>1, <1>2, <1>3, <1>4 DEF CallsInv, Running
<1> QED BY <1>2, <1>5

(* A turn that leaves FLASH and the index alone; it takes up another entry *)
(* only when none of its calls is active.                                  *)
LEMMA RunYield ==
  ASSUME TypeOK, NestingInv, KnownInv, RunInv, ThreadRuns, NEW l \in Continuations,
         YieldAt(l), UNCHANGED <<flash, fd, fd_index, currAddress, currSector>>,
         RelocInv', reloc' = reloc \/ lc \notin {"copied", "retry"}
  PROVE  RunInv'
<1>1. CallsInv' /\ ~Written /\ ~Written'
  BY CallsYield
<1>2. AddressInv' /\ EntriesInv'
  BY <1>1, QuietStep DEF RunInv
<1>3. RewriteInv'
  <2>1. /\ calls' \in Seq(Call) /\ Len(calls') = Len(calls)
        /\ SameCalls(calls, calls', Len(calls))
        /\ calls' # <<>> => calls # <<>> /\ Top'.at = "mark"
        /\ Len(calls') \in {0, 1}
    BY YieldCalls, YieldKeeps
  <2> SUFFICES ASSUME NEW c \in 1 .. Len(calls'), calls'[c].caller = "fs_thread"
               PROVE  /\ calls'[c].id = reloc'.id
                      /\ flash[fd[reloc'.fd_index].address].data = reloc'.buffer
                      /\ calls'[c].at \notin {"updateSector", "fs_thread"}
    BY DEF RewriteInv
  <2>2. c \in 1 .. Len(calls) /\ calls[c].caller = "fs_thread" /\ calls[c].id = calls'[c].id
    BY <2>1 DEF SameCalls
  <2>3. reloc' = reloc
    BY <2>2, NoRewriter
  <2>4. c = Len(calls') /\ calls' # <<>>
    BY <2>1, CallLength
  <2> QED BY <2>1, <2>2, <2>3, <2>4 DEF RunInv, RewriteInv, Top
<1> QED BY <1>1, <1>2, <1>3 DEF RunInv

(* No entry is left in a full sector: it is erased, or about to be. *)
LEMMA RunErase ==
  ASSUME TypeOK, NestingInv, KnownInv, RunInv, ThreadRuns, NEW s \in Sectors, Erase(s),
         UNCHANGED <<fd, fd_index, currSector>>, lc \notin {"copied", "retry"},
         s # currSector, SECTOR_IS_FULL(s), \A j \in Entries : fd[j].sector # s
  PROVE  RunInv'
<1>1. CASE reloc' = [NoReloc EXCEPT !.sector = s] /\ YieldAt("await_erase")
           /\ UNCHANGED <<flash, currAddress>>
  <2>1. reloc'.sector = s /\ lc' = "await_erase" /\ "await_erase" \in Continuations
    BY <1>1 DEF NoReloc, YieldAt, Continuations
  <2>2. RelocInv'
    BY <1>1, <2>1 DEF RelocInv, Relocating, Entries, SECTOR_IS_FULL
  <2> QED BY <1>1, <2>1, <2>2, RunYield
<1>2. CASE /\ flash' = [a \in Addr |-> IF a[1] = s THEN Blank ELSE flash[a]]
           /\ currAddress' = [currAddress EXCEPT ![s] = 0]
           /\ YieldAt("begin")
  <2>1. /\ currAddress' = [currAddress EXCEPT ![s] = 0] /\ currAddress'[s] = 0
        /\ \A r \in Sectors : r # s => currAddress'[r] = currAddress[r]
        /\ currSector \in Sectors /\ lc' = "begin" /\ "begin" \in Continuations
    BY <1>2 DEF TypeOK, YieldAt, Continuations
  <2>2. CallsInv' /\ ~Written /\ ~Written'
    BY <1>2, <2>1, CallsYield
  <2>3. \A a \in FsAddr : /\ a[1] = s => flash'[a] = Blank
                          /\ a[1] # s => flash'[a] = flash[a]
                          /\ a[1] \in Sectors /\ a[2] \in Nat
    BY <1>2, FsAddrFacts, Geometry DEF Slots
  <2>4. AddressInv'
    BY <2>1, <2>2, <2>3, Geometry DEF RunInv, AddressInv
  <2>5. EntriesInv'
    <3>1. (\A i : ~Retired(i)) /\ (\A i : ~Retired(i)') /\ Entries' = Entries
      BY <2>2 DEF Written, Retired, Running, Entries
    <3>2. \A a \in FsAddr : /\ a[1] # s => (IsValid(a)' <=> IsValid(a))
                            /\ a[1] = s => ~IsValid(a)'
      BY <2>3, ValidKept, BlankType, CheckBlockFacts DEF IsValid, Blank
    <3>3. ASSUME NEW j \in Entries
          PROVE  /\ fd'[j].address \in FsAddr /\ fd'[j].sector = fd'[j].address[1]
                 /\ IsValid(fd[j].address)'
                 /\ HeaderOf(flash'[fd'[j].address]) = fd'[j].header
      <4>1. PICK a \in FsAddr : a = fd[j].address /\ a[1] # s
        BY <3>1 DEF RunInv, EntriesInv
      <4> QED BY <2>3, <3>1, <4>1 DEF RunInv, EntriesInv, IsValid
    <3> QED BY <2>2, <3>1, <3>2, <3>3 DEF RunInv, EntriesInv
  <2>6. RelocInv'
    BY <2>1 DEF RelocInv, Relocating
  <2>7. RewriteInv'
    <3>1. /\ Len(calls') = Len(calls) /\ SameCalls(calls, calls', Len(calls))
      BY <1>2, <2>1, YieldCalls
    <3> QED BY <3>1, NoRewriter DEF RewriteInv, SameCalls
  <2> QED BY <2>2, <2>4, <2>5, <2>6, <2>7 DEF RunInv
<1> QED BY <1>1, <1>2 DEF Erase

(* The loop over the entries of the sector, from entry j on. *)
LEMMA RunRelocate ==
  ASSUME TypeOK, NestingInv, KnownInv, RunInv, ThreadRuns, NEW s \in Sectors, NEW j \in Nat,
         RelocateFrom(s, j), UNCHANGED <<fd, fd_index, currSector>>,
         lc \notin {"copied", "retry"}, s # currSector, SECTOR_IS_FULL(s),
         \A k \in Entries : k < j => fd[k].sector # s
  PROVE  RunInv'
<1>1. \A k \in Entries : k \in Nat
  BY DEF Entries
<1>2. ASSUME NEW i \in j .. fd_index - 1, fd[i].sector = s, CopyFd(s, i),
             \A k \in j .. i - 1 : fd[k].sector # s
      PROVE  RunInv'
  <2>1. i \in Entries /\ \A k \in Entries : k < i => fd[k].sector # s
    BY <1>1, <1>2, EntryFacts DEF Entries
  <2>2. /\ reloc'.sector = s /\ reloc'.fd_index = i
        /\ reloc'.address = fd[i].address /\ reloc'.id = fd[i].header.id
        /\ UNCHANGED <<flash, currAddress>>
        /\ \/ YieldAt("copied") /\ reloc'.buffer = flash[fd[i].address].data
           \/ YieldAt("await_read")
    BY <1>2, CopyFdFacts
  <2>3. PICK l \in {"copied", "await_read"} :
          YieldAt(l) /\ (l = "copied" => reloc'.buffer = flash[fd[i].address].data)
    BY <2>2
  <2>4. lc' = l /\ l \in Continuations
    BY <2>3 DEF YieldAt, Continuations
  <2>5. ~Retired(i)
    BY DEF Retired, Running, ThreadRuns
  <2>6. fd[i].address \in FsAddr /\ fd[i].address[1] = s
    BY <1>2, <2>1 DEF RunInv, EntriesInv
  <2>7. RelocInv'
    BY <2>1, <2>2, <2>3, <2>4, <2>6
       DEF RelocInv, Relocating, Entries, SECTOR_IS_FULL, Stays
  <2> QED BY <2>2, <2>3, <2>4, <2>7, RunYield
<1>3. CASE Erase(s) /\ \A k \in j .. fd_index - 1 : fd[k].sector # s
  <2>1. \A k \in Entries : fd[k].sector # s
    BY <1>1, <1>3 DEF Entries
  <2> QED BY <1>3, <2>1, RunErase
<1> QED BY <1>2, <1>3 DEF RelocateFrom

(* fs_write is called for the entry that was copied. *)
LEMMA RunPush ==
  ASSUME TypeOK, RunInv, ThreadRuns, CallFsWrite, lc \in {"copied", "retry"}, Stays,
         UNCHANGED <<flash, fd, fd_index, currAddress, currSector, lc, reloc>>
  PROVE  RunInv'
<1>1. /\ Len(calls') = Len(calls) + 1
      /\ \A c \in 1 .. Len(calls) : calls'[c] = calls[c]
      /\ Top' = [caller |-> "fs_thread", at |-> "updateSector",
                 id |-> reloc.id, data |-> Erased]
  BY PushCalls
<1>2. /\ \A c \in 1 .. Len(calls') : c = Len(calls') \/ c \in 1 .. Len(calls)
      /\ calls'[Len(calls')] = Top' /\ Top'.at = "updateSector" /\ Top'.id = reloc.id
  BY <1>1, CallLength DEF TypeOK, Top
<1>3. ~Written /\ ~Written'
  BY <1>2 DEF Written, Running, ThreadRuns
<1>4. CallsInv'
  BY <1>1, <1>2, <1>3 DEF RunInv, CallsInv, Running, SECTOR_IS_BLANK
<1>5. RewriteInv'
  <2>1. flash[fd[reloc.fd_index].address].data = reloc.buffer
    BY DEF RunInv, RelocInv, Stays
  <2> QED BY <1>1, <1>2, <2>1 DEF RunInv, RewriteInv, Stays
<1> QED BY <1>3, <1>4, <1>5, QuietStep, RelocSame DEF RunInv

-----------------------------------------------------------------------------
(* There is a sector to relocate.  A full sector that is not a candidate   *)
(* has all its cells in the index; were there no candidate, the sectors    *)
(* that are neither active nor blank would hold more blocks than the index *)
(* has entries.                                                            *)
LEMMA FullOfEntries ==
  ASSUME TypeOK, KnownInv, RunInv, ~Written, NEW s \in Sectors,
         FdCount(s) >= FDS_PER_SECTOR, NEW k \in Slots
  PROVE  \E i \in Entries : fd[i].address = <<s, k>>
<1> SUFFICES ASSUME \A i \in Entries : fd[i].address # <<s, k>>
             PROVE  FALSE
  OBVIOUS
<1> DEFINE E == {i \in Entries : fd[i].sector = s}
           f == [i \in E |-> fd[i].address[2]]
<1>1. \A i \in E : /\ fd[i].address[1] = s /\ fd[i].address[2] \in Slots
                   /\ fd[i].address = <<s, fd[i].address[2]>>
                   /\ fd[i].address[2] # k
  BY FsAddrFacts DEF RunInv, EntriesInv
<1>2. f \in [E -> Slots \ {k}]
  BY <1>1
<1>3. IsFiniteSet(Slots) /\ Cardinality(Slots) = FDS_PER_SECTOR
  BY FS_Interval, Geometry DEF Slots
<1>4. /\ IsFiniteSet(Slots \ {k})
      /\ Cardinality(Slots \ {k}) = FDS_PER_SECTOR - 1
  BY <1>3, FS_RemoveElement
<1>5. IsFiniteSet(E) /\ Cardinality(E) = FdCount(s)
  <2>1. IsFiniteSet(Entries)
    BY FS_Interval, EntryFacts DEF Entries
  <2>2. IsFiniteSet(E)
    BY <2>1, FS_Subset
  <2> QED BY <2>2 DEF FdCount, Entries
<1>6. Cardinality(Slots \ {k}) < Cardinality(E)
  BY <1>4, <1>5, FS_CardinalityType, Geometry
<1>7. \A i \in E : i \in Entries /\ f[i] = fd[i].address[2]
  OBVIOUS
<1> HIDE DEF E, f
<1>8. PICK i \in E, j \in E : i # j /\ f[i] = f[j]
  <2>1. \E x, y \in E : x # y /\ f[x] = f[y]
    BY <1>2, <1>4, <1>5, <1>6, FS_PigeonHole
  <2> QED BY <2>1
<1>9. fd[i].address = fd[j].address
  BY <1>1, <1>7, <1>8
<1> QED BY <1>7, <1>8, <1>9, NotRetired, AddressesDiffer DEF RunInv, KnownInv

LEMMA MoreRows ==
  ASSUME NEW x \in Int, NEW y \in Int, NEW z \in Nat \ {0}, x < y
  PROVE  x * z < y * z
<1> DEFINE d == y - x
<1>1. d \in Nat \ {0} /\ y = x + d
  OBVIOUS
<1> HIDE DEF d
<1>2. d * z > 0
  BY <1>1
<1>3. (x + d) * z = x * z + d * z
  BY <1>1
<1> QED BY <1>1, <1>2, <1>3

LEMMA VictimFound ==
  ASSUME TypeOK, KnownInv, RunInv, ~Written, NeedsReloc
  PROVE  Candidates # {}
<1> SUFFICES ASSUME Candidates = {}
             PROVE  FALSE
  OBVIOUS
<1> DEFINE others == Sectors \ {currSector}
           blank == {s \in others : SECTOR_IS_BLANK(s)}
           full == {s \in others : SECTOR_IS_FULL(s)}
<1>1. currSector \in Sectors /\ \A s \in Sectors : currAddress[s] \in Nat
  BY DEF TypeOK
<1>2. IsFiniteSet(others) /\ Cardinality(others) = FS_NUM_SECTORS - 1
  <2>1. IsFiniteSet(Sectors) /\ Cardinality(Sectors) = FS_NUM_SECTORS
    BY FS_Interval, Geometry DEF Sectors
  <2> QED BY <1>1, <2>1, FS_RemoveElement
<1>3. IsFiniteSet(blank) /\ IsFiniteSet(full)
  BY <1>2, FS_Subset
<1>4. blank \cup full = others /\ blank \cap full = {}
  BY <1>1, Geometry DEF RunInv, AddressInv, SECTOR_IS_BLANK, SECTOR_IS_FULL
<1> HIDE DEF others, blank, full
<1>5. Cardinality(full) >= FS_NUM_SECTORS - FS_MIN_BLANKSECTORS
  <2>1. Cardinality(blank) < FS_MIN_BLANKSECTORS
    BY DEF NeedsReloc, blank, others
  <2>2. Cardinality(others) = Cardinality(blank) + Cardinality(full)
    <3>1. Cardinality(others) =
            Cardinality(blank) + Cardinality(full) - Cardinality(blank \cap full)
      BY <1>3, <1>4, FS_Union
    <3>2. Cardinality(blank \cap full) = 0
      BY <1>4, FS_EmptySet
    <3>3. Cardinality(blank) \in Nat /\ Cardinality(full) \in Nat
      BY <1>3, FS_CardinalityType
    <3> QED BY <3>1, <3>2, <3>3
  <2> QED BY <1>2, <1>3, <2>1, <2>2, FS_CardinalityType, Geometry
<1>6. \A p \in full \X Slots : \E i \in Entries : fd[i].address = p
  <2>1. ASSUME NEW s \in full
        PROVE  s \in Sectors /\ FdCount(s) >= FDS_PER_SECTOR
    <3>1. s \in others /\ SECTOR_IS_FULL(s) /\ s \in Sectors
      BY DEF full, others
    <3>2. ~(FdCount(s) < FDS_PER_SECTOR)
      BY <3>1 DEF Candidates, others
    <3>3. FdCount(s) \in Nat
      <4>1. IsFiniteSet(Entries)
        BY FS_Interval, EntryFacts DEF Entries
      <4>2. IsFiniteSet({i \in Entries : fd[i].sector = s})
        BY <4>1, FS_Subset
      <4> QED BY <4>2, FS_CardinalityType DEF FdCount, Entries
    <3> QED BY <3>1, <3>2, <3>3, Geometry
  <2> QED BY <2>1, FullOfEntries
<1> DEFINE f == [p \in full \X Slots |-> CHOOSE i \in Entries : fd[i].address = p]
<1>7. \A p \in full \X Slots : f[p] \in Entries /\ fd[f[p]].address = p
  BY <1>6
<1>8. f \in [full \X Slots -> Entries]
  BY <1>7
<1> HIDE DEF f
<1>9. f \in Injection(full \X Slots, Entries)
  BY <1>7, <1>8 DEF Injection, IsInjective
<1>10. IsFiniteSet(Entries) /\ Cardinality(Entries) = fd_index
  BY FS_Interval, EntryFacts DEF Entries
<1>11. Cardinality(full \X Slots) = Cardinality(full) * FDS_PER_SECTOR
  <2>1. IsFiniteSet(Slots) /\ Cardinality(Slots) = FDS_PER_SECTOR
    BY FS_Interval, Geometry DEF Slots
  <2> QED BY <1>3, <2>1, FS_Product
<1>12. Cardinality(full) * FDS_PER_SECTOR <= FD_MAX
  <2>1. Cardinality(full \X Slots) <= fd_index
    BY <1>9, <1>10, FS_Injection
  <2>2. Cardinality(full) * FDS_PER_SECTOR \in Int
    BY <1>3, FS_CardinalityType, Geometry
  <2> QED BY <1>11, <2>1, <2>2, EntryFacts, Geometry
<1>13. (FS_NUM_SECTORS - FS_MIN_BLANKSECTORS - 1) * FDS_PER_SECTOR
         < Cardinality(full) * FDS_PER_SECTOR
  BY <1>3, <1>5, FS_CardinalityType, MoreRows, Geometry
<1> QED BY <1>3, <1>12, <1>13, ReserveKept, FS_CardinalityType, Geometry

LEMMA RunThread ==
  ASSUME TypeOK, NestingInv, KnownInv, RunInv, fs_thread
  PROVE  RunInv'
<1>1. ThreadRuns /\ UNCHANGED <<fd, fd_index, currSector>>
  BY DEF fs_thread, ThreadBegin, ThreadSelect, ThreadRead, ThreadCopied, ThreadRetry,
     ThreadNext, ThreadErase, ThreadAt, indexVars, currVars
<1>2. CASE ThreadBegin
  <2>1. /\ YieldAt("select") /\ "select" \in Continuations /\ lc' = "select"
        /\ UNCHANGED <<flash, currAddress, reloc>>
    BY <1>2 DEF ThreadBegin, YieldAt, Continuations, currVars
  <2>2. RelocInv'
    BY <2>1 DEF RelocInv, Relocating
  <2> QED BY <1>1, <2>1, <2>2, RunYield
<1>3. CASE ThreadSelect
  <2>1. lc = "select" /\ ~Written
    BY <1>3 DEF ThreadSelect, ThreadAt, ThreadRuns, Written, Running
  <2>2. CASE YieldAt("begin") /\ UNCHANGED <<flash, currAddress, reloc>>
    <3>1. lc' = "begin" /\ "begin" \in Continuations
      BY <2>2 DEF YieldAt, Continuations
    <3>2. RelocInv'
      BY <3>1 DEF RelocInv, Relocating
    <3> QED BY <1>1, <2>2, <3>1, <3>2, RunYield
  <2>3. ASSUME NeedsReloc, NEW s \in Sectors, findRelocSector(s), RelocateFrom(s, 0)
        PROVE  RunInv'
    <3>1. s \in Candidates
      BY <2>1, <2>3, VictimFound DEF findRelocSector
    <3>2. s # currSector /\ SECTOR_IS_FULL(s)
      BY <3>1 DEF Candidates
    <3>3. \A k \in Entries : ~(k < 0)
      BY DEF Entries
    <3> QED BY <1>1, <2>1, <2>3, <3>2, <3>3, RunRelocate
  <2> QED BY <1>3, <2>2, <2>3 DEF ThreadSelect
<1>4. CASE ThreadRead
  <2>1. lc = "await_read" /\ UNCHANGED <<flash, currAddress>>
    BY <1>4 DEF ThreadRead, ThreadAt, currVars
  <2>2. CASE YieldAt("await_read") /\ UNCHANGED reloc
    <3>1. lc' = lc /\ lc' \in Continuations
      BY <2>1, <2>2 DEF YieldAt, Continuations
    <3>2. RelocInv'
      BY <1>1, <2>1, <2>2, <3>1, RelocSame DEF RunInv
    <3> QED BY <1>1, <2>1, <2>2, <3>1, <3>2, RunYield
  <2>3. CASE /\ reloc' = [reloc EXCEPT !.buffer = flash[reloc.address].data]
             /\ YieldAt("copied")
    <3>1. /\ reloc'.sector = reloc.sector /\ reloc'.fd_index = reloc.fd_index
          /\ reloc'.address = reloc.address /\ reloc'.id = reloc.id
          /\ reloc'.buffer = flash[reloc.address].data
      BY <2>3 DEF TypeOK, RelocRecord
    <3>2. lc' = "copied" /\ "copied" \in Continuations
      BY <2>3 DEF YieldAt, Continuations
    <3>3. RelocInv'
      BY <1>1, <2>1, <3>1, <3>2
         DEF RunInv, RelocInv, Relocating, Entries, SECTOR_IS_FULL, Stays, Moved
    <3> QED BY <1>1, <2>1, <2>3, <3>2, <3>3, RunYield
  <2> QED BY <1>4, <2>2, <2>3 DEF ThreadRead
<1>5. CASE ThreadCopied
  <2>1. lc = "copied" /\ UNCHANGED <<flash, currAddress, reloc>>
    BY <1>5 DEF ThreadCopied, ThreadAt, currVars
  <2>2. CASE Stays /\ CallFsWrite /\ UNCHANGED lc
    BY <1>1, <2>1, <2>2, RunPush
  <2>3. CASE ~Stays /\ YieldAt("next")
    <3>1. lc' = "next" /\ "next" \in Continuations
      BY <2>3 DEF YieldAt, Continuations
    <3>2. RelocInv'
      BY <1>1, <2>1, <2>3, <3>1
         DEF RunInv, RelocInv, Relocating, Entries, SECTOR_IS_FULL, Stays, Moved
    <3> QED BY <1>1, <2>1, <2>3, <3>1, <3>2, RunYield
  <2> QED BY <1>5, <2>2, <2>3 DEF ThreadCopied, Stays
<1>6. CASE ThreadRetry
  <2>1. /\ lc = "retry" /\ CallFsWrite /\ UNCHANGED <<flash, currAddress, reloc, lc>>
    BY <1>6 DEF ThreadRetry, ThreadAt, currVars
  <2>2. Stays
    BY <2>1 DEF RunInv, RelocInv
  <2> QED BY <1>1, <2>1, <2>2, RunPush
<1>7. CASE ThreadNext
  <2>1. lc = "next" /\ RelocateFrom(reloc.sector, reloc.fd_index + 1)
    BY <1>7 DEF ThreadNext, ThreadAt
  <2>2. /\ reloc.sector \in Sectors /\ reloc.fd_index \in Nat /\ reloc.fd_index + 1 \in Nat
        /\ \A k \in Entries : k \in Nat
    BY Geometry DEF TypeOK, RelocRecord, Entries
  <2>3. /\ reloc.sector # currSector /\ SECTOR_IS_FULL(reloc.sector)
        /\ \A k \in Entries : k < reloc.fd_index => fd[k].sector # reloc.sector
        /\ fd[reloc.fd_index].sector # reloc.sector
    BY <2>1 DEF RunInv, RelocInv, Relocating, Moved
  <2>4. \A k \in Entries : k < reloc.fd_index + 1 => fd[k].sector # reloc.sector
    BY <2>2, <2>3
  <2> QED BY <1>1, <2>1, <2>2, <2>3, <2>4, RunRelocate
<1>8. CASE ThreadErase
  <2>1. lc = "await_erase" /\ Erase(reloc.sector) /\ reloc.sector \in Sectors
    BY <1>8 DEF ThreadErase, ThreadAt, TypeOK, RelocRecord
  <2>2. /\ reloc.sector # currSector /\ SECTOR_IS_FULL(reloc.sector)
        /\ \A k \in Entries : fd[k].sector # reloc.sector
    BY <2>1 DEF RunInv, RelocInv
  <2> QED BY <1>1, <2>1, <2>2, RunErase
<1> QED BY <1>2, <1>3, <1>4, <1>5, <1>6, <1>7, <1>8 DEF fs_thread

-----------------------------------------------------------------------------
(* The index has an entry for every variable, so that fs_write never gives *)
(* up with its block written.                                              *)
LEMMA RunWrite ==
  ASSUME EnoughEntries, TypeOK, TypeOK', NestingInv, KnownInv, RunInv, fs_write
  PROVE  RunInv'
<1>1. ~NoFdLeft
  BY TopKnown, IndexSuffices DEF NoFdLeft
<1> QED BY <1>1, RunStay, RunChange, RunNoSector, RunProgram, RunMark, RunInvalidate,
        RunSettle DEF fs_write, updateSector

-----------------------------------------------------------------------------
(* A reset, and fs_init.  FLASH stays in order when blocks are invalidated. *)
LEMMA FlashKept ==
  ASSUME FlashInv,
         \A a \in FsAddr : flash'[a] = Blank <=> flash[a] = Blank,
         \A a \in FsAddr : IsValid(a)' => IsValid(a) /\ flash'[a] = flash[a]
  PROVE  FlashInv'
<1>1. \A s \in Sectors, k \in Slots : flash'[<<s, k>>] = Blank <=> flash[<<s, k>>] = Blank
  BY FsAddrFacts
<1>2. 0 \in Slots /\ LastSlot \in Slots
  BY Geometry DEF Slots, LastSlot
<1>3. FilledInOrder' /\ OnePartial'
  BY <1>1, <1>2 DEF FlashInv, FilledInOrder, OnePartial, IsPartial
<1>4. CopiesAreRanked'
  <2>1. \A id : \A a \in Copies(id)' : a \in Copies(id) /\ flash'[a] = flash[a]
    BY DEF Copies
  <2> QED BY <2>1 DEF FlashInv, CopiesAreRanked
<1> QED BY <1>3, <1>4 DEF FlashInv

(* So it does when the write of a block is interrupted: what is left is    *)
(* the next cell of the active sector.                                     *)
LEMMA TornFlash ==
  ASSUME TypeOK, KnownInv, RunInv, ~Written, ~SECTOR_IS_FULL(currSector),
         NEW t \in FsAddr, t = Target, ~IsValid(t)',
         \A a \in FsAddr : a # t => flash'[a] = flash[a]
  PROVE  FlashInv'
<1>1. /\ \A s \in Sectors : currAddress[s] \in Nat
      /\ \A k \in Slots : k \in Nat /\ k < FDS_PER_SECTOR
      /\ LastSlot \in Slots /\ 0 \in Slots
  BY Geometry DEF TypeOK, Slots, LastSlot
<1>2. t = <<currSector, currAddress[currSector]>> /\ flash[t] = Blank
  BY TargetFacts, TargetIsBlank DEF RunInv
<1>3. \A s \in Sectors, k \in Slots :
        /\ flash[<<s, k>>] = Blank <=> k >= currAddress[s]
        /\ <<s, k>> # t => flash'[<<s, k>>] = flash[<<s, k>>]
  BY FsAddrFacts DEF RunInv, AddressInv
<1>4. FilledInOrder'
  <2> SUFFICES ASSUME NEW s \in Sectors, NEW j \in Slots, NEW k \in Slots, j < k,
                      flash'[<<s, k>>] # Blank
               PROVE  flash'[<<s, j>>] # Blank
    BY DEF FilledInOrder
  <2>1. j < currAddress[s]
    BY <1>1, <1>2, <1>3
  <2> QED BY <1>1, <1>2, <1>3, <2>1
<1>5. OnePartial'
  <2> SUFFICES ASSUME NEW s \in Sectors, IsPartial(s)', s # currSector
               PROVE  FALSE
    BY DEF OnePartial
  <2>1. currAddress[s] \in {0, FDS_PER_SECTOR}
    BY DEF RunInv, AddressInv
  <2>2. \A k \in Slots : <<s, k>> # t
    BY <1>2
  <2> QED BY <1>1, <1>3, <2>1, <2>2, Geometry DEF IsPartial
<1>6. CopiesAreRanked'
  <2>1. \A id : \A a \in Copies(id)' : a \in Copies(id) /\ flash'[a] = flash[a]
    BY ValidKept DEF Copies
  <2>2. CopiesAreRanked
    BY RunFlash DEF RunInv, KnownInv, FlashInv
  <2> QED BY <2>1, <2>2 DEF CopiesAreRanked
<1> QED BY <1>4, <1>5, <1>6 DEF FlashInv

LEMMA ScanStarts ==
  ASSUME ClearRam
  PROVE  ScanInv'
<1>1. scan'.sector = 0 /\ scan'.slot = 0 /\ ~scan'.assigned
  BY DEF ClearRam, NoScan
<1>2. \A a \in FsAddr : ~IsScanned(a)'
  BY <1>1, FsAddrFacts, Geometry DEF IsScanned, Sectors, Slots
<1>3. \A s \in Sectors : ~(s < 0)
  BY Geometry DEF Sectors
<1>4. \A k \in Slots : ~(k < 0)
  BY Geometry DEF Slots
<1> QED BY <1>1, <1>2, <1>3, <1>4 DEF ScanInv

LEMMA BootLoss ==
  ASSUME TypeOK, KnownInv, WhileBooting, WhileRunning, PowerLoss \/ PowerLossInProgram
  PROVE  WhileBooting' /\ WhileRunning'
<1>1. ClearRam /\ mode' = "boot" /\ ScanInv'
  BY ScanStarts DEF PowerLoss, PowerLossInProgram, ClearRam
<1>2. CASE PowerLoss
  <2>1. FlashInv
    BY RunFlash DEF WhileBooting, WhileRunning, RunInv, KnownInv, TypeOK
  <2>2. flash' = flash
    BY <1>2 DEF PowerLoss
  <2>3. FlashInv'
    BY <2>1, <2>2, FlashKept, ValidKept
  <2> QED BY <1>1, <2>3 DEF WhileBooting, WhileRunning
<1>3. CASE PowerLossInProgram
  <2>1. /\ Executing("program")
        /\ \E c \in TornWrites(flash[Target]) : flash' = [flash EXCEPT ![Target] = c]
    BY <1>3 DEF PowerLossInProgram
  <2>2. mode = "run" /\ RunInv /\ ~Written /\ ~SECTOR_IS_FULL(currSector)
    BY <2>1 DEF Executing, WhileRunning, RunInv, CallsInv, Written, Running
  <2>3. PICK t \in FsAddr : t = Target /\ t \in Addr
    BY <2>2, TargetFacts
  <2>4. PICK c \in TornWrites(flash[t]) : flash' = [flash EXCEPT ![t] = c]
    BY <2>1, <2>3
  <2>5. c \in Cell /\ ~c.hash
    BY <2>3, <2>4, TornType, TornKnown DEF TypeOK, KnownInv, CellsAreKnown
  <2>6. flash'[t] = c /\ \A a \in FsAddr : a # t => flash'[a] = flash[a]
    BY <2>3, <2>4, FsAddrFacts DEF TypeOK
  <2>7. ~IsValid(t)'
    BY <2>5, <2>6, CheckBlockFacts DEF IsValid
  <2>8. FlashInv'
    BY <2>2, <2>3, <2>6, <2>7, TornFlash
  <2> QED BY <1>1, <2>8 DEF WhileBooting, WhileRunning
<1> QED BY <1>2, <1>3

(* fs_init goes on with the next cell after one that is not blank. *)
LEMMA ScanNext ==
  ASSUME TypeOK, ScanInv, Scanning, NextCell, UNCHANGED currSector,
         flash[ScanAddr] # Blank,
         \A a \in FsAddr : flash'[a] = Blank <=> flash[a] = Blank,
         \A a \in FsAddr : (IsScanned(a) \/ a = ScanAddr) /\ IsValid(a)' =>
                              \E j \in Entries' : fd'[j].address = a
  PROVE  ScanInv'
<1>1. /\ scan.sector \in Sectors /\ scan.slot \in Slots
      /\ scan.sector \in Nat /\ scan.sector < FS_NUM_SECTORS
      /\ scan.slot \in Nat /\ scan.slot < FDS_PER_SECTOR
      /\ \A s \in Sectors : s \in Nat
      /\ \A k \in Slots : k \in Nat /\ k < FDS_PER_SECTOR
      /\ \A s \in Sectors : currAddress[s] \in Nat
      /\ currSector \in Sectors /\ LastSlot = FDS_PER_SECTOR - 1
  BY ScanFacts, Geometry DEF Sectors, Slots, TypeOK, LastSlot
<1>2. \A s \in Sectors, k \in Slots : flash'[<<s, k>>] = Blank <=> flash[<<s, k>>] = Blank
  BY FsAddrFacts
<1>3. \A s \in Sectors : s # scan.sector => currAddress'[s] = currAddress[s]
  BY <1>1 DEF NextCell, TypeOK
<1>4. \A k \in Slots : k <= scan.slot => flash[<<scan.sector, k>>] # Blank
  <2>1. flash[<<scan.sector, scan.slot>>] # Blank
    BY DEF ScanAddr
  <2>2. \A k \in Slots : k < scan.slot => flash[<<scan.sector, k>>] # Blank
    BY <1>1 DEF ScanInv
  <2> QED BY <1>1, <2>1, <2>2
<1>5. scan.assigned => /\ currSector < scan.sector
                       /\ currAddress[currSector] \in 1 .. LastSlot
  BY DEF ScanInv
<1>6. \A s \in Sectors : s < scan.sector =>
        /\ currAddress[s] <= FDS_PER_SECTOR
        /\ \A k \in Slots : flash[<<s, k>>] = Blank <=> k >= currAddress[s]
        /\ ~(scan.assigned /\ s = currSector) => currAddress[s] \in {0, FDS_PER_SECTOR}
  BY DEF ScanInv
<1>7. \A a \in FsAddr : /\ a[1] \in Nat /\ a[2] \in Nat /\ a[2] < FDS_PER_SECTOR
                        /\ a = <<a[1], a[2]>>
  BY <1>1, FsAddrFacts
<1>8. CASE scan.slot + 1 < FDS_PER_SECTOR
  <2>1. scan'.sector = scan.sector /\ scan'.slot = scan.slot + 1
        /\ scan'.assigned = scan.assigned
    BY <1>8 DEF NextCell, TypeOK, ScanRecord
  <2>2. \A a \in FsAddr : IsScanned(a)' => IsScanned(a) \/ a = ScanAddr
    BY <1>1, <1>7, <2>1 DEF IsScanned, ScanAddr
  <2>3. /\ \A s \in Sectors : s < scan.sector => s # scan.sector
        /\ scan.assigned => currSector # scan.sector
    BY <1>1, <1>5
  <2>4. \A s \in Sectors : s < scan'.sector =>
          /\ currAddress'[s] <= FDS_PER_SECTOR
          /\ \A k \in Slots : flash'[<<s, k>>] = Blank <=> k >= currAddress'[s]
          /\ ~(scan'.assigned /\ s = currSector') =>
                currAddress'[s] \in {0, FDS_PER_SECTOR}
    BY <1>2, <1>3, <1>6, <2>1, <2>3
  <2>5. \A k \in Slots : k < scan'.slot => flash'[<<scan'.sector, k>>] # Blank
    BY <1>1, <1>2, <1>4, <2>1
  <2> QED BY <1>1, <1>3, <1>5, <2>1, <2>2, <2>3, <2>4, <2>5 DEF ScanInv
<1>9. CASE ~(scan.slot + 1 < FDS_PER_SECTOR)
  <2>1. /\ scan'.sector = scan.sector + 1 /\ scan'.slot = 0
        /\ scan'.assigned = scan.assigned
        /\ currAddress'[scan.sector] = scan.slot + 1 /\ scan.slot + 1 = FDS_PER_SECTOR
    <3>1. NextSector /\ currAddress' = [currAddress EXCEPT ![scan.sector] = scan.slot + 1]
      BY <1>9 DEF NextCell
    <3>2. /\ scan'.sector = scan.sector + 1 /\ scan'.slot = 0
          /\ scan'.assigned = scan.assigned
      BY <3>1 DEF NextSector, TypeOK, ScanRecord
    <3>3. currAddress'[scan.sector] = scan.slot + 1
      BY <1>1, <3>1 DEF TypeOK
    <3>4. scan.slot + 1 = FDS_PER_SECTOR
      BY <1>1, <1>9, Geometry
    <3> QED BY <3>2, <3>3, <3>4
  <2>2. \A a \in FsAddr : IsScanned(a)' => IsScanned(a) \/ a = ScanAddr
    BY <1>1, <1>7, <2>1, Geometry DEF IsScanned, ScanAddr
  <2>3. /\ \A s \in Sectors : s < scan.sector => s # scan.sector
        /\ scan.assigned => currSector # scan.sector
    BY <1>1, <1>5
  <2>4. \A s \in Sectors : s < scan'.sector =>
          /\ currAddress'[s] <= FDS_PER_SECTOR
          /\ \A k \in Slots : flash'[<<s, k>>] = Blank <=> k >= currAddress'[s]
          /\ ~(scan'.assigned /\ s = currSector') =>
                currAddress'[s] \in {0, FDS_PER_SECTOR}
    <3> SUFFICES ASSUME NEW s \in Sectors, s < scan'.sector
                 PROVE  /\ currAddress'[s] <= FDS_PER_SECTOR
                        /\ \A k \in Slots : flash'[<<s, k>>] = Blank <=> k >= currAddress'[s]
                        /\ ~(scan'.assigned /\ s = currSector') =>
                              currAddress'[s] \in {0, FDS_PER_SECTOR}
      OBVIOUS
    <3>1. CASE s = scan.sector
      BY <1>1, <1>2, <1>4, <2>1, <3>1, Geometry
    <3>2. CASE s # scan.sector
      <4>1. s < scan.sector
        BY <1>1, <2>1, <3>2
      <4> QED BY <1>2, <1>3, <1>6, <2>1, <3>2, <4>1
    <3> QED BY <3>1, <3>2
  <2>5. \A k \in Slots : ~(k < scan'.slot)
    BY <1>1, <2>1
  <2>6. scan'.assigned => /\ currSector' < scan'.sector
                          /\ currAddress'[currSector'] \in 1 .. LastSlot
    BY <1>1, <1>3, <1>5, <2>1, <2>3
  <2> QED BY <2>2, <2>4, <2>5, <2>6 DEF ScanInv
<1> QED BY <1>8, <1>9

(* The first blank cell ends the sector.  If others precede it, no sector  *)
(* was assigned before, since only one is partly written.                  *)
LEMMA ScanBlank ==
  ASSUME TearsShow, TypeOK, KnownInv, FlashInv, ScanInv, BootBlank
  PROVE  ScanInv'
<1>1. /\ Scanning /\ checkBlock(Scanned) = BLOCK_IS_BLANK /\ UNCHANGED <<flash, fd, fd_index>>
      /\ currAddress' = [currAddress EXCEPT ![scan.sector] = scan.slot]
  BY DEF BootBlank, indexVars
<1>2. /\ scan.sector \in Sectors /\ scan.slot \in Slots
      /\ scan.sector \in Nat /\ scan.sector < FS_NUM_SECTORS
      /\ scan.slot \in Nat /\ scan.slot < FDS_PER_SECTOR
      /\ \A s \in Sectors : s \in Nat
      /\ \A k \in Slots : k \in Nat /\ k < FDS_PER_SECTOR
      /\ \A s \in Sectors : currAddress[s] \in Nat
      /\ currSector \in Sectors /\ LastSlot = FDS_PER_SECTOR - 1
      /\ 0 \in Slots /\ LastSlot \in Slots /\ ScanAddr \in Addr
  BY <1>1, ScanFacts, Geometry DEF Sectors, Slots, TypeOK, LastSlot
<1>3. flash[<<scan.sector, scan.slot>>] = Blank
  <2>1. flash[ScanAddr] = Blank
    BY <1>1, <1>2, CellFacts DEF Scanned
  <2> QED BY <2>1 DEF ScanAddr
<1>4. \A k \in Slots : flash[<<scan.sector, k>>] = Blank <=> k >= scan.slot
  <2>1. \A k \in Slots : k < scan.slot => flash[<<scan.sector, k>>] # Blank
    BY <1>2 DEF ScanInv
  <2>2. \A k \in Slots : scan.slot < k => flash[<<scan.sector, k>>] = Blank
    BY <1>2, <1>3 DEF FlashInv, FilledInOrder
  <2> QED BY <1>2, <1>3, <2>1, <2>2
<1>5. /\ \A s \in Sectors : s # scan.sector => currAddress'[s] = currAddress[s]
      /\ currAddress'[scan.sector] = scan.slot
  BY <1>1, <1>2 DEF TypeOK
<1>6. \A s \in Sectors : s < scan.sector =>
        /\ s # scan.sector /\ currAddress[s] <= FDS_PER_SECTOR
        /\ \A k \in Slots : flash[<<s, k>>] = Blank <=> k >= currAddress[s]
        /\ ~(scan.assigned /\ s = currSector) => currAddress[s] \in {0, FDS_PER_SECTOR}
  BY <1>2 DEF ScanInv
<1>7. scan.assigned => /\ currSector < scan.sector
                       /\ currAddress[currSector] \in 1 .. LastSlot
  BY DEF ScanInv
<1>8. scan.slot # 0 => ~scan.assigned
  <2> SUFFICES ASSUME scan.slot # 0, scan.assigned
               PROVE  FALSE
    OBVIOUS
  <2>1. IsPartial(scan.sector)
    <3>1. ~(0 >= scan.slot) /\ LastSlot >= scan.slot
      BY <1>2, Geometry
    <3> QED BY <1>2, <1>4, <3>1 DEF IsPartial
  <2>2. IsPartial(currSector) /\ currSector # scan.sector
    BY <1>2, <1>6, <1>7 DEF IsPartial
  <2> QED BY <1>2, <2>1, <2>2 DEF FlashInv, OnePartial
<1>9. /\ scan'.sector = scan.sector + 1 /\ scan'.slot = 0
      /\ scan.slot = 0 => scan'.assigned = scan.assigned /\ currSector' = currSector
      /\ scan.slot # 0 => scan'.assigned /\ currSector' = scan.sector
  BY BlankAdvances DEF BootBlank, TypeOK, ScanRecord
<1>10. \A s \in Sectors : s < scan'.sector =>
         /\ currAddress'[s] <= FDS_PER_SECTOR
         /\ \A k \in Slots : flash'[<<s, k>>] = Blank <=> k >= currAddress'[s]
         /\ ~(scan'.assigned /\ s = currSector') =>
               currAddress'[s] \in {0, FDS_PER_SECTOR}
  <2> SUFFICES ASSUME NEW s \in Sectors, s < scan'.sector
               PROVE  /\ currAddress'[s] <= FDS_PER_SECTOR
                      /\ \A k \in Slots : flash'[<<s, k>>] = Blank <=> k >= currAddress'[s]
                      /\ ~(scan'.assigned /\ s = currSector') =>
                            currAddress'[s] \in {0, FDS_PER_SECTOR}
    OBVIOUS
  <2>1. CASE s = scan.sector
    <3>1. ~(scan'.assigned /\ s = currSector') => scan.slot = 0
      BY <1>9, <2>1
    <3>2. currAddress'[s] = scan.slot
      BY <1>5, <2>1
    <3>3. \A k \in Slots : flash'[<<s, k>>] = Blank <=> k >= currAddress'[s]
      BY <1>1, <1>4, <2>1, <3>2
    <3>4. currAddress'[s] <= FDS_PER_SECTOR
      BY <1>2, <3>2, Geometry
    <3> QED BY <3>1, <3>2, <3>3, <3>4
  <2>2. CASE s # scan.sector
    <3>1. s < scan.sector
      BY <1>2, <1>9, <2>2
    <3> QED BY <1>1, <1>5, <1>6, <1>8, <1>9, <2>2, <3>1
  <2> QED BY <2>1, <2>2
<1>11. \A k \in Slots : ~(k < scan'.slot)
  BY <1>2, <1>9
<1>12. scan'.assigned => /\ currSector' < scan'.sector
                         /\ currAddress'[currSector'] \in 1 .. LastSlot
  <2>1. CASE scan.slot = 0
    <3>1. scan.assigned => currSector # scan.sector
      BY <1>2, <1>7
    <3>2. scan.assigned => currSector < scan.sector + 1
      BY <1>2, <1>7, Geometry DEF Sectors
    <3> QED BY <1>2, <1>5, <1>7, <1>9, <2>1, <3>1, <3>2
  <2>2. CASE scan.slot # 0
    <3>1. scan.slot \in 1 .. LastSlot
      BY <1>2, <2>2, Geometry
    <3> QED BY <1>2, <1>5, <1>9, <2>2, <3>1
  <2> QED BY <2>1, <2>2
<1>13. ASSUME NEW a \in FsAddr, IsScanned(a)', IsValid(a)'
       PROVE  \E i \in Entries' : fd'[i].address = a
  <2>1. a[1] \in Nat /\ a[2] \in Slots /\ a = <<a[1], a[2]>> /\ a \in Addr
    BY <1>2, FsAddrFacts
  <2>2. IsValid(a) /\ flash[a] # Blank
    BY <1>1, <1>13, <2>1, ValidKept, CellFacts
  <2>3. IsScanned(a)
    BY <1>2, <1>4, <1>9, <1>13, <2>1, <2>2 DEF IsScanned
  <2> QED BY <1>1, <2>2, <2>3 DEF ScanInv, Entries
<1> QED BY <1>10, <1>11, <1>12, <1>13 DEF ScanInv

LEMMA ScanSkip ==
  ASSUME TearsShow, TypeOK, KnownInv, FlashInv, ScanInv, BootSkip
  PROVE  FlashInv' /\ ScanInv'
<1>1. /\ Scanning /\ NextCell /\ UNCHANGED <<flash, fd, fd_index, currSector>>
      /\ checkBlock(Scanned) \notin {BLOCK_IS_VALID, BLOCK_IS_BLANK}
      /\ ScanAddr \in Addr
  BY ScanFacts DEF BootSkip, indexVars, BLOCK_IS_VALID, BLOCK_IS_BLANK,
     BLOCK_IS_INVALID, BLOCK_IS_ILLEGALSIZE, BLOCK_IS_ERRORED
<1>2. flash[ScanAddr] # Blank /\ ~IsValid(ScanAddr)
  BY <1>1, CellFacts DEF Scanned, IsValid
<1>3. FlashInv'
  BY <1>1, FlashKept, ValidKept
<1>4. \A a \in FsAddr : (IsScanned(a) \/ a = ScanAddr) /\ IsValid(a)' =>
                           \E j \in Entries' : fd'[j].address = a
  BY <1>1, <1>2, ValidKept DEF ScanInv, Entries
<1>5. ScanInv'
  BY <1>1, <1>2, <1>4, ScanNext
<1> QED BY <1>3, <1>5

LEMMA ScanIndex ==
  ASSUME TearsShow, TypeOK, KnownInv, FlashInv, ScanInv, BootIndex
  PROVE  FlashInv' /\ ScanInv'
<1> DEFINE e == [address |-> ScanAddr, sector |-> scan.sector,
                 header |-> HeaderOf(Scanned)]
<1>1. /\ Scanning /\ NextCell /\ UNCHANGED <<flash, currSector>>
      /\ IsValid(ScanAddr) /\ ScanAddr \in Addr /\ fd_index < FD_MAX
      /\ fd' = [fd EXCEPT ![fd_index] = e] /\ fd_index' = fd_index + 1
  BY ScanFacts DEF BootIndex, IsValid, Scanned
<1>2. flash[ScanAddr] # Blank /\ e.address = ScanAddr
  BY <1>1, CellFacts
<1> HIDE DEF e
<1>3. FlashInv'
  BY <1>1, FlashKept, ValidKept
<1>4. /\ \A j \in Entries : fd'[j] = fd[j]
      /\ fd'[fd_index] = e /\ Entries' = Entries \cup {fd_index}
  BY <1>1, EntryFacts, Geometry DEF Entries, FdIndexes, TypeOK
<1>5. \A a \in FsAddr : (IsScanned(a) \/ a = ScanAddr) /\ IsValid(a)' =>
                           \E j \in Entries' : fd'[j].address = a
  BY <1>1, <1>2, <1>4, ValidKept DEF ScanInv
<1>6. ScanInv'
  BY <1>1, <1>2, <1>5, ScanNext
<1> QED BY <1>3, <1>6

LEMMA ScanDuplicate ==
  ASSUME TearsShow, TypeOK, TypeOK', KnownInv, EntriesAreScanned, FlashInv, ScanInv,
         NEW i \in FdIndexes, BootDuplicate(i)
  PROVE  FlashInv' /\ ScanInv'
<1>1. /\ Scanning /\ NextCell /\ UNCHANGED currSector /\ mode = "boot"
      /\ ScanAddr \in Addr
  BY ScanFacts DEF BootDuplicate, Scanning
<1>2. /\ i \in Entries /\ ScanAddr \in FsAddr /\ IsValid(ScanAddr)
      /\ fd_index' = fd_index
      /\ \A j \in Entries : j # i => fd'[j] = fd[j]
      /\ \/ /\ Invalidates(fd[i].address)
            /\ fd'[i] = [address |-> ScanAddr, sector |-> scan.sector,
                         header |-> HeaderOf(Scanned)]
         \/ Invalidates(ScanAddr) /\ fd'[i] = fd[i]
  BY DuplicateFacts
<1>3. PICK a \in FsAddr : /\ Invalidates(a) /\ IsValid(a)
                          /\ a \in {ScanAddr, fd[i].address}
                          /\ a # ScanAddr => fd'[i].address = ScanAddr
                          /\ fd[i].address # a => fd'[i].address = fd[i].address
                          /\ fd'[i].address \in {ScanAddr, fd[i].address}
  <2>1. fd[i].address \in FsAddr /\ IsValid(fd[i].address)
    BY <1>1, <1>2 DEF EntriesAreScanned
  <2>2. CASE /\ Invalidates(fd[i].address)
             /\ fd'[i] = [address |-> ScanAddr, sector |-> scan.sector,
                          header |-> HeaderOf(Scanned)]
    <3>1. fd'[i].address = ScanAddr
      BY <2>2
    <3> QED BY <2>1, <2>2, <3>1
  <2>3. CASE Invalidates(ScanAddr) /\ fd'[i] = fd[i]
    BY <1>2, <2>3, DuplicateFacts
  <2> QED BY <1>2, <2>2, <2>3
<1>4. /\ ~IsValid(a)' /\ flash'[a] # Blank /\ flash[a] # Blank
      /\ \A b \in FsAddr : b # a => (IsValid(b)' <=> IsValid(b)) /\ flash'[b] = flash[b]
  BY <1>3, FsAddrFacts, InvalidatedCell, CellFacts
<1>5. FlashInv'
  BY <1>4, FlashKept
<1>6. flash[ScanAddr] # Blank
  BY <1>1, <1>2, CellFacts
<1>7. ASSUME NEW b \in FsAddr, IsScanned(b) \/ b = ScanAddr, IsValid(b)'
      PROVE  \E j \in Entries' : fd'[j].address = b
  <2>1. b # a /\ IsValid(b)
    BY <1>4, <1>7
  <2>2. Entries' = Entries
    BY <1>2 DEF Entries
  <2>3. CASE b = ScanAddr
    BY <1>2, <1>3, <2>1, <2>2, <2>3
  <2>4. CASE IsScanned(b)
    <3>1. PICK j \in Entries : fd[j].address = b
      BY <2>1, <2>4 DEF ScanInv
    <3>2. CASE j # i
      BY <1>2, <2>2, <3>1, <3>2
    <3>3. CASE j = i
      BY <1>2, <1>3, <2>1, <2>2, <3>1, <3>3
    <3> QED BY <3>2, <3>3
  <2> QED BY <1>7, <2>3, <2>4
<1>8. ScanInv'
  BY <1>1, <1>4, <1>6, <1>7, ScanNext
<1> QED BY <1>5, <1>8

(* When all sectors are accounted for, what the application needs is there. *)
LEMMA RunBegins ==
  ASSUME TypeOK, NestingInv, KnownInv, EntriesAreScanned, ScanInv, BootDone
  PROVE  RunInv'
<1>1. /\ mode = "boot" /\ scan.sector = FS_NUM_SECTORS /\ calls' = calls /\ calls = <<>>
      /\ lc' = "begin" /\ UNCHANGED <<flash, fd, fd_index, currAddress>>
      /\ currSector' = IF scan.assigned THEN currSector ELSE scan.blankSector
  BY DEF BootDone, indexVars, NestingInv
<1>2. ~Written' /\ (\A i : ~Retired(i)') /\ Entries' = Entries
  BY <1>1 DEF Written, Retired, Running, Entries
<1>3. /\ \A s \in Sectors : s < scan.sector
      /\ \A a \in FsAddr : a[1] \in Sectors /\ a[2] \in Slots /\ a = <<a[1], a[2]>>
  BY <1>1, FsAddrFacts, Geometry DEF Sectors
<1>4. AddressInv'
  <2>1. \A s \in Sectors : /\ currAddress[s] <= FDS_PER_SECTOR
                           /\ s # currSector' => currAddress[s] \in {0, FDS_PER_SECTOR}
    BY <1>1, <1>3 DEF ScanInv
  <2>2. \A s \in Sectors, k \in Slots : flash[<<s, k>>] = Blank <=> k >= currAddress[s]
    BY <1>3 DEF ScanInv
  <2>3. \A a \in FsAddr : flash[a] = Blank <=> a[2] >= currAddress[a[1]]
    <3> SUFFICES ASSUME NEW a \in FsAddr
                 PROVE  flash[a] = Blank <=> a[2] >= currAddress[a[1]]
      OBVIOUS
    <3>1. flash[<<a[1], a[2]>>] = Blank <=> a[2] >= currAddress[a[1]]
      BY <1>3, <2>2
    <3> QED BY <1>3, <3>1
  <2> QED BY <1>1, <2>1, <2>3 DEF AddressInv
<1>5. EntriesInv'
  <2>1. \A a \in FsAddr : IsScanned(a)
    BY <1>3 DEF IsScanned
  <2>2. \A a \in FsAddr : IsValid(a)' <=> IsValid(a)
    BY <1>1, ValidKept
  <2>3. ASSUME NEW j \in Entries
        PROVE  /\ fd'[j].address \in FsAddr /\ fd'[j].sector = fd'[j].address[1]
               /\ IsValid(fd[j].address)'
               /\ HeaderOf(flash'[fd'[j].address]) = fd'[j].header
    <3>1. PICK a \in FsAddr : a = fd[j].address
      BY <1>1 DEF EntriesAreScanned
    <3> QED BY <1>1, <3>1 DEF EntriesAreScanned, IsValid
  <2>4. \A a \in FsAddr : IsValid(a) => \E j \in Entries : fd[j].address = a
    BY <2>1 DEF ScanInv
  <2> QED BY <1>1, <1>2, <2>2, <2>3, <2>4 DEF EntriesInv
<1>6. CallsInv' /\ RewriteInv'
  <2>1. \A c \in 1 .. Len(calls') : FALSE
    BY <1>1
  <2> QED BY <1>1, <1>2, <2>1 DEF CallsInv, RewriteInv, Running
<1>7. RelocInv'
  BY <1>1 DEF RelocInv, Relocating
<1> QED BY <1>4, <1>5, <1>6, <1>7 DEF RunInv

LEMMA BootStep ==
  ASSUME EnoughEntries, TearsShow, TypeOK, TypeOK', NestingInv, KnownInv,
         EntriesAreScanned, WhileBooting, Boot
  PROVE  WhileBooting' /\ WhileRunning'
<1>1. mode = "boot" /\ FlashInv /\ ScanInv
  BY DEF Boot, BootBlank, BootSkip, BootIndex, BootNoFd, BootDone, BootDuplicate,
     Scanning, WhileBooting
<1>2. ASSUME mode' = mode, FlashInv', ScanInv'
      PROVE  WhileBooting' /\ WhileRunning'
  BY <1>1, <1>2 DEF WhileBooting, WhileRunning
<1>3. CASE BootBlank
  <2>1. UNCHANGED <<flash, mode>>
    BY <1>3 DEF BootBlank
  <2> QED BY <1>1, <1>2, <1>3, <2>1, ScanBlank, FlashKept, ValidKept
<1>4. CASE BootSkip
  BY <1>1, <1>2, <1>4, ScanSkip DEF BootSkip
<1>5. CASE BootIndex
  BY <1>1, <1>2, <1>5, ScanIndex DEF BootIndex
<1>6. CASE BootNoFd
  <2>1. /\ Scanning /\ checkBlock(Scanned) = BLOCK_IS_VALID /\ Search(FD_MAX, Scanned.id)
    BY <1>6 DEF BootNoFd
  <2>2. Scanned.id \in Ids
    BY <2>1, ScanFacts, CheckBlockFacts DEF KnownInv, CellsAreKnown, IsKnown, Scanned
  <2> QED BY <2>1, <2>2, IndexSuffices
<1>7. CASE BootDone
  BY <1>1, <1>7, RunBegins DEF BootDone, WhileBooting, WhileRunning
<1>8. ASSUME NEW i \in FdIndexes, BootDuplicate(i)
      PROVE  WhileBooting' /\ WhileRunning'
  BY <1>1, <1>2, <1>8, ScanDuplicate DEF BootDuplicate
<1> QED BY <1>3, <1>4, <1>5, <1>6, <1>7, <1>8 DEF Boot
=============================================================================
