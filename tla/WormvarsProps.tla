---------------------------- MODULE WormvarsProps ---------------------------
(***************************************************************************)
(* What must be true of wormvars, and the store it implements.             *)
(***************************************************************************)
EXTENDS Wormvars

CONSTANT Missing   \* what is read of a variable that was never written

ASSUME MissingIsNoData == Missing \notin Data \cup {Erased, Garbled}

(* The valid blocks of a variable in FLASH. *)
IsValid(a) == checkBlock(flash[a]) = BLOCK_IS_VALID
FsAddr == Sectors \X Slots
Copies(id) == {a \in FsAddr : IsValid(a) /\ flash[a].id = id}

(* What fs_init would make of FLASH if power failed now: the newer block   *)
(* of the variable counts, if there is one.                                *)
Recovered(id) ==
  LET newest == {a \in Copies(id) :
                   \A b \in Copies(id) : flash[b].newer <= flash[a].newer}
  IN  IF newest = {} THEN Missing ELSE flash[CHOOSE a \in newest : TRUE].data

-----------------------------------------------------------------------------
(* The variables have their types. *)
ScanRecord == [sector : 0 .. FS_NUM_SECTORS, slot : Slots,
               blankSector : Sectors, assigned : BOOLEAN]
RelocRecord == [sector : Sectors, fd_index : 0 .. FD_MAX, address : Addr,
                id : IdField, buffer : DataField]
TypeOK ==
  /\ flash \in [Addr -> Cell]
  /\ mode \in {"boot", "run"}
  /\ scan \in ScanRecord
  /\ fd \in [FdIndexes -> FileDescriptor]
  /\ fd_index \in 0 .. FD_MAX
  /\ currAddress \in [Sectors -> Nat]
  /\ currSector \in Sectors
  /\ lc \in Continuations
  /\ reloc \in RelocRecord
  /\ calls \in Seq(Call)
  /\ ret \in {0, -1, -2}

(* When the application has control, every variable reads back from the    *)
(* index as a reboot would recover it from FLASH, and fs_read finds        *)
(* exactly the variables that a reboot would find.                         *)
IndexAgreesWithFlash ==
  Idle => \A id \in Ids : IF IsIndexed(id) THEN fs_read(id) = Recovered(id)
                                           ELSE Recovered(id) = Missing

(* While fs_init runs, each entry of the index stands for a valid block of *)
(* a variable of its own, whether the index can hold all of them or not.   *)
BootIndexIsSound ==
  mode = "boot" =>
    \A i \in 0 .. fd_index - 1 :
      /\ IsValid(fd[i].address) /\ HeaderOf(flash[fd[i].address]) = fd[i].header
      /\ \A j \in 0 .. i - 1 : fd[j].header.id # fd[i].header.id

(* fs_init never meets two blocks of a variable that it cannot rank (the   *)
(* branch it logs as "unexpected. keeping first found"): at any moment a   *)
(* variable has at most two valid blocks, one of them newer.               *)
CopiesAreRanked ==
  \A id \in IdField : \A a, b \in Copies(id) :
    a # b => flash[a].newer # flash[b].newer

(* No block is written over another one or outside the active sector.      *)
WritesLandOnBlank ==
  Executing("program") => Target \in FsAddr /\ flash[Target] = Blank
                          /\ ~SECTOR_IS_FULL(currSector)

(* When the application has control, only the active sector is partly      *)
(* written: every other one is blank or full.                              *)
OnlyActiveIsPartial ==
  Idle => \A s \in Sectors \ {currSector} :
            SECTOR_IS_BLANK(s) \/ SECTOR_IS_FULL(s)

(* The write addresses agree with FLASH: a sector is used up to its write  *)
(* address and blank from there on.                                        *)
AddressesAgreeWithFlash ==
  Idle => \A s \in Sectors, k \in Slots :
            (flash[<<s, k>>] = Blank) <=> (k >= currAddress[s])

(* fs_write and fs_thread call each other, but never more than one         *)
(* fs_write deep inside another: the stack they need is bounded.           *)
NestingIsBounded == Len(calls) <= 2

(* Why: when updateSector calls fs_thread it has found a sector with room, *)
(* so the fs_write that fs_thread may call does not move on to another     *)
(* one.  That fs_write uses one cell, and the one that waits for it ends   *)
(* at the cell past the sector at worst.                                   *)
NestingInv ==
  /\ NestingIsBounded
  /\ mode = "boot" => calls = <<>>
  /\ Len(calls) = 2 =>
       /\ calls[1].at = "fs_thread"
       /\ calls[2].caller = "fs_thread" /\ calls[2].at # "fs_thread"
       /\ ~SECTOR_IS_FULL(currSector)
  /\ Executing("fs_thread") => ~SECTOR_IS_FULL(currSector)
  /\ calls # <<>> /\ Top.at # "updateSector" =>
       currAddress[currSector] <= FDS_PER_SECTOR

(* A variable that fs_read finds is kept in FLASH: power may fail without  *)
(* its being lost (README.md:44).                                          *)
IndexedIsKept ==
  Idle => \A id \in Ids : IsIndexed(id) => Recovered(id) # Missing

(* When relocation is due there is a full sector to relocate, so that      *)
(* findRelocSector never falls back on sector 0 (its default at            *)
(* wormvars.c:498): the reserve that the #error of line 102 enforces       *)
(* leaves more cells in full sectors than there are live blocks.           *)
VictimExists == ThreadAt("select") /\ NeedsReloc => Candidates # {}

(* Relocation always finds a sector to write to: the sectors held in       *)
(* reserve avoid relocation problems (comment at wormvars.c:101).          *)
ReserveSuffices == lc # "retry"

(* fs_thread writes again the data that the variable has now, however long *)
(* ago it read the block, and also when updateSector gives it another turn *)
(* inside the fs_write that it has called.                                 *)
RelocationIsFresh ==
  \A c \in 1 .. Len(calls) :
    calls[c].caller = "fs_thread" =>
      Contents(calls[c]) = Recovered(calls[c].id)

(* A sector is erased only if no valid block is left in it and it is not   *)
(* the active one.                                                         *)
EraseLosesNothing ==
  [][\A s \in Sectors :
       (\A k \in Slots : flash'[<<s, k>>] = Blank)
         => \/ \A k \in Slots : flash[<<s, k>>] = Blank
            \/ /\ \A k \in Slots : ~IsValid(<<s, k>>)
               /\ s # currSector]_vars

-----------------------------------------------------------------------------
(* The store: what FLASH holds.  A write by the application takes effect   *)
(* when its block is programmed.                                           *)
UserRequest ==
  IF calls # <<>> /\ calls[1].caller = "user"
  THEN [active |-> TRUE, id |-> calls[1].id, data |-> calls[1].data,
        done |-> calls[1].at \in {"invalidate", "settle"}]
  ELSE [active |-> FALSE]

Store == INSTANCE VarStore WITH store   <- [id \in Ids |-> Recovered(id)],
                                request <- UserRequest,
                                reply   <- ret

ImplementsStore == Store!Spec
=============================================================================
