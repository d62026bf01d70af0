---------------------------- MODULE WormvarsPace ----------------------------
(***************************************************************************)
(* Why relocation always finds a sector to write to, in the main loop of   *)
(* WormvarsPolled: when the last blank sector is taken into use, there is  *)
(* room in it for the entries of the sector that is relocated next and for *)
(* all that the application writes before that sector is erased, even if   *)
(* power fails again and again and fs_thread has to start over.            *)
(***************************************************************************)
EXTENDS WormvarsPolled, WormvarsInv

(* What no pace makes up for: a block that fs_thread copies is torn while  *)
(* no sector is blank, and costs a cell that held no write.  Of these      *)
(* there are at most MaxTorn until a sector is blank again.                *)
CONSTANT MaxTorn

ASSUME TornIsFinite == MaxTorn \in Nat

VARIABLE torn    \* those since there was a blank sector

pacedVars == <<polledVars, torn>>

PacedInit == PolledInit /\ torn = 0

TornCopy == /\ PowerLossInProgram /\ Top.caller = "fs_thread"
            /\ ~SpareSector /\ flash' # flash

PacedNext ==
  /\ PolledNext
  /\ TornCopy => torn < MaxTorn
  /\ torn' = IF TornCopy THEN torn + 1
             ELSE IF mode' = "run" /\ SpareSector' THEN 0 ELSE torn

PacedSpec == PacedInit /\ [][PacedNext]_pacedVars

-----------------------------------------------------------------------------
(* When relocation is due the FS_NUM_SECTORS - FS_MIN_BLANKSECTORS or more *)
(* full sectors share at most FD_MAX entries: one of them has so many.     *)
MostLive == FD_MAX \div (FS_NUM_SECTORS - FS_MIN_BLANKSECTORS)

(* The application's writes that fit in so many turns of fs_thread.  Two   *)
(* turns of each PollsPerWrite may be lost to a power failure.             *)
WritesIn(turns) == turns \div (PollsPerWrite - 2)

(* The pace at which relocation keeps up: a sector holds the entries of    *)
(* the one that is relocated, what is written meanwhile, the write that    *)
(* made its sector the active one, one more block, and the torn copies.    *)
KeepsUp ==
  /\ PollsPerWrite > 2
  /\ MostLive + WritesIn(2 * MostLive + PollsPerWrite) + 2 + MaxTorn
       <= FDS_PER_SECTOR

-----------------------------------------------------------------------------
(* The sector that is relocated, or may be next. *)
Victims == IF lc \in {"begin", "select"} THEN Candidates ELSE {reloc.sector}

(* The fs_write of the application is to write a block; the one that       *)
(* fs_thread has called is to write one although a turn inside it did.     *)
One(condition) == IF condition THEN 1 ELSE 0
Copying == \E c \in 1 .. Len(calls) : calls[c].caller = "fs_thread"
Waiting == \E c \in 1 .. Len(calls) : calls[c].caller = "fs_thread"
                                      /\ calls[c].at = "fs_thread"
Pending == One(calls # <<>> /\ calls[1].caller = "user")
Again == One(Waiting \/ (Copying /\ lc = "next"))

(* The entries that fs_thread still has to look at: those in the sector,   *)
(* and the one in its hand if that has moved.                              *)
Left(v) == FdCount(v) + One(lc \in {"await_read", "copied"} /\ Moved)

(* Each costs two turns, one to read its block and one to write it.  Stage *)
(* is where fs_thread stands between them; Behind, how many of the turns   *)
(* since the application's last write have not got it any further.         *)
Stage == IF lc = "begin" THEN 3
         ELSE IF lc # "copied" THEN 2
         ELSE IF Copying THEN 0 ELSE 1
Behind == IF polls + Stage > 3 THEN polls + Stage - 3 ELSE 0

(* The torn copies still to come.                                          *)
Allowed == MaxTorn - torn

(* The cells that may be used before the sector is erased, and one more.   *)
Need(v) == FdCount(v) + WritesIn(2 * Left(v) + Behind) + Again + Pending
           + Allowed + 1

(* The cells left in the active sector. *)
Room == FDS_PER_SECTOR - currAddress[currSector]

RoomToRelocate == SpareSector \/ \E v \in Victims : Need(v) <= Room

-----------------------------------------------------------------------------
(* The same before fs_init, which finds the newest block of each variable. *)
Newest(id) == {a \in Copies(id) :
                 \A b \in Copies(id) : flash[b].newer <= flash[a].newer}
Live(v) == {id \in Ids : \E a \in Newest(id) : a[1] = v}

IsBlankFrom(s, k) == \A j \in k .. LastSlot : flash[<<s, j>>] = Blank
RoomInFlash(s, k, v) ==
  /\ IsBlankFrom(s, k) /\ flash[<<v, LastSlot>>] # Blank
  /\ LET n == Cardinality(Live(v))
     IN  k + n + WritesIn(2 * n) + 1 + Allowed <= FDS_PER_SECTOR

RoomToBoot == \/ \E s \in Sectors : IsBlankFrom(s, 0)
              \/ \E s, v \in Sectors, k \in Slots : RoomInFlash(s, k, v)

-----------------------------------------------------------------------------
(* The invariant: while relocation keeps up there is room for it, whatever *)
(* fs_thread and the application are at, and its victim has few entries.   *)
PaceInv ==
  /\ lc # "retry"
  /\ polls \in 0 .. PollsPerWrite /\ torn \in 0 .. MaxTorn
  /\ lc \notin {"begin", "select"} => Left(reloc.sector) <= MostLive
  /\ lc = "copied" /\ Copying => Stays
  /\ mode = "run" => RoomToRelocate
  /\ mode = "boot" => lc = "begin" /\ polls = 0 /\ RoomToBoot

(* No fs_write ever finds all sectors full (wormvars.c:321 to 325).        *)
WritesFindRoom ==
  Executing("updateSector") => \E s \in Sectors : ~SECTOR_IS_FULL(s)
=============================================================================
