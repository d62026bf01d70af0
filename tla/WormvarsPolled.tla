--------------------------- MODULE WormvarsPolled ---------------------------
(***************************************************************************)
(* wormvars in the main loop of an application that goes on polling        *)
(* fs_thread, as README.md:55 tells it to.  The application is an          *)
(* assumption, not the loop of a test: as long as a blank sector is left   *)
(* it may write whenever it likes, also while fs_thread waits for its      *)
(* timer; with the last blank sector in use it gives the protothread       *)
(* PollsPerWrite turns that count between two writes, those in which the   *)
(* timer has expired and FLASH is ready.  Calls of fs_write that are       *)
(* refused for the size of their data change nothing but what they return  *)
(* and are left out.                                                       *)
(***************************************************************************)
EXTENDS RelocSector

CONSTANT PollsPerWrite

ASSUME PaceIsFinite == PollsPerWrite \in Nat

VARIABLE polls    \* turns that counted since the last write, up to the bound

polledVars == <<vars, polls>>

PolledInit == Init /\ polls = 0

(* A turn of fs_thread in which it does not find FLASH busy. *)
Turn == fs_thread /\ lc' \notin {"await_read", "await_erase"}

Poll ==
  /\ calls = <<>> /\ Turn
  /\ polls' = IF polls < PollsPerWrite THEN polls + 1 ELSE polls

PollBusy == calls = <<>> /\ fs_thread /\ ~Turn /\ UNCHANGED polls

Write == (\E id \in Ids, data \in Data : UserWrite(id, data)) /\ polls' = 0

PacedWrite == polls = PollsPerWrite /\ Write

(* A blank sector besides the active one, and a write that fs_thread has   *)
(* not had its turns for.                                                  *)
SpareSector == \E s \in Sectors \ {currSector} : SECTOR_IS_BLANK(s)
EarlyWrite == polls < PollsPerWrite /\ SpareSector /\ Write

Fail == PowerLoss \/ PowerLossInProgram

(* The steps of a call of fs_write, those of the fs_thread(1) included. *)
Continue == fs_write \/ (calls # <<>> /\ fs_thread)

SteadyNext ==
  \/ Fail /\ polls' = 0
  \/ Boot /\ UNCHANGED polls
  \/ Continue /\ UNCHANGED polls
  \/ PacedWrite \/ Poll \/ PollBusy

PolledNext == SteadyNext \/ EarlyWrite
PolledSpec == PolledInit /\ [][PolledNext]_polledVars

(* The processor runs, the main loop polls, and FLASH, however busy, gets  *)
(* ready again (flash_ready is 1 in the mock, ll_mock/flash.c).  For the   *)
(* reserve to come back the application has to be steady: one that writes  *)
(* early for ever keeps a single blank sector.                             *)
Runs == Boot \/ Continue \/ (calls = <<>> /\ Turn)
FairSpec ==
  PolledInit /\ [][SteadyNext]_polledVars /\ WF_polledVars(SteadyNext /\ Runs)

PowerIsStable == <>[][~Fail]_polledVars

-----------------------------------------------------------------------------
(* fs_init comes to an end whatever a power failure has left in FLASH, and *)
(* so does each call of fs_write, the relocation nested in it included:    *)
(* the application gets control again and again.                           *)
ControlReturns == PowerIsStable => []<>Idle

(* Relocation keeps up with an application that polls: the blank sectors   *)
(* held in reserve (FS_MIN_BLANKSECTORS) are there again and again, however*)
(* long it goes on writing.                                                *)
ReserveReturns == PowerIsStable => []<>(Idle /\ ~NeedsReloc)

(* fs_thread does not stay in one relocation: it gets back to the wait for *)
(* its timer.                                                              *)
RelocationEnds == PowerIsStable => []<>(mode = "run" /\ lc = "begin")
=============================================================================
