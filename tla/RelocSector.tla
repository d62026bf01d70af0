----------------------------- MODULE RelocSector ----------------------------
(***************************************************************************)
(* findRelocSector as wormvars.c computes it: a loop over the sectors, one *)
(* over the index, and one over the sectors again, starting at the active  *)
(* one.  The operator of the same name in Wormvars states at once what     *)
(* they come to.                                                           *)
(***************************************************************************)
EXTENDS WormvarsProps

(* The locals of the function. *)
Locals == [blankSectors |-> 0, full |-> [s \in Sectors |-> 0],
           fd_count |-> [s \in Sectors |-> 0],
           fd_min |-> FDS_PER_SECTOR, reloc |-> 0]

Enough(l) == l.blankSectors = FS_MIN_BLANKSECTORS

(* After the early return of the first loop nothing changes any more. *)
LookAt(l, s) ==
  IF Enough(l) \/ s = currSector THEN l
  ELSE IF SECTOR_IS_BLANK(s) THEN [l EXCEPT !.blankSectors = @ + 1]
  ELSE IF SECTOR_IS_FULL(s) THEN [l EXCEPT !.full[s] = 1]
  ELSE l

(* Seeded fault: the full sectors do not count their entries. *)
BugHistogram(l, i) ==
  IF l.full[fd[i].sector] = 0 THEN [l EXCEPT !.fd_count[fd[i].sector] = @ + 1]
                              ELSE l

Histogram(l, i) ==
  IF l.full[fd[i].sector] = 1 THEN [l EXCEPT !.fd_count[fd[i].sector] = @ + 1]
                              ELSE l

(* Seeded fault: the last sector wins a tie. *)
BugWinner(l, k) ==
  LET s == (currSector + k) % FS_NUM_SECTORS
  IN  IF l.full[s] = 1 /\ l.fd_count[s] <= l.fd_min
      THEN [l EXCEPT !.fd_min = l.fd_count[s], !.reloc = s] ELSE l

Winner(l, k) ==
  LET s == (currSector + k) % FS_NUM_SECTORS
  IN  IF l.full[s] = 1 /\ l.fd_count[s] < l.fd_min
      THEN [l EXCEPT !.fd_min = l.fd_count[s], !.reloc = s] ELSE l

(* The locals after k turns of each loop. *)
Looked[k \in 0 .. FS_NUM_SECTORS] ==
  IF k = 0 THEN Locals ELSE LookAt(Looked[k - 1], k - 1)

Counted[k \in 0 .. fd_index] ==
  IF k = 0 THEN Looked[FS_NUM_SECTORS] ELSE Histogram(Counted[k - 1], k - 1)

Chosen[k \in 0 .. FS_NUM_SECTORS] ==
  IF k = 0 THEN Counted[fd_index] ELSE Winner(Chosen[k - 1], k - 1)

(* What the caller gets: -1 if there is nothing to do. *)
reloc_sector ==
  IF Enough(Looked[FS_NUM_SECTORS]) THEN -1 ELSE Chosen[FS_NUM_SECTORS].reloc

(* The loops return -1 if enough sectors are blank, and otherwise the one  *)
(* sector that Wormvars says: a full sector with fewest entries, the first *)
(* after the active one in a tie, 0 if there is none (lines 496 to 549).   *)
FindsVictim ==
  ThreadAt("select") =>
    IF NeedsReloc THEN \A s \in Sectors : findRelocSector(s) <=> s = reloc_sector
                  ELSE reloc_sector = -1
=============================================================================
