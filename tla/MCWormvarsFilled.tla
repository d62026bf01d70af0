-------------------------- MODULE MCWormvarsFilled --------------------------
(* Instances of the polled main loop, switched on when relocation is due.  *)
EXTENDS MCWormvars, WormvarsPace

(* Sectors 0 and 1 are full, the other ones blank.  In each, the variables *)
(* of one half of Ids were written again and again, so that the last cells *)
(* are in use: two entries of the index, of four, have to be relocated.    *)
Half == Cardinality(Ids) \div 2
Orders == {p \in [0 .. 2 * Half - 1 -> Ids] :
             \A i, j \in DOMAIN p : p[i] = p[j] => i = j}
AsWritten(id, size) ==
  [Block(id, CHOOSE d \in Data : TRUE) EXCEPT !.newer = FS_BLOCK_CURRENT,
                                              !.size = size]
InitFilled ==
  /\ \E p \in Orders :
       flash = [a \in Addr |->
                  IF a[1] > 1 THEN Blank
                  ELSE AsWritten(p[a[1] * Half + (a[2] % Half)],
                                 IF a[2] < FDS_PER_SECTOR - Half
                                 THEN FS_SIZEINVALID ELSE FS_SIZE32)]
  /\ ClearedRam /\ polls = 0 /\ torn = 0

SpecFilled == InitFilled /\ [][PacedNext]_pacedVars

(* Runs are followed until a second sector has been erased: sector 2 was   *)
(* the first to be taken into use, now it is one of the others.            *)
PartlyUsed(s) == flash[<<s, 0>>] # Blank /\ flash[<<s, LastSlot>>] = Blank
SecondRound ==
  \A s, t \in Sectors : PartlyUsed(s) /\ IsBlankFrom(t, 0) => s = 2

(* A view coarser than that of MCWormvars: fs_init passes over invalidated *)
(* and torn blocks alike, and fs_thread sets what it keeps in Fs.reloc     *)
(* when it begins a relocation.                                            *)
Dead(a) == /\ checkBlock(flash[a]) \notin {BLOCK_IS_VALID, BLOCK_IS_BLANK}
           /\ ~PointedTo(a)
PacedView ==
  <<[a \in Addr |-> IF Dead(a) THEN FS_SIZEINVALID ELSE flash[a]],
    mode, scan, fd, fd_index, currAddress, currSector, lc,
    IF lc \in {"begin", "select"} THEN NoReloc ELSE reloc, calls, polls, torn>>
=============================================================================
