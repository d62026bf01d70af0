----------------------------- MODULE MCWormvars -----------------------------
(* Instances of wormvars for TLC. *)
EXTENDS WormvarsInv, TLC

Symmetry == Permutations(Ids) \cup Permutations(Data)

(* A view that identifies states which differ only in what an invalidated  *)
(* block holds.  Nothing reads it again: checkBlock stops at its size      *)
(* field, a write cannot revive it, and it is kept here if the index or    *)
(* the relocation still points to it.                                      *)
PointedTo(a) == \/ \E i \in 0 .. fd_index - 1 : fd[i].address = a
                \/ lc \notin {"begin", "select", "await_erase"} /\ reloc.address = a
DeadCellsAlike ==
  <<[a \in Addr |-> IF flash[a].size = FS_SIZEINVALID /\ ~PointedTo(a)
                    THEN FS_SIZEINVALID ELSE flash[a]],
    mode, scan, fd, fd_index, currAddress, currSector, lc, reloc, calls, ret>>
=============================================================================
