-------------------------- MODULE MCWormvarsShort ---------------------------
(* Instances of wormvars in which only a part of FLASH gets used. *)
EXTENDS MCWormvars

(* Runs are followed until MaxUsedCells cells have been written. *)
CONSTANT MaxUsedCells
UsedCells == {a \in Addr : flash[a] # Blank}
FewCellsUsed == Cardinality(UsedCells) <= MaxUsedCells
=============================================================================
