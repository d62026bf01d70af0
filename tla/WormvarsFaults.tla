--------------------------- MODULE WormvarsFaults ---------------------------
(***************************************************************************)
(* wormvars under an event that Wormvars leaves out: a power failure in    *)
(* the middle of an erase.                                                 *)
(***************************************************************************)
EXTENDS MCWormvars

(* Some cells of the sector are erased already and some are not yet. *)
PowerLossInErase ==
  /\ ThreadAt("await_erase")
  /\ \E erased \in SUBSET Slots :
       flash' = [a \in Addr |-> IF a[1] = reloc.sector /\ a[2] \in erased
                                THEN Blank ELSE flash[a]]
  /\ ClearRam

(* A device in whose writes and erases power may fail. *)
SpecTorn == Init /\ [][Next \/ PowerLossInErase]_vars
=============================================================================
