---------------------------- MODULE Protothreads ----------------------------
(***************************************************************************)
(* The values that a protothread returns and the test that its scheduler   *)
(* makes of them (pt.h).  They order "goes on" below "has finished".       *)
(***************************************************************************)
EXTENDS Integers

PT_WAITING == 0
PT_YIELDED == 1
PT_EXITED == 2
PT_ENDED == 3
Returns == {PT_WAITING, PT_YIELDED, PT_EXITED, PT_ENDED}

(* Whether the protothread that returned r has to be called again. *)
PT_SCHEDULE(r) == r < PT_EXITED
=============================================================================
