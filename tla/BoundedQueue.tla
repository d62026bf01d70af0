---------------------------- MODULE BoundedQueue ----------------------------
(***************************************************************************)
(* What a producer and a consumer with a bounded buffer between them       *)
(* promise: the items 0, 1, 2... are received once each, in order, and no  *)
(* more than Capacity of them are under way.                               *)
(***************************************************************************)
EXTENDS Integers, Sequences

CONSTANTS Capacity,
          Values     \* items are numbered modulo this

VARIABLES queue,   \* the items under way
          sent,    \* how many were sent: the next item
          got      \* the item that was received last

vars == <<queue, sent, got>>

Init == queue = <<>> /\ sent = 0 /\ got = Values - 1

Put == /\ Len(queue) < Capacity
       /\ queue' = Append(queue, sent)
       /\ sent' = (sent + 1) % Values
       /\ UNCHANGED got

Get == /\ queue # <<>>
       /\ got' = Head(queue)
       /\ queue' = Tail(queue)
       /\ UNCHANGED sent

Spec == Init /\ [][Put \/ Get]_vars
=============================================================================
