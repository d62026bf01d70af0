------------------------------ MODULE VarStore ------------------------------
(***************************************************************************)
(* What wormvars promises: a store of variables that survives power        *)
(* failures.  A write takes effect at one instant between its call and its *)
(* return, or not at all.  If it returns 0 it has taken effect; if it      *)
(* returns an error it has not; if power fails first it may have or not.   *)
(* Nothing else ever changes the store.                                    *)
(***************************************************************************)
EXTENDS Integers

CONSTANTS Ids, Data, Missing   \* Missing: the contents of an unwritten variable

VARIABLES store,    \* the contents of each variable
          request,  \* the write in progress, if any
          reply     \* what the last write returned, 0 until it has

vars == <<store, request, reply>>

NoRequest == [active |-> FALSE]
Request(id, data, done) ==
  [active |-> TRUE, id |-> id, data |-> data, done |-> done]

Init == /\ store = [id \in Ids |-> Missing]
        /\ request = NoRequest
        /\ reply = 0

Call(id, data) ==
  /\ ~request.active
  /\ request' = Request(id, data, FALSE) /\ reply' = 0
  /\ UNCHANGED store

TakeEffect ==
  /\ request.active /\ ~request.done
  /\ store' = [store EXCEPT ![request.id] = request.data]
  /\ request' = [request EXCEPT !.done = TRUE]
  /\ UNCHANGED reply

Succeed ==
  /\ request.active /\ request.done
  /\ request' = NoRequest /\ reply' = 0
  /\ UNCHANGED store

Fail ==
  /\ request.active /\ ~request.done
  /\ request' = NoRequest /\ reply' = -2
  /\ UNCHANGED store

(* A write that is refused at once: the data is too long. *)
Refuse ==
  /\ ~request.active
  /\ reply' = -1
  /\ UNCHANGED <<store, request>>

PowerLoss == request' = NoRequest /\ reply' = 0 /\ UNCHANGED store

Next == \/ \E id \in Ids, data \in Data : Call(id, data)
        \/ TakeEffect \/ Succeed \/ Fail \/ Refuse \/ PowerLoss

Spec == Init /\ [][Next]_vars
=============================================================================
