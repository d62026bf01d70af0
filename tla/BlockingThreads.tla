--------------------------- MODULE BlockingThreads --------------------------
(***************************************************************************)
(* What protothreads promise (pt-mainpage.txt: "linear code execution for  *)
(* event-driven systems"): threads that run side by side, each through its *)
(* own statements in order, that block at a wait until its condition       *)
(* holds, and at a spawn until the child has finished.                     *)
(*                                                                         *)
(* A statement is a record with the field op and                           *)
(*   flag, is   "wait", "yield_until": goes on when the flag has the value *)
(*   flag, is   "set": gives the flag the value                            *)
(*   to         "goto": the number of a statement of the same thread       *)
(*   thread     "spawn", "wait_thread": the child                          *)
(* and no other in "yield", "restart" and "exit".                          *)
(***************************************************************************)
EXTENDS Integers, Sequences, SequencesExt

CONSTANTS Threads,
          Roots,    \* sequence: the threads that the main loop calls
          Flags,
          Inputs,   \* the flags that the environment changes
          Body      \* thread |-> sequence of statements

VARIABLES flag,
          place,    \* thread |-> the number of its next statement
          child     \* thread |-> what has become of the child it waits for

vars == <<flag, place, child>>

Ops(i, t, ops) == i <= Len(Body[t]) /\ Body[t][i].op \in ops
Holds(s) == flag[s.flag] = s.is
Parents(t) == {p \in Threads : /\ Ops(place[p], p, {"spawn", "wait_thread"})
                               /\ Body[p][place[p]].thread = t}

Init ==
  /\ flag = [f \in Flags |-> 0]
  /\ place = [t \in Threads |-> 1]
  /\ child = [t \in Threads |-> "none"]

At(t, ops) == Ops(place[t], t, ops)
Statement(t) == Body[t][place[t]]
GoTo(t, i) == place' = [place EXCEPT ![t] = i]

Active(t) == t \in ToSet(Roots) \/ \E p \in Parents(t) : child[p] = "running"

Pass(t) ==
  /\ \/ At(t, {"yield"})
     \/ At(t, {"wait", "yield_until"}) /\ Holds(Statement(t))
  /\ GoTo(t, place[t] + 1) /\ UNCHANGED <<flag, child>>

Assign(t) ==
  /\ At(t, {"set"})
  /\ flag' = [flag EXCEPT ![Statement(t).flag] = Statement(t).is]
  /\ GoTo(t, place[t] + 1) /\ UNCHANGED child

Jump(t) ==
  /\ \/ At(t, {"goto"}) /\ GoTo(t, Statement(t).to)
     \/ At(t, {"restart"}) /\ GoTo(t, 1)
  /\ UNCHANGED <<flag, child>>

(* A root thread that has finished begins again. *)
Finish(t) ==
  /\ At(t, {"exit"}) \/ place[t] > Len(Body[t])
  /\ GoTo(t, 1)
  /\ child' = [p \in Threads |->
                 IF p \in Parents(t) /\ child[p] = "running" THEN "done" ELSE child[p]]
  /\ UNCHANGED flag

Start(t) ==
  /\ At(t, {"spawn", "wait_thread"}) /\ child[t] = "none"
  /\ child' = [child EXCEPT ![t] = "running"]
  /\ IF At(t, {"spawn"}) THEN GoTo(Statement(t).thread, 1) ELSE UNCHANGED place
  /\ UNCHANGED flag

Join(t) ==
  /\ At(t, {"spawn", "wait_thread"}) /\ child[t] = "done"
  /\ child' = [child EXCEPT ![t] = "none"]
  /\ GoTo(t, place[t] + 1) /\ UNCHANGED flag

Step(t) == /\ Active(t)
           /\ Pass(t) \/ Assign(t) \/ Jump(t) \/ Finish(t) \/ Start(t) \/ Join(t)

Environment == /\ \E f \in Inputs : flag' = [flag EXCEPT ![f] = 1 - @]
               /\ UNCHANGED <<place, child>>

Next == Environment \/ \E t \in Threads : Step(t)
Spec == Init /\ [][Next]_vars

(* Weak fairness of Step(t), with its ENABLED written out. *)
Ready(t) ==
  /\ Active(t)
  /\ At(t, {"wait", "yield_until"}) => Holds(Statement(t))
  /\ At(t, {"spawn", "wait_thread"}) => child[t] # "running"
Fair(t) == ([]<>~Ready(t)) \/ ([]<><<Step(t)>>_vars)
=============================================================================
