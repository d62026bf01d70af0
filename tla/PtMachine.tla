------------------------------ MODULE PtMachine -----------------------------
(***************************************************************************)
(* How protothreads work (pt.h and lc.h): C functions on one stack that    *)
(* return where they block and that a switch on the local continuation     *)
(* takes back to where they were when they are called again.  The macros   *)
(* are the operators of the same names; a program is the statements of its *)
(* threads, as in BlockingThreads.  The main loop calls Roots in turn for  *)
(* ever, as in example-small.c; flags in Inputs change at any time.        *)
(***************************************************************************)
EXTENDS Protothreads, Sequences, SequencesExt

CONSTANTS Threads, Roots, Flags, Inputs, Body

Ops(i, t, ops) == i <= Len(Body[t]) /\ Body[t][i].op \in ops
Waits == {"spawn", "wait_thread"}

ASSUME ProgramHasRoots == Roots \in Seq(Threads) /\ Roots # <<>>
ASSUME InputsAreFlags == Inputs \subseteq Flags
ASSUME StatementsAreComplete ==
  \A t \in Threads :
    /\ Len(Body[t]) \in Nat
    /\ \A i \in 1 .. Len(Body[t]) :
         /\ Ops(i, t, {"wait", "yield_until", "set"}) =>
              Body[t][i].flag \in Flags /\ Body[t][i].is \in 0 .. 1
         /\ Ops(i, t, {"goto"}) => Body[t][i].to \in Nat \ {0}
         /\ Ops(i, t, Waits) => Body[t][i].thread \in Threads

(* A thread is called by the main loop, or by one other thread: two that   *)
(* spawn the same function do so with different struct pt.                 *)
Calls(p, c) == \E i \in 1 .. Len(Body[p]) : Ops(i, p, Waits) /\ Body[p][i].thread = c
ASSUME OneCaller ==
  /\ \A p \in Threads, c \in ToSet(Roots) : ~Calls(p, c)
  /\ \A c, p, q \in Threads : Calls(p, c) /\ Calls(q, c) => p = q

VARIABLES
  flag,           \* the shared variables of the program
  lc,             \* thread |-> statement of its last LC_SET, 0 after LC_INIT
  stack,          \* the threads that are being executed, innermost last
  at,             \* statement of the innermost
  label,          \* whether it was reached by the jump of LC_RESUME
  PT_YIELD_FLAG,  \* local variable of each thread
  result,         \* what the innermost has got from the child it called
  turn            \* index in Roots

vars == <<flag, lc, stack, at, label, PT_YIELD_FLAG, result, turn>>
control == <<stack, result, turn>>
NONE == -1

Init ==
  /\ flag = [f \in Flags |-> 0]
  /\ lc = [t \in Threads |-> 0]
  /\ stack = <<>> /\ at = 1 /\ label = FALSE /\ result = NONE
  /\ PT_YIELD_FLAG = [t \in Threads |-> 1]
  /\ turn = 1

Top(t) == stack # <<>> /\ Last(stack) = t
Executing(t, ops) == Top(t) /\ result = NONE /\ Ops(at, t, ops)
Statement(t) == Body[t][at]
Holds(s) == flag[s.flag] = s.is

GoTo(i) == at' = i /\ label' = FALSE
LC_SET(t) == lc' = [lc EXCEPT ![t] = at]
PT_INIT(t) == lc' = [lc EXCEPT ![t] = 0]

(* Seeded fault: the yield flag is left as it is. *)
BugPT_BEGIN(t, continuation) ==
  /\ stack' = Append(stack, t) /\ result' = NONE
  /\ PT_YIELD_FLAG' = PT_YIELD_FLAG
  /\ at' = (IF continuation = 0 THEN 1 ELSE continuation)
  /\ label' = (continuation # 0)

(* A call of thread t, up to the statement where PT_BEGIN takes it. *)
PT_BEGIN(t, continuation) ==
  /\ stack' = Append(stack, t) /\ result' = NONE
  /\ PT_YIELD_FLAG' = [PT_YIELD_FLAG EXCEPT ![t] = 1]
  /\ at' = (IF continuation = 0 THEN 1 ELSE continuation)
  /\ label' = (continuation # 0)

(* Seeded fault: the main loop does not start over. *)
BugReturn(r) ==
  /\ stack' = Front(stack)
  /\ label' = FALSE
  /\ IF Len(stack) = 1
     THEN at' = 1 /\ result' = NONE /\ turn' = turn + 1
     ELSE at' = lc[stack[Len(stack) - 1]] /\ result' = r /\ UNCHANGED turn

(* To the caller, which is at its last LC_SET, or to the main loop. *)
Return(r) ==
  /\ stack' = Front(stack)
  /\ label' = FALSE
  /\ IF Len(stack) = 1
     THEN at' = 1 /\ result' = NONE /\ turn' = (turn % Len(Roots)) + 1
     ELSE at' = lc[stack[Len(stack) - 1]] /\ result' = r /\ UNCHANGED turn

Main ==
  /\ stack = <<>>
  /\ PT_BEGIN(Roots[turn], lc[Roots[turn]])
  /\ UNCHANGED <<flag, lc, turn>>

(* Seeded fault: no continuation is set; the thread resumes at an old one. *)
BugPT_WAIT_UNTIL(t) ==
  /\ Executing(t, {"wait"})
  /\ UNCHANGED lc
  /\ IF Holds(Statement(t)) THEN GoTo(at + 1) /\ UNCHANGED control
                            ELSE Return(PT_WAITING)
  /\ UNCHANGED <<flag, PT_YIELD_FLAG>>

PT_WAIT_UNTIL(t) ==
  /\ Executing(t, {"wait"})
  /\ LC_SET(t)
  /\ IF Holds(Statement(t)) THEN GoTo(at + 1) /\ UNCHANGED control
                            ELSE Return(PT_WAITING)
  /\ UNCHANGED <<flag, PT_YIELD_FLAG>>

(* Seeded fault: PT_YIELD does not clear its flag. *)
BugPT_YIELD(t) ==
  /\ Executing(t, {"yield", "yield_until"})
  /\ LC_SET(t) /\ UNCHANGED PT_YIELD_FLAG
  /\ IF /\ PT_YIELD_FLAG[t] # 0
        /\ Ops(at, t, {"yield_until"}) => Holds(Statement(t))
     THEN GoTo(at + 1) /\ UNCHANGED control
     ELSE Return(PT_YIELDED)
  /\ UNCHANGED flag

(* PT_YIELD and PT_YIELD_UNTIL: the jump of LC_RESUME leads past the       *)
(* assignment to the flag.                                                 *)
PT_YIELD(t) ==
  /\ Executing(t, {"yield", "yield_until"})
  /\ LC_SET(t)
  /\ PT_YIELD_FLAG' = [PT_YIELD_FLAG EXCEPT ![t] = IF label THEN @ ELSE 0]
  /\ IF /\ PT_YIELD_FLAG'[t] # 0
        /\ Ops(at, t, {"yield_until"}) => Holds(Statement(t))
     THEN GoTo(at + 1) /\ UNCHANGED control
     ELSE Return(PT_YIELDED)
  /\ UNCHANGED flag

(* PT_SPAWN initialises the child when the parent gets there first, and is *)
(* PT_WAIT_THREAD from there: the child is called in the condition.        *)
PT_SPAWN(t) ==
  /\ Executing(t, {"spawn", "wait_thread"})
  /\ LET c == Statement(t).thread
         initial == Ops(at, t, {"spawn"}) /\ ~label
     IN  /\ lc' = [lc EXCEPT ![t] = at, ![c] = IF initial THEN 0 ELSE @]
         /\ PT_BEGIN(c, lc'[c])
  /\ UNCHANGED <<flag, turn>>

(* Seeded fault: a child that has yielded counts as finished. *)
BugWaitThread(t) ==
  /\ Top(t) /\ result # NONE
  /\ IF result = PT_WAITING
     THEN Return(PT_WAITING)
     ELSE GoTo(at + 1) /\ result' = NONE /\ UNCHANGED <<stack, turn>>
  /\ UNCHANGED <<flag, lc, PT_YIELD_FLAG>>

(* The condition of PT_WAIT_THREAD, once the child has returned. *)
WaitThread(t) ==
  /\ Top(t) /\ result # NONE
  /\ IF PT_SCHEDULE(result)
     THEN Return(PT_WAITING)
     ELSE GoTo(at + 1) /\ result' = NONE /\ UNCHANGED <<stack, turn>>
  /\ UNCHANGED <<flag, lc, PT_YIELD_FLAG>>

PT_RESTART(t) ==
  /\ Executing(t, {"restart"})
  /\ PT_INIT(t) /\ Return(PT_WAITING) /\ UNCHANGED <<flag, PT_YIELD_FLAG>>

PT_EXIT(t) ==
  /\ Executing(t, {"exit"})
  /\ PT_INIT(t) /\ Return(PT_EXITED) /\ UNCHANGED <<flag, PT_YIELD_FLAG>>

PT_END(t) ==
  /\ Top(t) /\ result = NONE /\ at > Len(Body[t])
  /\ PT_YIELD_FLAG' = [PT_YIELD_FLAG EXCEPT ![t] = 0]
  /\ PT_INIT(t) /\ Return(PT_ENDED) /\ UNCHANGED flag

(* Statements of C between the macros. *)
Assign(t) ==
  /\ Executing(t, {"set"})
  /\ flag' = [flag EXCEPT ![Statement(t).flag] = Statement(t).is]
  /\ GoTo(at + 1) /\ UNCHANGED <<lc, PT_YIELD_FLAG, control>>

Jump(t) ==
  /\ Executing(t, {"goto"})
  /\ GoTo(Statement(t).to) /\ UNCHANGED <<flag, lc, PT_YIELD_FLAG, control>>

Program ==
  \/ Main
  \/ \E t \in Threads :
       \/ PT_WAIT_UNTIL(t) \/ PT_YIELD(t) \/ PT_SPAWN(t) \/ WaitThread(t)
       \/ PT_RESTART(t) \/ PT_EXIT(t) \/ PT_END(t) \/ Assign(t) \/ Jump(t)

Environment ==
  /\ \E f \in Inputs : flag' = [flag EXCEPT ![f] = 1 - @]
  /\ UNCHANGED <<lc, at, label, PT_YIELD_FLAG, control>>

Next == Program \/ Environment
Spec == Init /\ [][Next]_vars

(* The main loop never stops. *)
FairSpec == Spec /\ WF_vars(Program)

-----------------------------------------------------------------------------
(* The variables have their types; no thread is called while it is being   *)
(* executed, so that one PT_YIELD_FLAG for each will do.                   *)
TypeOK ==
  /\ flag \in [Flags -> 0 .. 1]
  /\ lc \in [Threads -> Nat] /\ \A t \in Threads : lc[t] <= Len(Body[t])
  /\ stack \in Seq(Threads)
  /\ \A m, n \in 1 .. Len(stack) : stack[m] = stack[n] => m = n
  /\ at \in Nat \ {0} /\ label \in BOOLEAN
  /\ PT_YIELD_FLAG \in [Threads -> 0 .. 1]
  /\ result \in Returns \cup {NONE}
  /\ turn \in 1 .. Len(Roots)

(* The refinement mapping: where a thread is in its statements, and how it *)
(* stands with its child.                                                  *)
Current(t) == Top(t) /\ result = NONE
Place(t) == IF Current(t) THEN at ELSE IF lc[t] = 0 THEN 1 ELSE lc[t]
Child(t) == IF ~Ops(Place(t), t, Waits) \/ lc[t] = 0 THEN "none"
            ELSE IF Current(t) /\ ~label THEN "none"
            ELSE IF Top(t) /\ result # NONE /\ ~PT_SCHEDULE(result) THEN "done"
            ELSE "running"

Blocking == INSTANCE BlockingThreads WITH
              place <- [t \in Threads |-> Place(t)],
              child <- [t \in Threads |-> Child(t)]

(* Although they return at every wait, protothreads run through their      *)
(* statements as threads that block do.                                    *)
ImplementsThreads == Blocking!Spec

(* A main loop that goes on calling its threads is fair to each of them    *)
(* and to their children: one that can go on for long enough does.         *)
RunsFairly == \A t \in Threads : Blocking!Fair(t)

(* A thread that yields returns before it goes on: whoever else is to be   *)
(* called gets its turn (PT_YIELD, lines 280 to 317).                      *)
YieldsGiveWay ==
  [][\A t \in Threads :
       Executing(t, {"yield", "yield_until"}) /\ Len(stack') = Len(stack)
         /\ at' # at => label]_vars
=============================================================================
