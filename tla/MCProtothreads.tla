---------------------------- MODULE MCProtothreads --------------------------
(***************************************************************************)
(* The two threads of example-small.c, which wait for each other, in one   *)
(* main loop with a thread that spawns children, yields and restarts.      *)
(***************************************************************************)
EXTENDS PtMachine

Wait(f, v) == [op |-> "wait", flag |-> f, is |-> v]
Set(f, v) == [op |-> "set", flag |-> f, is |-> v]
Goto(i) == [op |-> "goto", to |-> i]

(* Seeded fault: the second thread waits before it lets the first run. *)
BugProtothread2 == <<Wait("flag1", 1), Set("flag1", 0), Set("flag2", 1), Goto(1)>>

protothread1 == <<Wait("flag2", 1), Set("flag2", 0), Set("flag1", 1), Goto(1)>>
protothread2 == <<Set("flag2", 1), Wait("flag1", 1), Set("flag1", 0), Goto(1)>>

(* A child that blocks on an input and one that yields and exits. *)
parent == <<[op |-> "spawn", thread |-> "reader"],
            [op |-> "yield_until", flag |-> "input", is |-> 0],
            [op |-> "wait_thread", thread |-> "worker"],
            [op |-> "restart"]>>
reader == <<Wait("input", 1), [op |-> "yield"], [op |-> "exit"]>>
worker == <<[op |-> "yield"]>>

MCThreads == {"protothread1", "protothread2", "parent", "reader", "worker"}
MCRoots == <<"protothread1", "protothread2", "parent">>
MCFlags == {"flag1", "flag2", "input"}
MCInputs == {"input"}
MCBody == [t \in MCThreads |->
             CASE t = "protothread1" -> protothread1
               [] t = "protothread2" -> protothread2
               [] t = "parent" -> parent
               [] t = "reader" -> reader
               [] t = "worker" -> worker]

(* The program contains the two threads of example-small.c; its main loop  *)
(* alone calls them, and nothing else sets their flags.                    *)
Two == {"protothread1", "protothread2"}
ASSUME ExampleSmall ==
  /\ Two \subseteq Threads
  /\ Body["protothread1"] = protothread1 /\ Body["protothread2"] = protothread2
  /\ {"flag1", "flag2"} \subseteq Flags \ Inputs
  /\ \A t \in Threads, c \in Two : ~Calls(t, c)
  /\ \A t \in Threads \ Two : \A i \in 1 .. Len(Body[t]) :
       Ops(i, t, {"set"}) => Body[t][i].flag \notin {"flag1", "flag2"}

(* The flags of example-small.c are never set both: each thread resets the *)
(* other's before it sets its own.                                         *)
FlagsAlternate == ~(flag["flag1"] = 1 /\ flag["flag2"] = 1)

(* "Two protothreads that wait for each other to toggle a variable"        *)
(* (example-small.c lines 1 to 5) never wait for each other for good.      *)
BothKeepRunning == []<>(flag["flag1"] = 1) /\ []<>(flag["flag2"] = 1)
=============================================================================
