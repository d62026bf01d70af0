---------------------------- MODULE BoundedBuffer ---------------------------
(***************************************************************************)
(* The producer and the consumer of example-buffer.c: two protothreads     *)
(* that a driver protothread calls in turn and that wait for each other    *)
(* with the counting semaphores of pt-sem.h.                               *)
(*                                                                         *)
(* There is one stack: a thread runs until it returns, and one action      *)
(* follows the other within an evaluation of "producer & consumer".  C     *)
(* does not say which of the two operands is evaluated first; a build      *)
(* decides for one order.                                                  *)
(***************************************************************************)
EXTENDS Protothreads

CONSTANTS NUM_ITEMS,      \* items that each thread handles before it ends
          BUFSIZE,        \* places of the buffer
          Values          \* bound: values of an int, before it starts over

ASSUME BufferSizes == NUM_ITEMS \in Nat \ {0} /\ BUFSIZE \in Nat \ {0}
ASSUME ValuesSuffice == Values \in Nat /\ Values > BUFSIZE

VARIABLES
  buffer,    \* the places
  bufptr,    \* the one place pointer, used by both threads
  item,      \* static of produce_item: the next item
  count,     \* produced and consumed, the loop counters
  sem,       \* the counts of the semaphores
  lc,        \* where each thread resumes
  running,   \* who is executing
  at,        \* where in its text
  returned,  \* what the threads returned last
  first,     \* which of them the driver calls first; it never changes
  taken,     \* history: how many items were consumed
  received   \* history: the item consumed last

vars == <<buffer, bufptr, item, count, sem, lc, running, at, returned, first,
          taken, received>>
bufferVars == <<buffer, bufptr, item, first, taken, received>>

Threads == {"producer", "consumer"}
Places == 0 .. BUFSIZE - 1
Items == 0 .. Values - 1
Succ(n) == (n + 1) % Values
Second == IF first = "consumer" THEN "producer" ELSE "consumer"

(* producer waits for a free place and signals an item, consumer the other *)
(* way round.                                                              *)
WaitsFor(t) == IF t = "producer" THEN "full" ELSE "empty"
Signals(t) == IF t = "producer" THEN "empty" ELSE "full"

(* Up to the first evaluation in the driver: semaphores and threads are    *)
(* initialised, static storage is zero.                                    *)
Init ==
  /\ buffer = [p \in Places |-> 0] /\ bufptr = 0 /\ item = 0
  /\ count = [t \in Threads |-> 0]
  /\ sem = [full |-> BUFSIZE, empty |-> 0]
  /\ lc = [t \in Threads |-> "begin"]
  /\ first \in Threads /\ running = first /\ at = "resume"
  /\ returned = [t \in Threads |-> PT_WAITING]
  /\ taken = 0 /\ received = Values - 1

Executing(t, where) == running = t /\ at = where

(* A thread returns to the driver's expression. *)
Return(t, r) ==
  /\ returned' = [returned EXCEPT ![t] = r]
  /\ running' = IF t = first THEN Second ELSE "driver"
  /\ at' = "resume"

(* Seeded fault: the loop counter is not static, and the stack is lost     *)
(* while the thread waits (the warning of pt-sem.h lines 140 to 147).       *)
BugResume(t) ==
  /\ Executing(t, "resume")
  /\ IF lc[t] = "begin"
     THEN count' = [count EXCEPT ![t] = 0] /\ at' = "loop"
     ELSE /\ \E garbage \in 0 .. NUM_ITEMS :
               count' = [count EXCEPT ![t] = garbage]
          /\ at' = "wait"
  /\ UNCHANGED <<bufferVars, sem, lc, running, returned>>

(* PT_BEGIN: the loop starts over, or goes on at its PT_SEM_WAIT. *)
Resume(t) ==
  /\ Executing(t, "resume")
  /\ IF lc[t] = "begin"
     THEN count' = [count EXCEPT ![t] = 0] /\ at' = "loop"
     ELSE at' = "wait" /\ UNCHANGED count
  /\ UNCHANGED <<bufferVars, sem, lc, running, returned>>

(* The condition of the loop; PT_END resets the continuation. *)
Loop(t) ==
  /\ Executing(t, "loop")
  /\ IF count[t] < NUM_ITEMS
     THEN /\ lc' = [lc EXCEPT ![t] = "wait"]
          /\ at' = "wait"
          /\ UNCHANGED <<running, returned>>
     ELSE /\ lc' = [lc EXCEPT ![t] = "begin"]
          /\ Return(t, PT_ENDED)
  /\ UNCHANGED <<bufferVars, count, sem>>

(* Seeded fault: a thread does not block at a count of 0. *)
BugPT_SEM_WAIT(t) ==
  /\ Executing(t, "wait")
  /\ sem' = [sem EXCEPT ![WaitsFor(t)] = IF @ > 0 THEN @ - 1 ELSE @]
  /\ at' = "transfer"
  /\ UNCHANGED <<bufferVars, count, lc, running, returned>>

PT_SEM_WAIT(t) ==
  /\ Executing(t, "wait")
  /\ IF sem[WaitsFor(t)] > 0
     THEN /\ sem' = [sem EXCEPT ![WaitsFor(t)] = @ - 1]
          /\ at' = "transfer"
          /\ UNCHANGED <<running, returned>>
     ELSE Return(t, PT_WAITING) /\ UNCHANGED sem
  /\ UNCHANGED <<bufferVars, count, lc>>

Advance == bufptr' = (bufptr + 1) % BUFSIZE

(* produce_item, then add_to_buffer. *)
Produce ==
  /\ Executing("producer", "transfer")
  /\ buffer' = [buffer EXCEPT ![bufptr] = item]
  /\ item' = Succ(item)
  /\ Advance
  /\ at' = "signal"
  /\ UNCHANGED <<count, sem, lc, running, returned, first, taken, received>>

(* Seeded fault: the place pointer is not moved. *)
BugConsume ==
  /\ Executing("consumer", "transfer")
  /\ received' = buffer[bufptr] /\ taken' = Succ(taken)
  /\ at' = "signal"
  /\ UNCHANGED <<buffer, bufptr, item, first, count, sem, lc, running, returned>>

(* get_from_buffer, then consume_item. *)
Consume ==
  /\ Executing("consumer", "transfer")
  /\ received' = buffer[bufptr] /\ taken' = Succ(taken)
  /\ Advance
  /\ at' = "signal"
  /\ UNCHANGED <<buffer, item, first, count, sem, lc, running, returned>>

(* Seeded fault: the consumer does not signal the place that it has freed. *)
BugSignal(t) ==
  /\ Executing(t, "signal")
  /\ sem' = IF t = "producer" THEN [sem EXCEPT ![Signals(t)] = @ + 1] ELSE sem
  /\ count' = [count EXCEPT ![t] = @ + 1]
  /\ at' = "loop"
  /\ UNCHANGED <<bufferVars, lc, running, returned>>

(* PT_SEM_SIGNAL, and the increment of the loop counter. *)
Signal(t) ==
  /\ Executing(t, "signal")
  /\ sem' = [sem EXCEPT ![Signals(t)] = @ + 1]
  /\ count' = [count EXCEPT ![t] = @ + 1]
  /\ at' = "loop"
  /\ UNCHANGED <<bufferVars, lc, running, returned>>

(* The & of two return values, which are 00 or 11 here. *)
And(a, b) == IF a = b THEN a ELSE 0

(* PT_WAIT_THREAD: while the conjunction of the two return values says so, *)
(* the driver waits, and main calls it again.                              *)
Drive ==
  /\ running = "driver"
  /\ running' = IF PT_SCHEDULE(And(returned["producer"], returned["consumer"]))
                THEN first ELSE "stopped"
  /\ UNCHANGED <<bufferVars, count, sem, lc, at, returned>>

Next == \/ \E t \in Threads : Resume(t) \/ Loop(t) \/ PT_SEM_WAIT(t) \/ Signal(t)
        \/ Produce \/ Consume \/ Drive

Spec == Init /\ [][Next]_vars

(* The main loop runs until the driver has ended. *)
FairSpec == Spec /\ WF_vars(Next)

-----------------------------------------------------------------------------
(* The variables have their types. *)
TypeOK ==
  /\ buffer \in [Places -> Items] /\ bufptr \in Places /\ item \in Items
  /\ count \in [Threads -> 0 .. NUM_ITEMS]
  /\ sem \in [{"full", "empty"} -> 0 .. BUFSIZE]
  /\ lc \in [Threads -> {"begin", "wait"}]
  /\ running \in Threads \cup {"driver", "stopped"}
  /\ at \in {"resume", "loop", "wait", "transfer", "signal"}
  /\ returned \in [Threads -> Returns] /\ first \in Threads
  /\ taken \in Items /\ received \in Items

(* Although the buffer has one pointer for both threads, the consumer      *)
(* always finds at it the item that is due: 0, 1, 2... (example-buffer.c   *)
(* lines 51 to 67).                                                        *)
InOrder == taken = Succ(received)

(* When the driver ends, every item has been produced and consumed once.   *)
AllDelivered == running = "stopped" => item = NUM_ITEMS /\ taken = NUM_ITEMS

(* The driver waits until its children complete (PT_WAIT_THREAD, pt.h:188) *)
(* and they do complete: the program ends, if the producer is called       *)
(* first.  If the consumer is, each thread ends in another evaluation and  *)
(* starts over while the other has not ended, for ever.                    *)
Ends == first = "producer" => <>(running = "stopped")

(* Producer and consumer implement a bounded first-in first-out queue. *)
Queue == INSTANCE BoundedQueue WITH
           Capacity <- BUFSIZE,
           queue    <- [k \in 1 .. (item - taken) % Values |->
                          buffer[(taken + k - 1) % BUFSIZE]],
           sent     <- item,
           got      <- received
ImplementsQueue == Queue!Spec
=============================================================================
