------------------------- MODULE BoundedBufferProofs ------------------------
(***************************************************************************)
(* What BoundedBuffer guarantees for buffers of any size: why one pointer  *)
(* is enough for the two threads.  The producer does not return before it  *)
(* has filled the buffer, or has handled its last item, and neither does   *)
(* the consumer before it has emptied it.  So the pointer is back at the   *)
(* first place whenever they take turns, provided that the last batch is   *)
(* a full one, as the 32 items and 8 places of example-buffer.c have it.   *)
(***************************************************************************)
EXTENDS BoundedBuffer, SequenceTheorems, TLAPS

(* The batches are full ones. *)
FullBatches == NUM_ITEMS % BUFSIZE = 0

(* There is more than one of them, and an int does not overflow. *)
NoOverflow == BUFSIZE < NUM_ITEMS /\ NUM_ITEMS < Values

(* A thread is between its wait and its signal. *)
InHand == IF at \in {"transfer", "signal"} THEN 1 ELSE 0

(* The items in the buffer, and the place of the first. *)
Queued ==
  IF \/ running = "producer" /\ at = "signal"
     \/ running = "consumer" /\ at = "transfer"
  THEN sem["empty"] + 1 ELSE sem["empty"]
Lowest == IF running = "producer" THEN 0 ELSE BUFSIZE - Queued

(* The semaphores count the free places and the items, but for the one in  *)
(* hand; whoever waits finds the buffer full or empty.                     *)
Balance ==
  /\ sem["full"] + sem["empty"] + InHand = BUFSIZE
  /\ InHand = 1 => running \in Threads
  /\ at = "resume" => sem["empty"] \in {0, BUFSIZE}
  /\ running \in {"driver", "stopped"} => at = "resume"

(* The pointer is at the next free place for the producer and at the first *)
(* item for the consumer.                                                  *)
Around(n) == IF n = BUFSIZE THEN 0 ELSE n
Pointer == bufptr = Around(IF running = "producer" THEN Queued ELSE Lowest)

(* The items in the buffer follow each other, the first is the one due.    *)
Contents ==
  /\ Queued = 0 => item = taken
  /\ Queued > 0 => /\ buffer[Lowest] = taken
                   /\ item = Succ(buffer[Lowest + Queued - 1])
  /\ \A j \in Lowest .. Lowest + Queued - 2 : buffer[j + 1] = Succ(buffer[j])

(* Where a thread is with respect to its loop. *)
Looping ==
  \A t \in Threads :
    IF running = t /\ at # "resume"
    THEN IF at = "loop"
         THEN /\ lc[t] = "begin" => count[t] = 0
              /\ count[t] = 0 \/ sem[Signals(t)] > 0
         ELSE lc[t] = "wait" /\ count[t] < NUM_ITEMS
    ELSE IF lc[t] = "begin" THEN count[t] \in {0, NUM_ITEMS}
                            ELSE count[t] < NUM_ITEMS

(* The rounds of its loop that a thread has behind it when it goes on. *)
Done(t) == IF lc[t] = "begin" THEN 0 ELSE count[t]
Batches(n) == n \in Nat /\ n % BUFSIZE = 0

(* The producer is ahead of the consumer by the items in the buffer. *)
Ahead ==
  /\ running = "producer" =>
       /\ Batches(Done("consumer"))
       /\ at = "resume" =>
            sem["empty"] = 0 /\ Done("producer") = Done("consumer")
       /\ at # "resume" =>
            count["producer"] = Done("consumer") + sem["empty"]
  /\ running = "consumer" =>
       /\ Batches(count["producer"])
       /\ count["producer"] = (IF at = "resume" THEN Done("consumer")
                               ELSE count["consumer"]) + sem["empty"] + InHand
  /\ running \in {"driver", "stopped"} =>
       IF first = "producer"
       THEN /\ sem["empty"] = 0 /\ count["producer"] = count["consumer"]
            /\ Batches(count["producer"])
       ELSE /\ sem["empty"] = BUFSIZE /\ Batches(count["producer"])
            /\ count["producer"] = Done("consumer") + BUFSIZE

BufferInv ==
  TypeOK /\ Balance /\ Pointer /\ Contents /\ Looping /\ Ahead /\ InOrder

-----------------------------------------------------------------------------
(* Division with remainder. *)
LEMMA Remainder ==
  ASSUME NEW a \in Int, NEW b \in Nat \ {0}
  PROVE  /\ a % b \in 0 .. b - 1 /\ a \div b \in Int
         /\ a = b * (a \div b) + (a % b)
OBVIOUS

LEMMA RemainderIsUnique ==
  ASSUME NEW b \in Nat \ {0}, NEW p \in Int, NEW q \in Int,
         NEW r \in 0 .. b - 1, NEW s \in 0 .. b - 1, b * p + r = b * q + s
  PROVE  r = s
<1>1. CASE p < q
  <2>1. q - p >= 1 /\ b * (q - p) = r - s
    BY <1>1
  <2>2. b * (q - p) >= b
    BY <2>1
  <2> QED BY <2>1, <2>2
<1>2. CASE p > q
  <2>1. p - q >= 1 /\ b * (p - q) = s - r
    BY <1>2
  <2>2. b * (p - q) >= b
    BY <2>1
  <2> QED BY <2>1, <2>2
<1> QED BY <1>1, <1>2

LEMMA NextRemainder ==
  ASSUME NEW b \in Nat \ {0}, NEW a \in Nat
  PROVE  (a + 1) % b = IF (a % b) + 1 = b THEN 0 ELSE (a % b) + 1
<1> DEFINE q == a \div b
           r == a % b
           p == (a + 1) \div b
           s == (a + 1) % b
<1>1. q \in Int /\ r \in 0 .. b - 1 /\ a = b * q + r
  BY Remainder
<1>2. p \in Int /\ s \in 0 .. b - 1 /\ a + 1 = b * p + s
  BY Remainder
<1> HIDE DEF q, r, p, s
<1>3. CASE r + 1 = b
  <2>1. b * p + s = b * (q + 1) + 0
    BY <1>1, <1>2, <1>3
  <2>2. s = 0
    BY <1>1, <1>2, <2>1, RemainderIsUnique
  <2> QED BY <1>3, <2>2 DEF r, s
<1>4. CASE r + 1 # b
  <2>1. b * p + s = b * q + (r + 1) /\ r + 1 \in 0 .. b - 1
    BY <1>1, <1>2, <1>4
  <2>2. s = r + 1
    BY <1>1, <1>2, <2>1, RemainderIsUnique
  <2> QED BY <1>4, <2>2 DEF r, s
<1> QED BY <1>3, <1>4

(* From one multiple to the next. *)
LEMMA NextMultiple ==
  ASSUME NEW b \in Nat \ {0}, NEW a \in Nat, a % b = 0
  PROVE  (a + b) % b = 0
<1> DEFINE q == a \div b
           p == (a + b) \div b
           s == (a + b) % b
<1>1. q \in Int /\ a = b * q + 0
  BY Remainder
<1>2. p \in Int /\ s \in 0 .. b - 1 /\ a + b = b * p + s
  <2>1. a + b \in Int
    OBVIOUS
  <2> QED BY <2>1, Remainder
<1> HIDE DEF q, p, s
<1>3. b * p + s = b * (q + 1) + 0
  BY <1>1, <1>2
<1>4. s = 0
  BY <1>1, <1>2, <1>3, RemainderIsUnique
<1> QED BY <1>4 DEF s

(* No multiple lies between two. *)
LEMMA MultiplesApart ==
  ASSUME NEW b \in Nat \ {0}, NEW a \in Nat, NEW d \in 1 .. b,
         a % b = 0, (a + d) % b = 0
  PROVE  d = b
<1> SUFFICES ASSUME d # b PROVE FALSE
  OBVIOUS
<1> DEFINE q == a \div b
           p == (a + d) \div b
<1>1. q \in Int /\ a = b * q + 0
  BY Remainder
<1>2. p \in Int /\ a + d = b * p + 0
  <2>1. a + d \in Int
    OBVIOUS
  <2> QED BY <2>1, Remainder
<1> HIDE DEF q, p
<1>3. b * q + d = b * p + 0 /\ d \in 0 .. b - 1
  BY <1>1, <1>2
<1>4. d = 0
  BY <1>1, <1>2, <1>3, RemainderIsUnique
<1> QED BY <1>4

(* The steps of a counter that starts over. *)
LEMMA NextOf ==
  ASSUME NEW b \in Nat \ {0}, NEW a \in 0 .. b - 1
  PROVE  (a + 1) % b = IF a + 1 = b THEN 0 ELSE a + 1
OBVIOUS

LEMMA Constants ==
  /\ NUM_ITEMS \in Nat \ {0} /\ BUFSIZE \in Nat \ {0}
  /\ Values \in Nat \ {0} /\ BUFSIZE < Values
  /\ \A n \in Items : Succ(n) \in Items
BY BufferSizes, ValuesSuffice DEF Items, Succ

LEMMA BufferInit == Init => BufferInv
<1> SUFFICES ASSUME Init PROVE BufferInv
  OBVIOUS
<1> USE Constants DEF Init, Threads
<1>1. TypeOK
  BY DEF TypeOK, Places, Items, Returns
<1>2. Balance /\ Pointer
  BY DEF Balance, Pointer, Around, Lowest, Queued, InHand
<1>3. Contents
  BY DEF Contents, Queued, Lowest
<1>4. Looping
  BY DEF Looping
<1>5. Ahead
  BY DEF Ahead, Done, Batches, InHand
<1>6. InOrder
  BY DEF InOrder, Succ
<1> QED BY <1>1, <1>2, <1>3, <1>4, <1>5, <1>6 DEF BufferInv

LEMMA ResumeKeeps ==
  ASSUME BufferInv, NEW t \in Threads, Resume(t)
  PROVE  BufferInv'
<1> USE Constants DEF BufferInv, TypeOK, Threads, Resume, Executing, bufferVars
<1>1. TypeOK'
  OBVIOUS
<1>2. Balance' /\ Pointer' /\ Contents'
  BY DEF Balance, Pointer, Contents, Around, Lowest, Queued, InHand, Succ
<1>3. Looping'
  BY DEF Looping, Signals
<1>4. Ahead'
  <2>1. count'[t] = Done(t) /\ at' \in {"loop", "wait"} /\ InHand = 0 /\ InHand' = 0
    BY DEF Done, InHand
  <2>2. CASE t = "producer"
    <3>1. Done("consumer")' = Done("consumer")
      BY <2>2 DEF Done
    <3>2. count'["producer"] = Done("consumer") + sem["empty"]
      BY <2>1, <2>2 DEF Ahead, Done
    <3> QED BY <2>1, <2>2, <3>1, <3>2 DEF Ahead
  <2>3. CASE t = "consumer"
    <3>1. count["producer"] = count'["consumer"] + sem["empty"]
      BY <2>1, <2>3 DEF Ahead
    <3> QED BY <2>1, <2>3, <3>1 DEF Ahead
  <2> QED BY <2>2, <2>3
<1>5. InOrder'
  BY DEF InOrder, Succ
<1> QED BY <1>1, <1>2, <1>3, <1>4, <1>5

(* Whoever ends has filled the buffer, or emptied it. *)
LEMMA EndOfBatch ==
  ASSUME BufferInv, FullBatches, NEW t \in Threads, Executing(t, "loop"),
         count[t] = NUM_ITEMS
  PROVE  /\ sem[WaitsFor(t)] = 0 /\ sem[Signals(t)] = BUFSIZE
         /\ count["producer"] = NUM_ITEMS
<1> USE Constants DEF BufferInv, TypeOK, Threads, Executing
<1>1. /\ InHand = 0 /\ sem["full"] + sem["empty"] = BUFSIZE
      /\ sem["full"] \in 0 .. BUFSIZE /\ sem["empty"] \in 0 .. BUFSIZE
  BY DEF Balance, InHand
<1>2. CASE t = "producer"
  <2>1. sem["empty"] \in 1 .. BUFSIZE
    BY <1>1, <1>2 DEF Looping, Signals
  <2>2. NUM_ITEMS = Done("consumer") + sem["empty"] /\ Batches(Done("consumer"))
    BY <1>2 DEF Ahead
  <2>3. sem["empty"] = BUFSIZE
    BY <2>1, <2>2, MultiplesApart DEF Batches, FullBatches
  <2> QED BY <1>1, <1>2, <2>3 DEF WaitsFor, Signals
<1>3. CASE t = "consumer"
  <2>1. count["producer"] = NUM_ITEMS + sem["empty"] /\ count["producer"] <= NUM_ITEMS
    BY <1>1, <1>3 DEF Ahead
  <2>2. sem["empty"] = 0 /\ count["producer"] = NUM_ITEMS
    BY <1>1, <2>1
  <2> QED BY <1>1, <1>3, <2>2 DEF WaitsFor, Signals
<1> QED BY <1>2, <1>3

LEMMA LoopKeeps ==
  ASSUME BufferInv, FullBatches, NEW t \in Threads, Loop(t)
  PROVE  BufferInv'
<1> USE Constants DEF BufferInv, TypeOK, Threads
<1>1. /\ running = t /\ at = "loop" /\ at' \in {"wait", "resume"}
      /\ UNCHANGED <<buffer, bufptr, item, first, taken, received, count, sem>>
      /\ InHand = 0 /\ InHand' = 0
  BY DEF Loop, Executing, Return, bufferVars, InHand
<1>2. CASE count[t] < NUM_ITEMS
  <2>1. /\ lc' = [lc EXCEPT ![t] = "wait"] /\ at' = "wait"
        /\ UNCHANGED <<running, returned>>
    BY <1>2 DEF Loop
  <2>2. TypeOK' /\ InOrder'
    BY <1>1, <2>1 DEF InOrder, Succ
  <2>3. Balance' /\ Pointer' /\ Contents'
    BY <1>1, <2>1
       DEF Balance, Pointer, Contents, Around, Lowest, Queued, Succ
  <2>4. Looping'
    BY <1>1, <1>2, <2>1 DEF Looping
  <2>5. Ahead'
    <3>1. t = "producer" => Done("consumer")' = Done("consumer")
      BY <1>1, <2>1 DEF Done
    <3> QED BY <1>1, <2>1, <3>1 DEF Ahead
  <2> QED BY <2>2, <2>3, <2>4, <2>5
<1>3. CASE count[t] = NUM_ITEMS
  <2>1. /\ lc' = [lc EXCEPT ![t] = "begin"] /\ at' = "resume"
        /\ returned' = [returned EXCEPT ![t] = PT_ENDED]
        /\ running' = IF t = first THEN Second ELSE "driver"
    BY <1>3 DEF Loop, Return
  <2>2. /\ sem[WaitsFor(t)] = 0 /\ sem[Signals(t)] = BUFSIZE
        /\ count["producer"] = NUM_ITEMS
    BY <1>1, <1>3, EndOfBatch DEF Executing
  <2>3. TypeOK' /\ InOrder'
    BY <1>1, <2>1 DEF InOrder, Succ, Second, Returns
  <2>4. Balance' /\ Pointer' /\ Contents'
    BY <1>1, <2>1, <2>2
       DEF Balance, Pointer, Contents, Around, Lowest, Queued, Succ, Second,
           WaitsFor, Signals
  <2>5. Looping'
    BY <1>1, <1>3, <2>1 DEF Looping, Second
  <2>6. Ahead'
    BY <1>1, <1>3, <2>1, <2>2
       DEF Ahead, Looping, Second, Done, Batches, FullBatches, WaitsFor, Signals
  <2> QED BY <2>3, <2>4, <2>5, <2>6
<1> QED BY <1>1, <1>2, <1>3

LEMMA WaitKeeps ==
  ASSUME BufferInv, NEW t \in Threads, PT_SEM_WAIT(t)
  PROVE  BufferInv'
<1> USE Constants DEF BufferInv, TypeOK, Threads
<1>1. /\ running = t /\ at = "wait" /\ at' \in {"transfer", "resume"}
      /\ UNCHANGED <<buffer, bufptr, item, first, taken, received, count, lc>>
      /\ InHand = 0 /\ lc[t] = "wait" /\ count[t] < NUM_ITEMS
      /\ sem["full"] + sem["empty"] = BUFSIZE
  BY DEF PT_SEM_WAIT, Executing, Return, bufferVars, InHand, Looping, Balance
<1>2. CASE sem[WaitsFor(t)] > 0
  <2>1. /\ sem' = [sem EXCEPT ![WaitsFor(t)] = @ - 1] /\ at' = "transfer"
        /\ UNCHANGED <<running, returned>> /\ InHand' = 1
    BY <1>2 DEF PT_SEM_WAIT, InHand
  <2>2. TypeOK' /\ InOrder'
    BY <1>1, <1>2, <2>1 DEF InOrder, Succ, WaitsFor
  <2>3. Queued' = Queued /\ Lowest' = Lowest
    BY <1>1, <2>1 DEF Queued, Lowest, WaitsFor
  <2>4. Balance' /\ Pointer' /\ Contents'
    BY <1>1, <1>2, <2>1, <2>3
       DEF Balance, Pointer, Contents, Around, WaitsFor, Succ
  <2>5. Looping'
    BY <1>1, <2>1 DEF Looping
  <2>6. Ahead'
    BY <1>1, <2>1 DEF Ahead, Done, WaitsFor
  <2> QED BY <2>2, <2>4, <2>5, <2>6
<1>3. CASE sem[WaitsFor(t)] = 0
  <2>1. /\ at' = "resume" /\ UNCHANGED sem /\ InHand' = 0
        /\ returned' = [returned EXCEPT ![t] = PT_WAITING]
        /\ running' = IF t = first THEN Second ELSE "driver"
    BY <1>3 DEF PT_SEM_WAIT, Return, InHand
  <2>2. sem[Signals(t)] = BUFSIZE
    BY <1>1, <1>3 DEF WaitsFor, Signals
  <2>3. TypeOK' /\ InOrder'
    BY <1>1, <2>1 DEF InOrder, Succ, Second, Returns
  <2>4. Balance' /\ Pointer' /\ Contents'
    BY <1>1, <1>3, <2>1, <2>2
       DEF Balance, Pointer, Contents, Around, Lowest, Queued, Succ, Second,
           WaitsFor, Signals
  <2>5. Looping'
    BY <1>1, <2>1 DEF Looping, Second
  <2>6. Ahead'
    <3>1. CASE t = "producer"
      <4>1. /\ count["producer"] = Done("consumer") + BUFSIZE
            /\ Batches(Done("consumer"))
        BY <1>1, <2>2, <3>1 DEF Ahead, Signals
      <4>2. Batches(count["producer"])
        BY <4>1, NextMultiple DEF Batches
      <4> QED BY <1>1, <2>1, <2>2, <3>1, <4>1, <4>2
              DEF Ahead, Done, Second, Signals
    <3>2. CASE t = "consumer"
      <4>1. count["producer"] = count["consumer"] /\ Batches(count["producer"])
        BY <1>1, <1>3, <3>2 DEF Ahead, WaitsFor
      <4>2. Done("consumer") = count["consumer"]
        BY <1>1, <3>2 DEF Done
      <4>3. Done("producer") = count["producer"]
        BY <1>1, <3>2, <4>1 DEF Done, Looping
      <4> QED BY <1>1, <1>3, <2>1, <3>2, <4>1, <4>2, <4>3
              DEF Ahead, Done, Second, WaitsFor
    <3> QED BY <3>1, <3>2
  <2> QED BY <2>3, <2>4, <2>5, <2>6
<1> QED BY <1>2, <1>3 DEF WaitsFor

LEMMA ProduceKeeps == BufferInv /\ Produce => BufferInv'
<1> SUFFICES ASSUME BufferInv, Produce PROVE BufferInv'
  OBVIOUS
<1> USE Constants DEF BufferInv, TypeOK, Threads
<1> DEFINE n == sem["empty"]
<1>1. /\ running = "producer" /\ at = "transfer" /\ at' = "signal"
      /\ UNCHANGED <<count, sem, lc, running, returned, first, taken, received>>
      /\ InHand = 1 /\ InHand' = 1 /\ Queued = n /\ Queued' = n + 1
      /\ Lowest = 0 /\ Lowest' = 0
      /\ buffer' = [buffer EXCEPT ![bufptr] = item] /\ item' = Succ(item)
  BY DEF Produce, Executing, InHand, Queued, Lowest
<1>2. n \in 0 .. BUFSIZE - 1 /\ bufptr = n
  BY <1>1 DEF Balance, Pointer, Around
<1>3. bufptr' = Around(n + 1) /\ bufptr' \in Places
  BY <1>2, NextOf DEF Produce, Advance, Around, Places
<1>4. TypeOK' /\ InOrder'
  BY <1>1, <1>3 DEF InOrder, Succ
<1>5. Balance' /\ Pointer'
  BY <1>1, <1>3 DEF Balance, Pointer, Around
<1>6. Contents'
  <2>1. buffer'[n] = item /\ \A k \in 0 .. n - 1 : buffer'[k] = buffer[k]
    BY <1>1, <1>2 DEF Places
  <2>2. /\ n = 0 => item = taken
        /\ n > 0 => buffer[0] = taken /\ item = Succ(buffer[n - 1])
        /\ \A j \in 0 .. n - 2 : buffer[j + 1] = Succ(buffer[j])
    BY <1>1, <1>2 DEF Contents
  <2>3. buffer'[0] = taken
    BY <1>2, <2>1, <2>2
  <2>4. ASSUME NEW j \in 0 .. n - 1
        PROVE  buffer'[j + 1] = Succ(buffer'[j])
    <3>1. CASE j = n - 1
      BY <1>2, <2>1, <2>2, <3>1
    <3>2. CASE j < n - 1
      BY <1>2, <2>1, <2>2, <3>2
    <3> QED BY <1>2, <3>1, <3>2
  <2>5. Queued' > 0 /\ Lowest' + Queued' - 1 = n /\ Lowest' + Queued' - 2 = n - 1
    BY <1>1, <1>2
  <2> QED BY <1>1, <1>2, <2>1, <2>3, <2>4, <2>5 DEF Contents
<1>7. Looping'
  BY <1>1 DEF Looping
<1>8. Ahead'
  BY <1>1 DEF Ahead, Done
<1> QED BY <1>4, <1>5, <1>6, <1>7, <1>8

LEMMA ConsumeKeeps == BufferInv /\ Consume => BufferInv'
<1> SUFFICES ASSUME BufferInv, Consume PROVE BufferInv'
  OBVIOUS
<1> USE Constants DEF BufferInv, TypeOK, Threads
<1> DEFINE n == sem["empty"]
<1>1. /\ running = "consumer" /\ at = "transfer" /\ at' = "signal"
      /\ UNCHANGED <<buffer, item, count, sem, lc, running, returned, first>>
      /\ InHand = 1 /\ InHand' = 1 /\ Queued = n + 1 /\ Queued' = n
      /\ Lowest = BUFSIZE - n - 1 /\ Lowest' = BUFSIZE - n
      /\ received' = buffer[bufptr] /\ taken' = Succ(taken)
  BY DEF Consume, Executing, InHand, Queued, Lowest
<1>2. n \in 0 .. BUFSIZE - 1 /\ bufptr = Lowest
  BY <1>1 DEF Balance, Pointer, Around
<1>3. bufptr' = Around(Lowest + 1) /\ bufptr' \in Places
  <2>1. /\ Lowest \in 0 .. BUFSIZE - 1 /\ bufptr' = (Lowest + 1) % BUFSIZE
        /\ Lowest = BUFSIZE - n - 1
    BY <1>1, <1>2 DEF Consume, Advance
  <2> HIDE DEF n
  <2>2. bufptr' = IF Lowest + 1 = BUFSIZE THEN 0 ELSE Lowest + 1
    BY <2>1, NextOf
  <2> QED BY <2>1, <2>2 DEF Around, Places
<1>4. received' = taken
  BY <1>1, <1>2 DEF Contents
<1>5. TypeOK' /\ InOrder'
  BY <1>1, <1>3, <1>4 DEF InOrder, Succ
<1>6. Balance' /\ Pointer'
  BY <1>1, <1>2, <1>3 DEF Balance, Pointer, Around
<1>7. Contents'
  <2>1. /\ buffer[Lowest] = taken /\ item = Succ(buffer[BUFSIZE - 1])
        /\ \A j \in BUFSIZE - n - 1 .. BUFSIZE - 2 : buffer[j + 1] = Succ(buffer[j])
    BY <1>1, <1>2 DEF Contents
  <2>2. n = 0 => item = taken'
    BY <1>1, <2>1
  <2>3. n > 0 => buffer[BUFSIZE - n] = taken'
    BY <1>1, <1>2, <2>1
  <2> QED BY <1>1, <1>2, <2>1, <2>2, <2>3 DEF Contents
<1>8. Looping'
  BY <1>1 DEF Looping
<1>9. Ahead'
  BY <1>1 DEF Ahead, Done
<1> QED BY <1>5, <1>6, <1>7, <1>8, <1>9

LEMMA SignalKeeps ==
  ASSUME BufferInv, NEW t \in Threads, Signal(t)
  PROVE  BufferInv'
<1> USE Constants DEF BufferInv, TypeOK, Threads
<1>1. /\ running = t /\ at = "signal" /\ at' = "loop"
      /\ UNCHANGED <<buffer, bufptr, item, first, taken, received, lc, running,
                     returned>>
      /\ InHand = 1 /\ InHand' = 0
      /\ sem' = [sem EXCEPT ![Signals(t)] = @ + 1]
      /\ count' = [count EXCEPT ![t] = @ + 1]
      /\ lc[t] = "wait" /\ count[t] < NUM_ITEMS
      /\ sem["full"] + sem["empty"] + 1 = BUFSIZE
  BY DEF Signal, Executing, bufferVars, InHand, Looping, Balance
<1>2. Queued' = Queued /\ Lowest' = Lowest
  BY <1>1 DEF Queued, Lowest, Signals
<1>3. TypeOK' /\ InOrder'
  BY <1>1 DEF InOrder, Succ, Signals
<1>4. Balance' /\ Pointer' /\ Contents'
  BY <1>1, <1>2 DEF Balance, Pointer, Contents, Around, Signals, Succ
<1>5. Looping'
  BY <1>1 DEF Looping, Signals
<1>6. Ahead'
  BY <1>1 DEF Ahead, Done, Signals
<1> QED BY <1>3, <1>4, <1>5, <1>6

LEMMA DriveKeeps == BufferInv /\ Drive => BufferInv'
<1> SUFFICES ASSUME BufferInv, Drive PROVE BufferInv'
  OBVIOUS
<1> USE Constants DEF BufferInv, TypeOK, Threads
<1>1. /\ running = "driver" /\ running' \in {first, "stopped"}
      /\ UNCHANGED <<buffer, bufptr, item, first, taken, received, count, sem,
                     lc, at, returned>>
      /\ at = "resume" /\ InHand = 0 /\ InHand' = 0
  BY DEF Drive, bufferVars, InHand, Balance
<1>2. TypeOK' /\ InOrder'
  BY <1>1 DEF InOrder, Succ
<1>3. sem["empty"] = IF first = "producer" THEN 0 ELSE BUFSIZE
  BY <1>1 DEF Ahead
<1>4. Balance' /\ Pointer' /\ Contents'
  BY <1>1, <1>3
     DEF Balance, Pointer, Contents, Around, Lowest, Queued, Succ
<1>5. Looping'
  BY <1>1 DEF Looping
<1>6. Ahead'
  BY <1>1, <1>3 DEF Ahead, Done, Looping, Batches
<1> QED BY <1>2, <1>4, <1>5, <1>6

LEMMA BufferStep == BufferInv /\ FullBatches /\ [Next]_vars => BufferInv'
<1> SUFFICES ASSUME BufferInv, FullBatches, [Next]_vars PROVE BufferInv'
  OBVIOUS
<1>1. CASE \E t \in Threads : Resume(t) \/ Loop(t) \/ PT_SEM_WAIT(t) \/ Signal(t)
  BY <1>1, ResumeKeeps, LoopKeeps, WaitKeeps, SignalKeeps
<1>2. CASE Produce
  BY <1>2, ProduceKeeps
<1>3. CASE Consume
  BY <1>3, ConsumeKeeps
<1>4. CASE Drive
  BY <1>4, DriveKeeps
<1>5. CASE UNCHANGED vars
  BY <1>5 DEF vars, BufferInv, TypeOK, Balance, Pointer, Contents, Looping,
              Ahead, InOrder, Around, Lowest, Queued, InHand, Done, Succ
<1> QED BY <1>1, <1>2, <1>3, <1>4, <1>5 DEF Next

THEOREM BufferInvHolds == ASSUME FullBatches PROVE Spec => []BufferInv
BY FullBatches, BufferInit, BufferStep, PTL DEF Spec

(* The variables have their types: no semaphore counts more than there are *)
(* places, and the pointer stays within the buffer.                        *)
THEOREM TypeCorrect == ASSUME FullBatches PROVE Spec => []TypeOK
BY FullBatches, BufferInvHolds, PTL DEF BufferInv

(* The consumer always finds the item that is due at the one pointer that  *)
(* it shares with the producer.                                            *)
THEOREM ItemsInOrder == ASSUME FullBatches PROVE Spec => []InOrder
BY FullBatches, BufferInvHolds, PTL DEF BufferInv

-----------------------------------------------------------------------------
(* What a thread has returned in this evaluation of the driver tells       *)
(* whether it has ended.                                                   *)
HasReturned(t) == running \in {"driver", "stopped"} \/ (t = first /\ running # t)
Told ==
  /\ \A t \in Threads : HasReturned(t) =>
       /\ returned[t] \in {PT_WAITING, PT_ENDED}
       /\ returned[t] = PT_ENDED <=> lc[t] = "begin"
       /\ returned[t] = PT_ENDED => count[t] = NUM_ITEMS
  /\ running = "stopped" => \A t \in Threads : returned[t] = PT_ENDED

(* If the producer is called first, no thread starts over, and the history *)
(* counts the rounds.  If the consumer is, the driver never ends.          *)
Signalling(t) == IF running = t /\ at = "signal" THEN 1 ELSE 0
Once ==
  IF first = "producer"
  THEN /\ item = count["producer"] + Signalling("producer")
       /\ taken = count["consumer"] + Signalling("consumer")
       /\ \A t \in Threads :
            ~HasReturned(t) /\ lc[t] = "begin" => count[t] = 0
  ELSE running # "stopped"

LEMMA OnceInit == Init => Told /\ Once
BY DEF Init, Threads, Told, Once, HasReturned, Signalling

LEMMA ToldStep == BufferInv /\ Told /\ [Next]_vars => Told'
<1> SUFFICES ASSUME BufferInv, Told, [Next]_vars PROVE Told'
  OBVIOUS
<1> USE DEF BufferInv, TypeOK, Threads, Told, HasReturned
<1>1. ASSUME NEW t \in Threads, Resume(t) PROVE Told'
  BY <1>1 DEF Resume, Executing, bufferVars
<1>2. ASSUME NEW t \in Threads, Loop(t) PROVE Told'
  BY <1>2, Constants DEF Loop, Return, Second, Executing, bufferVars
<1>3. ASSUME NEW t \in Threads, PT_SEM_WAIT(t) PROVE Told'
  <2>1. lc[t] = "wait"
    BY <1>3 DEF PT_SEM_WAIT, Executing, Looping
  <2> QED BY <1>3, <2>1 DEF PT_SEM_WAIT, Return, Second, Executing, bufferVars,
                            PT_WAITING, PT_ENDED
<1>4. ASSUME NEW t \in Threads, Signal(t) PROVE Told'
  BY <1>4 DEF Signal, Executing, bufferVars
<1>5. CASE Produce
  BY <1>5 DEF Produce, Executing
<1>6. CASE Consume
  BY <1>6 DEF Consume, Executing
<1>7. CASE Drive
  BY <1>7 DEF Drive, bufferVars, And, PT_SCHEDULE, PT_EXITED, PT_WAITING,
              PT_ENDED
<1>8. CASE UNCHANGED vars
  BY <1>8 DEF vars
<1> QED BY <1>1, <1>2, <1>3, <1>4, <1>5, <1>6, <1>7, <1>8 DEF Next

LEMMA OnceStep ==
  BufferInv /\ Told /\ Once /\ FullBatches /\ NoOverflow /\ [Next]_vars => Once'
<1> SUFFICES ASSUME BufferInv, Told, Once, FullBatches, NoOverflow, [Next]_vars
             PROVE  Once'
  OBVIOUS
<1> USE Constants DEF BufferInv, TypeOK, Threads, HasReturned, Signalling
<1>1. ASSUME NEW t \in Threads, Resume(t) PROVE Once'
  BY <1>1 DEF Once, Resume, Executing, bufferVars
<1>2. ASSUME NEW t \in Threads, Loop(t) PROVE Once'
  BY <1>2 DEF Once, Loop, Return, Second, Executing, bufferVars
<1>3. ASSUME NEW t \in Threads, PT_SEM_WAIT(t) PROVE Once'
  BY <1>3 DEF Once, PT_SEM_WAIT, Return, Second, Executing, bufferVars
<1>4. ASSUME NEW t \in Threads, Signal(t) PROVE Once'
  BY <1>4 DEF Once, Signal, Executing, bufferVars, Looping
<1>5. CASE Produce
  <2>1. /\ running = "producer" /\ at = "transfer" /\ at' = "signal"
        /\ UNCHANGED <<count, lc, running, first, taken>>
        /\ item' = Succ(item) /\ count["producer"] < NUM_ITEMS
    BY <1>5 DEF Produce, Executing, Looping
  <2>2. item \in 0 .. Values - 1 /\ item < NUM_ITEMS => Succ(item) = item + 1
    BY DEF NoOverflow, Succ
  <2> QED BY <2>1, <2>2 DEF Once, Items
<1>6. CASE Consume
  <2>1. /\ running = "consumer" /\ at = "transfer" /\ at' = "signal"
        /\ UNCHANGED <<count, lc, running, first, item>>
        /\ taken' = Succ(taken) /\ count["consumer"] < NUM_ITEMS
    BY <1>6 DEF Consume, Executing, Looping
  <2>2. taken \in 0 .. Values - 1 /\ taken < NUM_ITEMS => Succ(taken) = taken + 1
    BY DEF NoOverflow, Succ
  <2> QED BY <2>1, <2>2 DEF Once, Items
<1>7. CASE Drive
  <2>1. /\ running = "driver" /\ UNCHANGED <<item, taken, first, count, lc, at>>
        /\ running' = IF \A t \in Threads : returned[t] = PT_ENDED
                      THEN "stopped" ELSE first
    BY <1>7 DEF Drive, bufferVars, Told, And, PT_SCHEDULE, PT_EXITED, PT_WAITING,
                PT_ENDED
  <2> at = "resume"
    BY <2>1 DEF Balance
  <2>2. ASSUME NEW t \in Threads
        PROVE  returned[t] = PT_ENDED <=> lc[t] = "begin"
    BY <2>1 DEF Told
  <2>3. ASSUME NEW t \in Threads, lc[t] = "begin" PROVE count[t] = NUM_ITEMS
    BY <2>1, <2>2, <2>3 DEF Told
  <2>4. CASE first = "producer"
    <3>1. count["producer"] = count["consumer"]
      BY <2>1, <2>4 DEF Ahead
    <3>2. ASSUME NEW t \in Threads, lc[t] = "begin"
          PROVE  \A u \in Threads : lc[u] = "begin"
      <4>1. \A u \in Threads : count[u] = NUM_ITEMS
        BY <2>3, <3>1, <3>2
      <4> QED BY <2>1, <4>1 DEF Looping
    <3>3. running' # "stopped" => \A t \in Threads : lc[t] # "begin"
      BY <2>1, <2>2, <3>2
    <3> QED BY <2>1, <2>4, <3>3 DEF Once
  <2>5. CASE first = "consumer"
    <3>1. count["producer"] = Done("consumer") + BUFSIZE
      BY <2>1, <2>5 DEF Ahead
    <3>2. ~ \A t \in Threads : lc[t] = "begin"
      BY <2>3, <3>1 DEF Done, NoOverflow
    <3> QED BY <2>1, <2>2, <2>5, <3>2 DEF Once
  <2> QED BY <2>4, <2>5
<1>8. CASE UNCHANGED vars
  BY <1>8 DEF vars, Once
<1> QED BY <1>1, <1>2, <1>3, <1>4, <1>5, <1>6, <1>7, <1>8 DEF Next

(* When the driver ends, every item has been produced and consumed once.   *)
THEOREM EveryItemDelivered ==
  ASSUME FullBatches, NoOverflow PROVE Spec => []AllDelivered
<1> DEFINE Inv == BufferInv /\ Told /\ Once
<1>1. Inv /\ [Next]_vars => Inv'
  BY FullBatches, NoOverflow, BufferStep, ToldStep, OnceStep
<1>2. Init => Inv
  BY BufferInit, OnceInit
<1>3. Inv => AllDelivered
  <2> SUFFICES ASSUME Inv, running = "stopped"
               PROVE  item = NUM_ITEMS /\ taken = NUM_ITEMS
    BY DEF AllDelivered
  <2>1. first = "producer"
    BY DEF Once, BufferInv, TypeOK, Threads
  <2>2. \A t \in Threads : count[t] = NUM_ITEMS
    BY DEF Told, HasReturned
  <2> QED BY <2>1, <2>2 DEF Once, Signalling, Threads, BufferInv, TypeOK
<1> HIDE DEF Inv
<1> QED BY <1>1, <1>2, <1>3, PTL DEF Spec

-----------------------------------------------------------------------------
(* The numbers start over at the end of a batch. *)
WholeBatches == Values % BUFSIZE = 0

LEMMA PlusRemainder ==
  ASSUME NEW b \in Nat \ {0}, NEW a \in Nat, NEW j \in Nat, (a % b) + j < b
  PROVE  (a + j) % b = (a % b) + j
<1> DEFINE q == a \div b
           r == a % b
           p == (a + j) \div b
           s == (a + j) % b
<1>1. q \in Int /\ r \in 0 .. b - 1 /\ a = b * q + r
  BY Remainder
<1>2. p \in Int /\ s \in 0 .. b - 1 /\ a + j = b * p + s
  <2>1. a + j \in Int
    OBVIOUS
  <2> QED BY <2>1, Remainder
<1>3. r + j < b
  OBVIOUS
<1> HIDE DEF q, r, p, s
<1>4. b * p + s = b * q + (r + j) /\ r + j \in 0 .. b - 1
  BY <1>1, <1>2, <1>3
<1>5. s = r + j
  BY <1>1, <1>2, <1>4, RemainderIsUnique
<1> QED BY <1>5 DEF r, s

(* How the numbers of the items and the places hang together. *)
Numbered ==
  /\ item - taken \in {Queued, Queued - Values}
  /\ taken % BUFSIZE = Around(Lowest)

(* The items in the buffer, first in first out. *)
Fifo == [k \in 1 .. Queued |-> buffer[Lowest + k - 1]]

(* It is the queue of the refinement mapping. *)
Mapped == Fifo = [k \in 1 .. (item - taken) % Values |->
                    buffer[(taken + k - 1) % BUFSIZE]]

LEMMA QueueIsFifo == BufferInv /\ Numbered => Mapped
<1> SUFFICES ASSUME BufferInv, Numbered PROVE Mapped
  OBVIOUS
<1> USE Constants
<1>1. /\ Queued \in 0 .. BUFSIZE /\ taken \in 0 .. Values - 1
      /\ item \in 0 .. Values - 1 /\ Lowest \in 0 .. BUFSIZE - Queued
  BY DEF BufferInv, TypeOK, Balance, InHand, Queued, Lowest, Items
<1>2. (item - taken) % Values = Queued
  BY <1>1 DEF Numbered
<1>3. ASSUME NEW k \in 1 .. Queued
      PROVE  (taken + k - 1) % BUFSIZE = Lowest + k - 1
  <2>1. taken % BUFSIZE = Lowest
    BY <1>1 DEF Numbered, Around
  <2>2. taken \in Nat /\ k - 1 \in Nat /\ Lowest + (k - 1) < BUFSIZE
    BY <1>1
  <2>3. (taken + (k - 1)) % BUFSIZE = Lowest + (k - 1)
    BY <2>1, <2>2, PlusRemainder
  <2> QED BY <2>2, <2>3, <1>1
<1> QED BY <1>2, <1>3 DEF Fifo, Mapped

LEMMA QueueWillBeFifo == BufferInv' /\ Numbered' => Mapped'
BY QueueIsFifo, PTL

LEMMA StandsStill ==
  ASSUME BufferInv, FullBatches,
         \/ \E t \in Threads : Resume(t) \/ Loop(t) \/ PT_SEM_WAIT(t) \/ Signal(t)
         \/ Drive
  PROVE  /\ UNCHANGED <<buffer, item, taken, received>> /\ Queued' = Queued
         /\ Around(Lowest)' = Around(Lowest)
<1> USE Constants DEF BufferInv, TypeOK, Threads, Executing, bufferVars, Queued
<1>1. ASSUME NEW t \in Threads, Resume(t)
      PROVE  /\ UNCHANGED <<buffer, item, taken, received>> /\ Queued' = Queued
             /\ Lowest' = Lowest
  BY <1>1 DEF Resume, Lowest
<1>2. ASSUME NEW t \in Threads, Loop(t)
      PROVE  /\ UNCHANGED <<buffer, item, taken, received>> /\ Queued' = Queued
             /\ Around(Lowest)' = Around(Lowest)
  <2>1. CASE count[t] < NUM_ITEMS
    BY <1>2, <2>1 DEF Loop, Lowest
  <2>2. CASE count[t] = NUM_ITEMS
    <3>1. sem["empty"] = IF t = "producer" THEN BUFSIZE ELSE 0
      BY <1>2, <2>2, EndOfBatch DEF Loop, WaitsFor, Signals
    <3> QED BY <1>2, <2>2, <3>1 DEF Loop, Return, Second, Lowest, Around
  <2> QED BY <1>2, <2>1, <2>2
<1>3. ASSUME NEW t \in Threads, PT_SEM_WAIT(t)
      PROVE  /\ UNCHANGED <<buffer, item, taken, received>> /\ Queued' = Queued
             /\ Around(Lowest)' = Around(Lowest)
  <2>1. CASE sem[WaitsFor(t)] > 0
    BY <1>3, <2>1 DEF PT_SEM_WAIT, WaitsFor, Lowest, Around
  <2>2. CASE sem[WaitsFor(t)] = 0
    <3>1. sem["empty"] = IF t = "producer" THEN BUFSIZE ELSE 0
      BY <1>3, <2>2 DEF PT_SEM_WAIT, WaitsFor, Balance, InHand
    <3> QED BY <1>3, <2>2, <3>1 DEF PT_SEM_WAIT, Return, Second, Lowest, Around
  <2> QED BY <2>1, <2>2 DEF WaitsFor
<1>4. ASSUME NEW t \in Threads, Signal(t)
      PROVE  /\ UNCHANGED <<buffer, item, taken, received>> /\ Queued' = Queued
             /\ Lowest' = Lowest
  BY <1>4 DEF Signal, Signals, Lowest
<1>5. ASSUME Drive
      PROVE  /\ UNCHANGED <<buffer, item, taken, received>> /\ Queued' = Queued
             /\ Around(Lowest)' = Around(Lowest)
  <2>1. sem["empty"] = IF first = "producer" THEN 0 ELSE BUFSIZE
    BY <1>5 DEF Drive, Ahead
  <2> QED BY <1>5, <2>1 DEF Drive, Balance, Lowest, Around
<1> QED BY <1>1, <1>2, <1>3, <1>4, <1>5 DEF Around

(* An item is appended at the next free place. *)
LEMMA ProduceAppends ==
  ASSUME BufferInv, Numbered, Produce
  PROVE  /\ Numbered' /\ Queued < BUFSIZE /\ Fifo' = Append(Fifo, item)
         /\ item' = Succ(item) /\ UNCHANGED received
<1> USE Constants DEF BufferInv, TypeOK
<1> DEFINE n == sem["empty"]
<1>1. /\ running = "producer" /\ at = "transfer" /\ Queued = n /\ Queued' = n + 1
      /\ InHand = 1 /\ Lowest = 0 /\ Lowest' = 0 /\ UNCHANGED <<taken, received>>
      /\ buffer' = [buffer EXCEPT ![bufptr] = item] /\ item' = Succ(item)
  BY DEF Produce, Executing, InHand, Queued, Lowest
<1>2. n \in 0 .. BUFSIZE - 1 /\ bufptr = n
  BY <1>1 DEF Balance, Pointer, Around
<1>3. Numbered'
  <2>1. item' = IF item + 1 = Values THEN 0 ELSE item + 1
    BY <1>1, NextOf DEF Succ, Items
  <2>2. item - taken \in {n, n - Values} /\ taken % BUFSIZE = Around(0)
    BY <1>1 DEF Numbered
  <2>3. item' - taken \in {n + 1, n + 1 - Values}
    <3>1. item \in 0 .. Values - 1 /\ taken \in 0 .. Values - 1
      BY DEF Items
    <3> QED BY <1>2, <2>1, <2>2, <3>1
  <2> QED BY <1>1, <2>2, <2>3 DEF Numbered, Around
<1>4. Fifo' = Append(Fifo, item)
  <2> buffer \in [Places -> Items] /\ BUFSIZE \in Nat /\ item \in Items
    OBVIOUS
  <2> HIDE Constants DEF BufferInv, TypeOK
  <2>1. Fifo = [k \in 1 .. n |-> buffer[k - 1]]
    BY <1>1, <1>2 DEF Fifo
  <2>2. Fifo' = [k \in 1 .. n + 1 |-> buffer'[k - 1]]
    BY <1>1, <1>2 DEF Fifo
  <2>3. buffer'[n] = item /\ \A k \in 1 .. n : buffer'[k - 1] = buffer[k - 1]
    BY <1>1, <1>2 DEF Places
  <2> HIDE DEF n
  <2>4. Fifo \in Seq(Items) /\ Len(Fifo) = n
    <3>1. \A k \in 1 .. n : buffer[k - 1] \in Items
      BY <1>2 DEF Places
    <3> QED BY <1>2, <2>1, <3>1
  <2>5. /\ Append(Fifo, item) \in Seq(Items) /\ Len(Append(Fifo, item)) = n + 1
        /\ \A k \in 1 .. n : Append(Fifo, item)[k] = Fifo[k]
        /\ Append(Fifo, item)[n + 1] = item
    BY <2>4, AppendProperties
  <2>6. Fifo' \in Seq(Items) /\ Len(Fifo') = n + 1
    <3>1. \A k \in 1 .. n + 1 : buffer'[k - 1] \in Items
      <4>1. \A k \in 1 .. n : buffer[k - 1] \in Items
        BY <1>2 DEF Places
      <4>2. ASSUME NEW k \in 1 .. n + 1 PROVE buffer'[k - 1] \in Items
        <5>1. k = n + 1 \/ k \in 1 .. n
          BY <1>2
        <5>2. CASE k = n + 1
          BY <1>2, <2>3, <5>2
        <5> QED BY <2>3, <4>1, <5>1, <5>2
      <4> QED BY <4>2
    <3> QED BY <1>2, <2>2, <3>1
  <2>7. ASSUME NEW k \in 1 .. n + 1 PROVE Fifo'[k] = Append(Fifo, item)[k]
    <3>1. CASE k = n + 1
      <4>1. k - 1 = n
        BY <1>2, <3>1
      <4>2. Fifo'[k] = buffer'[n]
        BY <2>2, <4>1
      <4> QED BY <2>3, <2>5, <3>1, <4>2
    <3>2. CASE k \in 1 .. n
      BY <1>2, <2>1, <2>2, <2>3, <2>5, <3>2
    <3>3. k = n + 1 \/ k \in 1 .. n
      BY <1>2
    <3> QED BY <3>1, <3>2, <3>3
  <2> QED BY <2>5, <2>6, <2>7, SeqEqual
<1> QED BY <1>1, <1>2, <1>3, <1>4

(* The item at the head is removed. *)
LEMMA ConsumeRemoves ==
  ASSUME BufferInv, Numbered, WholeBatches, Consume
  PROVE  /\ Numbered' /\ Fifo # <<>> /\ Fifo' = Tail(Fifo)
         /\ received' = Head(Fifo) /\ UNCHANGED item
<1> USE Constants DEF BufferInv, TypeOK
<1> DEFINE n == sem["empty"]
<1>1. /\ running = "consumer" /\ at = "transfer" /\ Queued = n + 1 /\ Queued' = n
      /\ InHand = 1 /\ Lowest = BUFSIZE - n - 1 /\ Lowest' = BUFSIZE - n
      /\ UNCHANGED <<buffer, item>>
      /\ received' = buffer[bufptr] /\ taken' = Succ(taken)
  BY DEF Consume, Executing, InHand, Queued, Lowest
<1>2. n \in 0 .. BUFSIZE - 1 /\ bufptr = Lowest
  BY <1>1 DEF Balance, Pointer, Around
<1>3. Numbered'
  <2>1. taken' = IF taken + 1 = Values THEN 0 ELSE taken + 1
    BY <1>1, NextOf DEF Succ, Items
  <2>2. item - taken \in {n + 1, n + 1 - Values} /\ taken % BUFSIZE = Lowest
    BY <1>1, <1>2 DEF Numbered, Around
  <2>3. item \in 0 .. Values - 1 /\ taken \in 0 .. Values - 1
    BY DEF Items
  <2>4. item - taken' \in {n, n - Values}
    BY <1>2, <2>1, <2>2, <2>3
  <2>5. (taken + 1) % BUFSIZE = Around(Lowest + 1)
    <3>1. taken \in Nat
      BY <2>3
    <3>2. (taken + 1) % BUFSIZE =
            IF (taken % BUFSIZE) + 1 = BUFSIZE THEN 0 ELSE (taken % BUFSIZE) + 1
      BY <3>1, NextRemainder
    <3> QED BY <2>2, <3>2 DEF Around
  <2>6. taken' % BUFSIZE = Around(Lowest + 1)
    <3>1. CASE taken + 1 = Values
      BY <2>1, <2>5, <3>1 DEF WholeBatches
    <3>2. CASE taken + 1 # Values
      BY <2>1, <2>5, <3>2
    <3> QED BY <3>1, <3>2
  <2> QED BY <1>1, <1>2, <2>4, <2>6 DEF Numbered, Around
<1> buffer \in [Places -> Items] /\ BUFSIZE \in Nat
  OBVIOUS
<1> HIDE Constants DEF BufferInv, TypeOK
<1>4. Fifo = [k \in 1 .. n + 1 |-> buffer[Lowest + k - 1]]
  BY <1>1 DEF Fifo
<1>5. Fifo' = [k \in 1 .. n |-> buffer[Lowest + k]]
  BY <1>1, <1>2 DEF Fifo
<1> HIDE DEF n
<1>6. /\ \A k \in 1 .. n + 1 : Lowest + k - 1 \in Places
      /\ \A k \in 1 .. n : Lowest + k \in Places
  BY <1>1, <1>2 DEF Places
<1>7. Fifo \in Seq(Items) /\ Len(Fifo) = n + 1
  BY <1>2, <1>4, <1>6
<1>8. Fifo' \in Seq(Items) /\ Len(Fifo') = n
  BY <1>2, <1>5, <1>6
<1>9. Fifo # <<>> /\ Head(Fifo) = buffer[bufptr]
  BY <1>1, <1>2, <1>4, <1>7
<1>10. Fifo' = Tail(Fifo)
  <2>1. /\ Tail(Fifo) \in Seq(Items) /\ Len(Tail(Fifo)) = n
        /\ \A k \in 1 .. n : Tail(Fifo)[k] = Fifo[k + 1]
    BY <1>2, <1>7, <1>9, HeadTailProperties
  <2>2. \A k \in 1 .. n : Fifo'[k] = Fifo[k + 1]
    BY <1>1, <1>2, <1>4, <1>5
  <2> QED BY <1>8, <2>1, <2>2, SeqEqual
<1> QED BY <1>1, <1>3, <1>9, <1>10

LEMMA StillFifo ==
  ASSUME BufferInv, BufferInv', Numbered,
         UNCHANGED <<buffer, item, taken, received>>, Queued' = Queued,
         Around(Lowest)' = Around(Lowest)
  PROVE  Numbered' /\ Fifo' = Fifo
<1> USE Constants
<1>1. Numbered'
  BY DEF Numbered, Around
<1>2. /\ Queued \in Nat /\ Lowest \in 0 .. BUFSIZE - Queued
      /\ Lowest' \in 0 .. BUFSIZE - Queued
  BY DEF BufferInv, TypeOK, Balance, InHand, Queued, Lowest
<1>3. Queued # 0 => Lowest' = Lowest
  BY <1>2 DEF Around
<1>4. Fifo' = [k \in 1 .. Queued |-> buffer[Lowest' + k - 1]]
  BY DEF Fifo
<1>5. ASSUME NEW k \in 1 .. Queued PROVE Lowest' = Lowest
  BY <1>2, <1>3
<1> QED BY <1>1, <1>4, <1>5 DEF Fifo

(* Producer and consumer, with the one pointer that they share, implement  *)
(* a first-in first-out queue of BUFSIZE items.                            *)
THEOREM QueueImplemented ==
  ASSUME FullBatches, WholeBatches PROVE Spec => ImplementsQueue
<1> USE Constants
<1> DEFINE Inv == BufferInv /\ Numbered
           Step == Queue!Put \/ Queue!Get \/ UNCHANGED Queue!vars
<1>1. Init => Inv
  <2> SUFFICES ASSUME Init PROVE Numbered
    BY BufferInit
  <2>1. item = 0 /\ taken = 0 /\ Queued = 0 /\ Lowest \in {0, BUFSIZE}
    BY DEF Init, Queued, Lowest
  <2>2. 0 % BUFSIZE = 0
    OBVIOUS
  <2> QED BY <2>1, <2>2 DEF Numbered, Around
<1>2. Init => Queue!Init
  <2> SUFFICES ASSUME Init PROVE Queue!Init
    OBVIOUS
  <2>1. Queued = 0 /\ item = 0 /\ received = Values - 1
    BY DEF Init, Queued
  <2>2. Fifo = <<>>
    BY <2>1 DEF Fifo
  <2>3. Fifo = [k \in 1 .. (item - taken) % Values |->
                  buffer[(taken + k - 1) % BUFSIZE]]
    BY <1>1, QueueIsFifo DEF Mapped
  <2> QED BY <2>1, <2>2, <2>3 DEF Queue!Init
<1>3. ASSUME Inv, [Next]_vars PROVE Inv' /\ Step
  <2>1. BufferInv'
    BY <1>3, FullBatches, BufferStep
  <2> DEFINE Q == [k \in 1 .. (item - taken) % Values |->
                     buffer[(taken + k - 1) % BUFSIZE]]
  <2>2. Q = Fifo
    BY <1>3, QueueIsFifo DEF Mapped
  <2>3. Numbered' => Q' = Fifo'
    BY <2>1, QueueWillBeFifo DEF Mapped
  <2>4. CASE Produce
    <3>1. /\ Numbered' /\ Queued < BUFSIZE /\ Fifo' = Append(Fifo, item)
          /\ item' = Succ(item) /\ UNCHANGED received
      BY <1>3, <2>4, ProduceAppends
    <3>2. Len(Fifo) = Queued
      BY <1>3 DEF Fifo, BufferInv, TypeOK, Queued
    <3> QED BY <2>1, <2>2, <2>3, <3>1, <3>2 DEF Queue!Put, Succ
  <2>5. CASE Consume
    <3>1. /\ Numbered' /\ Fifo # <<>> /\ Fifo' = Tail(Fifo)
          /\ received' = Head(Fifo) /\ UNCHANGED item
      BY <1>3, <2>5, WholeBatches, ConsumeRemoves
    <3> QED BY <2>1, <2>2, <2>3, <3>1 DEF Queue!Get
  <2>6. ASSUME UNCHANGED <<buffer, item, taken, received>>, Queued' = Queued,
               Around(Lowest)' = Around(Lowest)
        PROVE  Inv' /\ Step
    <3>1. Numbered' /\ Fifo' = Fifo
      BY <1>3, <2>1, <2>6, StillFifo
    <3> QED BY <2>1, <2>2, <2>3, <2>6, <3>1 DEF Queue!vars
  <2>7. CASE \/ \E t \in Threads :
                  Resume(t) \/ Loop(t) \/ PT_SEM_WAIT(t) \/ Signal(t)
             \/ Drive
    BY <1>3, <2>6, <2>7, FullBatches, StandsStill
  <2>8. CASE UNCHANGED vars
    BY <2>6, <2>8 DEF vars, Queued, Around, Lowest
  <2> QED BY <1>3, <2>4, <2>5, <2>7, <2>8 DEF Next
<1> HIDE DEF Inv
<1>4. Inv /\ [Next]_vars => Inv' /\ [Queue!Put \/ Queue!Get]_Queue!vars
  BY <1>3
<1> QED BY <1>1, <1>2, <1>4, PTL DEF Spec, ImplementsQueue, Queue!Spec
=============================================================================
