-------------------------- MODULE ProtothreadProofs -------------------------
(***************************************************************************)
(* Protothreads implement threads that block, for every program in which a *)
(* thread has at most one caller, however deep the calls are nested; and   *)
(* what follows from that for example-small.c.                             *)
(***************************************************************************)
EXTENDS MCProtothreads, SequenceTheorems, TLAPS

Innermost == stack[Len(stack)]

(* Statement i of p calls c. *)
CallsAt(p, i, c) ==
  i \in 1 .. Len(Body[p]) /\ Ops(i, p, Waits) /\ Body[p][i].thread = c

(* Whoever is on the stack has been called by the one below it, which will *)
(* resume at the statement of the call. *)
Linked ==
  /\ stack # <<>> => stack[1] \in ToSet(Roots)
  /\ \A n \in 1 .. Len(stack) - 1 : CallsAt(stack[n], lc[stack[n]], stack[n + 1])

(* A thread that was reached by LC_RESUME, or has got a result, is at its  *)
(* local continuation. *)
Resumed ==
  /\ label => stack # <<>> /\ at = lc[Innermost]
  /\ result # NONE => /\ stack # <<>> /\ at = lc[Innermost]
                      /\ Ops(at, Innermost, Waits)

PtInv == TypeOK /\ Linked /\ Resumed

-----------------------------------------------------------------------------
LEMMA FrontIs ==
  ASSUME NEW s \in Seq(Threads), s # <<>>
  PROVE  /\ Front(s) \in Seq(Threads) /\ Len(s) \in Nat \ {0}
         /\ Len(Front(s)) = Len(s) - 1
         /\ \A n \in 1 .. Len(s) - 1 : Front(s)[n] = s[n]
<1>1. Len(s) \in Nat \ {0}
  BY EmptySeq
<1> DEFINE k == Len(s) - 1
           f == SubSeq(s, 1, k)
<1>2. 1 \in 1 .. Len(s) + 1 /\ k \in 1 - 1 .. Len(s) /\ k \in Nat
  BY <1>1
<1>3. /\ f \in Seq(Threads)
      /\ Len(f) = IF 1 <= k THEN k - 1 + 1 ELSE 0
      /\ \A n \in 1 .. k - 1 + 1 : f[n] = s[1 + n - 1]
  BY <1>2, SubSeqProperties
<1>4. f = Front(s)
  BY DEF Front
<1> HIDE DEF f, k
<1>5. Len(f) = k /\ \A n \in 1 .. k : f[n] = s[n]
  <2>1. k - 1 + 1 = k /\ \A n \in 1 .. k : 1 + n - 1 = n
    BY <1>2
  <2> QED BY <1>2, <1>3, <2>1
<1> QED BY <1>1, <1>3, <1>4, <1>5 DEF k

(* The innermost thread, whichever way it is looked at. *)
LEMMA TopIs ==
  ASSUME TypeOK
  PROVE  /\ \A t : Top(t) <=> stack # <<>> /\ Innermost = t
         /\ stack # <<>> => /\ Len(stack) \in Nat \ {0} /\ Innermost \in Threads
                            /\ Innermost = stack[Len(stack)]
<1>1. stack \in Seq(Threads)
  BY DEF TypeOK
<1>2. stack # <<>> => Len(stack) \in Nat \ {0} /\ stack[Len(stack)] \in Threads
  BY <1>1, EmptySeq
<1> QED BY <1>1, <1>2 DEF Top, Innermost, Last

LEMMA CallsAtCalls ==
  ASSUME NEW p \in Threads, NEW c \in Threads, NEW i, CallsAt(p, i, c)
  PROVE  /\ Calls(p, c) /\ c \notin ToSet(Roots)
         /\ \A q \in Threads : Calls(q, c) => q = p
BY OneCaller DEF CallsAt, Calls

LEMMA StatementIs ==
  ASSUME NEW t \in Threads, NEW i \in Nat \ {0}, NEW ops, Ops(i, t, ops)
  PROVE  i \in 1 .. Len(Body[t]) /\ Len(Body[t]) \in Nat
BY StatementsAreComplete DEF Ops

LEMMA ContinuationsAre ==
  ASSUME TypeOK, NEW t \in Threads, NEW v \in 0 .. Len(Body[t]),
         lc' = [lc EXCEPT ![t] = v]
  PROVE  /\ lc' \in [Threads -> Nat]
         /\ \A u \in Threads : /\ lc'[u] <= Len(Body[u])
                             /\ lc'[u] = IF u = t THEN v ELSE lc[u]
<1>1. /\ lc \in [Threads -> Nat] /\ \A u \in Threads : lc[u] <= Len(Body[u])
      /\ Len(Body[t]) \in Nat /\ v \in Nat /\ v <= Len(Body[t])
  BY StatementsAreComplete DEF TypeOK
<1>2. lc' \in [Threads -> Nat]
  BY <1>1
<1>3. \A u \in Threads : lc'[u] = IF u = t THEN v ELSE lc[u]
  BY <1>1
<1>4. \A u \in Threads : lc'[u] <= Len(Body[u])
  BY <1>1, <1>3
<1> QED BY <1>2, <1>3, <1>4

(* The innermost thread goes on. *)
LEMMA GoToKeeps ==
  ASSUME PtInv, stack # <<>>, NEW v \in 0 .. Len(Body[Innermost]),
         lc' = [lc EXCEPT ![Innermost] = v], NEW i \in Nat \ {0}, GoTo(i),
         stack' = stack, result' = NONE, turn' = turn,
         flag' \in [Flags -> 0 .. 1], PT_YIELD_FLAG' \in [Threads -> 0 .. 1]
  PROVE  PtInv'
<1> DEFINE t == Innermost
           L == Len(stack)
<1>1. /\ L \in Nat \ {0} /\ t \in Threads /\ t = stack[L] /\ Len(Body[t]) \in Nat
      /\ stack \in Seq(Threads)
  BY TopIs, StatementsAreComplete DEF PtInv, TypeOK
<1>2. /\ lc \in [Threads -> Nat] /\ \A u \in Threads : lc[u] <= Len(Body[u])
      /\ \A m, n \in 1 .. L : stack[m] = stack[n] => m = n
  BY DEF PtInv, TypeOK
<1> HIDE DEF t
<1>3. lc' = [lc EXCEPT ![t] = v] /\ v \in 0 .. Len(Body[t])
  BY DEF t
<1>4. lc' \in [Threads -> Nat] /\ \A u \in Threads : lc'[u] <= Len(Body[u])
  BY <1>1, <1>3, ContinuationsAre DEF PtInv
<1>5. TypeOK'
  <2>1. label' \in BOOLEAN /\ at' \in Nat \ {0}
    BY DEF GoTo
  <2>2. turn' \in 1 .. Len(Roots) /\ result' \in Returns \cup {NONE}
    BY DEF PtInv, TypeOK
  <2> QED BY <1>1, <1>2, <1>4, <2>1, <2>2 DEF TypeOK
<1>6. Linked'
  <2> SUFFICES ASSUME NEW n \in 1 .. L - 1
               PROVE  CallsAt(stack[n], lc'[stack[n]], stack[n + 1])
    BY DEF Linked, PtInv
  <2>1. stack[n] # t /\ stack[n] \in Threads
    BY <1>1, <1>2
  <2>2. lc'[stack[n]] = lc[stack[n]]
    BY <1>2, <1>3, <2>1
  <2> QED BY <2>2 DEF PtInv, Linked
<1>7. Resumed'
  BY DEF Resumed, GoTo
<1> QED BY <1>5, <1>6, <1>7 DEF PtInv

(* The innermost thread returns. *)
LEMMA ReturnKeeps ==
  ASSUME PtInv, stack # <<>>, NEW v \in 0 .. Len(Body[Innermost]),
         lc' = [lc EXCEPT ![Innermost] = v], NEW r \in Returns, Return(r),
         flag' \in [Flags -> 0 .. 1], PT_YIELD_FLAG' \in [Threads -> 0 .. 1]
  PROVE  PtInv'
<1> DEFINE t == Innermost
           L == Len(stack)
           p == stack[L - 1]
<1>1. /\ L \in Nat \ {0} /\ t \in Threads /\ t = stack[L] /\ Len(Body[t]) \in Nat
      /\ stack \in Seq(Threads)
  BY TopIs, StatementsAreComplete DEF PtInv, TypeOK
<1>2. /\ lc \in [Threads -> Nat] /\ \A u \in Threads : lc[u] <= Len(Body[u])
      /\ \A m, n \in 1 .. L : stack[m] = stack[n] => m = n
  BY DEF PtInv, TypeOK
<1> HIDE DEF t
<1>3. lc' = [lc EXCEPT ![t] = v] /\ v \in 0 .. Len(Body[t])
  BY DEF t
<1>4. lc' \in [Threads -> Nat] /\ \A u \in Threads : lc'[u] <= Len(Body[u])
  BY <1>1, <1>3, ContinuationsAre DEF PtInv
<1>5. /\ stack' \in Seq(Threads) /\ Len(stack') = L - 1
      /\ \A n \in 1 .. L - 1 : stack'[n] = stack[n]
  BY <1>1, FrontIs DEF Return
<1>10. /\ L = 1 => at' = 1 /\ result' = NONE /\ turn' = (turn % Len(Roots)) + 1
       /\ L # 1 => at' = lc[p] /\ result' = r /\ turn' = turn
  BY DEF Return
<1>11. L # 1 => L > 1
  <2>1. L \in Nat \ {0}
    BY <1>1
  <2> HIDE DEF L
  <2> QED BY <2>1
<1>6. L > 1 => /\ p \in Threads /\ p # t /\ lc'[p] = lc[p]
               /\ CallsAt(p, lc[p], t)
  <2> SUFFICES ASSUME L > 1
               PROVE  p \in Threads /\ p # t /\ lc'[p] = lc[p] /\ CallsAt(p, lc[p], t)
    OBVIOUS
  <2>1. L - 1 \in 1 .. L - 1 /\ L - 1 \in 1 .. L /\ (L - 1) + 1 = L
    BY <1>1
  <2>2. p \in Threads /\ p # t
    BY <1>1, <1>2, <2>1
  <2>3. CallsAt(p, lc[p], stack[(L - 1) + 1])
    BY <2>1 DEF PtInv, Linked
  <2> QED BY <1>1, <1>2, <1>3, <2>1, <2>2, <2>3
<1>7. TypeOK'
  <2>1. label' \in BOOLEAN
    BY DEF Return
  <2>2. at' \in Nat \ {0}
    <3>1. L > 1 => lc[p] \in Nat \ {0}
      BY <1>2, <1>6 DEF CallsAt
    <3>2. CASE L = 1
      BY <1>10, <3>2
    <3>3. CASE L # 1
      <4>1. L > 1
        BY <1>11, <3>3
      <4>2. at' = lc[p]
        BY <1>10, <3>3
      <4> QED BY <3>1, <4>1, <4>2
    <3> QED BY <3>2, <3>3
  <2>3. turn' \in 1 .. Len(Roots)
    <3>1. turn \in 1 .. Len(Roots) /\ Len(Roots) \in Nat \ {0}
      BY ProgramHasRoots, EmptySeq DEF PtInv, TypeOK
    <3>2. (turn % Len(Roots)) + 1 \in 1 .. Len(Roots)
      BY <3>1
    <3> QED BY <1>10, <3>1, <3>2
  <2>4. result' \in Returns \cup {NONE}
    BY <1>10
  <2>5. ASSUME NEW m \in 1 .. L - 1, NEW n \in 1 .. L - 1, stack'[m] = stack'[n]
        PROVE  m = n
    <3>1. m \in 1 .. L /\ n \in 1 .. L
      BY <1>1
    <3>2. stack[m] = stack[n]
      BY <1>5, <2>5
    <3> QED BY <1>2, <3>1, <3>2
  <2> QED BY <1>4, <1>5, <2>1, <2>2, <2>3, <2>4, <2>5 DEF TypeOK
<1>8. Linked'
  <2>1. stack' # <<>> => stack'[1] \in ToSet(Roots)
    <3> SUFFICES ASSUME stack' # <<>> PROVE stack'[1] = stack[1]
      BY DEF PtInv, Linked
    <3>1. 1 \in 1 .. L - 1
      BY <1>1, <1>5, EmptySeq
    <3> QED BY <1>5, <3>1
  <2>2. ASSUME NEW n \in 1 .. Len(stack') - 1
        PROVE  CallsAt(stack'[n], lc'[stack'[n]], stack'[n + 1])
    <3>1. n \in 1 .. L - 1 /\ n + 1 \in 1 .. L - 1 /\ n \in 1 .. L
      BY <1>1, <1>5
    <3>2. stack'[n] = stack[n] /\ stack'[n + 1] = stack[n + 1]
      BY <1>5, <3>1
    <3>3. stack[n] # t /\ stack[n] \in Threads
      BY <1>1, <1>2, <3>1
    <3>4. lc'[stack[n]] = lc[stack[n]]
      BY <1>2, <1>3, <3>3
    <3> QED BY <3>1, <3>2, <3>4 DEF PtInv, Linked
  <2> QED BY <2>1, <2>2 DEF Linked
<1>9. Resumed'
  <2>1. ~label'
    BY DEF Return
  <2>2. ASSUME result' # NONE
        PROVE  stack' # <<>> /\ at' = lc'[Innermost'] /\ Ops(at', Innermost', Waits)
    <3>1. L > 1 /\ at' = lc[p]
      <4>1. L # 1
        BY <1>10, <2>2
      <4>2. L > 1
        BY <1>11, <4>1
      <4> QED BY <1>10, <4>1, <4>2
    <3>2. Innermost' = p /\ stack' # <<>>
      <4>1. Len(stack') = L - 1 /\ L - 1 \in 1 .. L - 1
        BY <1>1, <1>5, <3>1
      <4> QED BY <1>5, <4>1 DEF Innermost
    <3> QED BY <1>6, <3>1, <3>2 DEF CallsAt
  <2> QED BY <2>1, <2>2 DEF Resumed
<1> QED BY <1>7, <1>8, <1>9 DEF PtInv

LEMMA PushIs ==
  ASSUME NEW s \in Seq(Threads), NEW c \in Threads
  PROVE  /\ Append(s, c) \in Seq(Threads) /\ Len(s) \in Nat
         /\ Len(Append(s, c)) = Len(s) + 1 /\ Append(s, c) # <<>>
         /\ Append(s, c)[Len(s) + 1] = c
         /\ \A n \in 1 .. Len(s) : Append(s, c)[n] = s[n]
<1>1. /\ Append(s, c) \in Seq(Threads) /\ Append(s, c) # <<>>
      /\ Len(Append(s, c)) = Len(s) + 1
      /\ \A i \in 1 .. Len(s) : Append(s, c)[i] = s[i]
      /\ Append(s, c)[Len(s) + 1] = c
  BY AppendProperties
<1> QED BY <1>1

(* The main loop calls a thread. *)
LEMMA MainKeeps == PtInv /\ Main => PtInv'
<1> SUFFICES ASSUME PtInv, Main PROVE PtInv'
  OBVIOUS
<1> DEFINE c == Roots[turn]
<1>1. c \in Threads /\ c \in ToSet(Roots)
  <2>1. turn \in 1 .. Len(Roots) /\ Roots \in Seq(Threads)
    BY ProgramHasRoots DEF PtInv, TypeOK
  <2>2. turn \in DOMAIN Roots
    BY <2>1
  <2> QED BY <2>1, <2>2 DEF ToSet
<1> HIDE DEF c
<1>2. /\ stack = <<>> /\ stack' = Append(stack, c) /\ result' = NONE
      /\ UNCHANGED <<flag, lc, turn>>
      /\ PT_YIELD_FLAG' = [PT_YIELD_FLAG EXCEPT ![c] = 1]
      /\ at' = (IF lc[c] = 0 THEN 1 ELSE lc[c])
      /\ label' = (lc[c] # 0)
  BY DEF Main, PT_BEGIN, c
<1>3. stack' = <<c>> /\ stack' \in Seq(Threads) /\ Len(stack') = 1 /\ stack'[1] = c
  BY <1>1, <1>2
<1>4. TypeOK'
  <2>1. label' \in BOOLEAN
    BY <1>2
  <2>2. at' \in Nat \ {0} /\ PT_YIELD_FLAG' \in [Threads -> 0 .. 1]
    BY <1>1, <1>2 DEF PtInv, TypeOK
  <2>3. \A m, n \in 1 .. Len(stack') : stack'[m] = stack'[n] => m = n
    BY <1>3
  <2>4. result' \in Returns \cup {NONE}
    BY <1>2
  <2> QED BY <1>2, <1>3, <2>1, <2>2, <2>3, <2>4 DEF PtInv, TypeOK
<1>5. Linked'
  <2>1. stack'[1] \in ToSet(Roots)
    BY <1>1, <1>3
  <2>2. 1 .. Len(stack') - 1 = {}
    BY <1>3
  <2> QED BY <2>1, <2>2 DEF Linked
<1>6. Resumed'
  <2>1. Innermost' = c /\ stack' # <<>>
    BY <1>3 DEF Innermost
  <2> QED BY <1>2, <2>1 DEF Resumed
<1> QED BY <1>4, <1>5, <1>6 DEF PtInv

(* What a call in the condition of PT_WAIT_THREAD does, and why the child  *)
(* is not being executed already: its one caller is.                       *)
LEMMA SpawnIs ==
  ASSUME PtInv, NEW t \in Threads, PT_SPAWN(t)
  PROVE  LET c == Body[t][at].thread
             v == IF Ops(at, t, {"spawn"}) /\ ~label THEN 0 ELSE lc[c]
         IN  /\ stack # <<>> /\ t = Innermost /\ result = NONE
             /\ CallsAt(t, at, c) /\ c \in Threads /\ c # t
             /\ \A n \in 1 .. Len(stack) : stack[n] # c
             /\ v \in 0 .. Len(Body[c])
             /\ lc' \in [Threads -> Nat]
             /\ \A u \in Threads : lc'[u] = IF u = t THEN at ELSE IF u = c THEN v ELSE lc[u]
             /\ stack' = Append(stack, c) /\ result' = NONE
             /\ PT_YIELD_FLAG' = [PT_YIELD_FLAG EXCEPT ![c] = 1]
             /\ at' = (IF v = 0 THEN 1 ELSE v) /\ label' = (v # 0)
             /\ UNCHANGED <<flag, turn>>
<1> DEFINE c == Body[t][at].thread
           v == IF Ops(at, t, {"spawn"}) /\ ~label THEN 0 ELSE lc[c]
           L == Len(stack)
<1>1. /\ stack # <<>> /\ t = Innermost /\ result = NONE /\ Ops(at, t, Waits)
      /\ at \in Nat \ {0}
  BY TopIs DEF PT_SPAWN, Executing, PtInv, TypeOK, Waits
<1>2. CallsAt(t, at, c) /\ c \in Threads
  <2>1. at \in 1 .. Len(Body[t])
    BY <1>1, StatementIs
  <2> QED BY <1>1, <2>1, StatementsAreComplete DEF CallsAt
<1>3. /\ L \in Nat \ {0} /\ t = stack[L] /\ stack \in Seq(Threads)
      /\ \A m, n \in 1 .. L : stack[m] = stack[n] => m = n
  BY <1>1, TopIs DEF PtInv, TypeOK
<1>4. ASSUME NEW n \in 1 .. L, stack[n] = c PROVE FALSE
  <2>1. CASE n = 1
    <3>1. c \in ToSet(Roots)
      BY <1>1, <1>4, <2>1 DEF PtInv, Linked
    <3> QED BY <1>2, <3>1, CallsAtCalls
  <2>2. CASE n # 1
    <3>1. n - 1 \in 1 .. L - 1 /\ n - 1 \in 1 .. L /\ (n - 1) + 1 = n /\ n - 1 # L
          /\ L \in 1 .. L
      BY <1>3, <2>2
    <3>2. stack[n - 1] \in Threads
      BY <1>3, <3>1
    <3>3. CallsAt(stack[n - 1], lc[stack[n - 1]], c)
      BY <1>4, <3>1 DEF PtInv, Linked
    <3>4. stack[n - 1] = t
      BY <1>2, <3>2, <3>3, CallsAtCalls
    <3> QED BY <1>3, <3>1, <3>4
  <2> QED BY <2>1, <2>2
<1>5. c # t
  <2>1. L \in 1 .. L
    BY <1>3
  <2> QED BY <1>3, <1>4, <2>1
<1>6. /\ lc \in [Threads -> Nat] /\ lc[c] \in 0 .. Len(Body[c])
      /\ 0 \in 0 .. Len(Body[c])
  BY <1>2, StatementsAreComplete DEF PtInv, TypeOK
<1>7. /\ lc' = [lc EXCEPT ![t] = at,
                          ![c] = IF Ops(at, t, {"spawn"}) /\ ~label THEN 0 ELSE @]
      /\ PT_BEGIN(c, lc'[c]) /\ UNCHANGED <<flag, turn>>
  BY DEF PT_SPAWN, Statement
<1> HIDE DEF c
<1>8. lc' = [lc EXCEPT ![t] = at, ![c] = v]
  BY <1>2, <1>5, <1>6, <1>7
<1>9. v \in 0 .. Len(Body[c])
  BY <1>6
<1> HIDE DEF v
<1>10. /\ lc' \in [Threads -> Nat]
       /\ \A u \in Threads : lc'[u] = IF u = t THEN at ELSE IF u = c THEN v ELSE lc[u]
  <2>1. v \in Nat
    BY <1>2, <1>9, StatementsAreComplete
  <2> QED BY <1>1, <1>5, <1>6, <1>8, <2>1
<1>11. lc'[c] = v
  BY <1>2, <1>5, <1>10
<1>12. /\ stack' = Append(stack, c) /\ result' = NONE
       /\ PT_YIELD_FLAG' = [PT_YIELD_FLAG EXCEPT ![c] = 1]
       /\ at' = (IF v = 0 THEN 1 ELSE v) /\ label' = (v # 0)
  BY <1>7, <1>11 DEF PT_BEGIN
<1> QED BY <1>1, <1>2, <1>4, <1>5, <1>7, <1>9, <1>10, <1>12 DEF c, v

LEMMA SpawnKeeps ==
  ASSUME PtInv, NEW t \in Threads, PT_SPAWN(t)
  PROVE  PtInv'
<1> DEFINE c == Body[t][at].thread
           v == IF Ops(at, t, {"spawn"}) /\ ~label THEN 0 ELSE lc[c]
           L == Len(stack)
<1>1. /\ stack # <<>> /\ t = Innermost /\ result = NONE
      /\ CallsAt(t, at, c) /\ c \in Threads /\ c # t
      /\ \A n \in 1 .. L : stack[n] # c
      /\ v \in 0 .. Len(Body[c])
      /\ lc' \in [Threads -> Nat]
      /\ \A u \in Threads : lc'[u] = IF u = t THEN at ELSE IF u = c THEN v ELSE lc[u]
      /\ stack' = Append(stack, c) /\ result' = NONE
      /\ PT_YIELD_FLAG' = [PT_YIELD_FLAG EXCEPT ![c] = 1]
      /\ at' = (IF v = 0 THEN 1 ELSE v) /\ label' = (v # 0)
      /\ UNCHANGED <<flag, turn>>
  BY SpawnIs
<1> HIDE DEF c, v
<1>2. /\ L \in Nat \ {0} /\ t = stack[L] /\ stack \in Seq(Threads)
      /\ \A m, n \in 1 .. L : stack[m] = stack[n] => m = n
      /\ \A u \in Threads : lc[u] <= Len(Body[u]) /\ Len(Body[u]) \in Nat
  BY <1>1, TopIs, StatementsAreComplete DEF PtInv, TypeOK
<1>3. /\ stack' \in Seq(Threads) /\ Len(stack') = L + 1 /\ stack' # <<>>
      /\ stack'[L + 1] = c /\ \A n \in 1 .. L : stack'[n] = stack[n]
  BY <1>1, <1>2, PushIs
<1>4. Innermost' = c
  BY <1>3 DEF Innermost
<1>5. lc'[c] = v /\ lc'[t] = at
  BY <1>1
<1>6. TypeOK'
  <2>1. label' \in BOOLEAN
    BY <1>1
  <2>2. at' \in Nat \ {0}
    BY <1>1, <1>2
  <2>3. PT_YIELD_FLAG' \in [Threads -> 0 .. 1]
    BY <1>1 DEF PtInv, TypeOK
  <2>4. \A u \in Threads : lc'[u] <= Len(Body[u])
    BY <1>1, <1>2 DEF CallsAt
  <2>5. ASSUME NEW m \in 1 .. L + 1, NEW n \in 1 .. L + 1, stack'[m] = stack'[n]
        PROVE  m = n
    <3>1. \A k \in 1 .. L + 1 : k \in 1 .. L \/ k = L + 1
      BY <1>2
    <3>2. CASE m \in 1 .. L /\ n \in 1 .. L
      BY <1>2, <1>3, <2>5, <3>2
    <3>3. CASE m = L + 1 /\ n \in 1 .. L
      BY <1>1, <1>3, <2>5, <3>3
    <3>4. CASE m \in 1 .. L /\ n = L + 1
      BY <1>1, <1>3, <2>5, <3>4
    <3> QED BY <3>1, <3>2, <3>3, <3>4
  <2>6. result' \in Returns \cup {NONE}
    BY <1>1
  <2>7. flag' \in [Flags -> 0 .. 1] /\ turn' \in 1 .. Len(Roots)
    BY <1>1 DEF PtInv, TypeOK
  <2> QED BY <1>1, <1>3, <2>1, <2>2, <2>3, <2>4, <2>5, <2>6, <2>7 DEF TypeOK
<1>7. Linked'
  <2>1. stack'[1] \in ToSet(Roots)
    <3>1. 1 \in 1 .. L
      BY <1>2
    <3> QED BY <1>1, <1>3, <3>1 DEF PtInv, Linked
  <2>2. ASSUME NEW n \in 1 .. L
        PROVE  CallsAt(stack'[n], lc'[stack'[n]], stack'[n + 1])
    <3>1. stack'[n] = stack[n] /\ stack[n] \in Threads
      BY <1>2, <1>3
    <3>2. CASE n = L
      BY <1>1, <1>2, <1>3, <1>5, <3>1, <3>2
    <3>3. CASE n # L
      <4>1. n \in 1 .. L - 1 /\ n + 1 \in 1 .. L /\ L \in 1 .. L
        BY <1>2, <3>3
      <4>2. stack[n] # t /\ stack[n] # c
        BY <1>1, <1>2, <3>3, <4>1
      <4>3. lc'[stack[n]] = lc[stack[n]] /\ stack'[n + 1] = stack[n + 1]
        BY <1>1, <1>3, <3>1, <4>1, <4>2
      <4> QED BY <3>1, <4>1, <4>3 DEF PtInv, Linked
    <3> QED BY <3>2, <3>3
  <2>3. Len(stack') - 1 = L
    BY <1>2, <1>3
  <2> QED BY <2>1, <2>2, <2>3 DEF Linked
<1>8. Resumed'
  BY <1>1, <1>3, <1>4, <1>5 DEF Resumed
<1> QED BY <1>6, <1>7, <1>8 DEF PtInv

(* The innermost thread and the statement that it executes. *)
LEMMA ExecutingIs ==
  ASSUME PtInv, NEW t \in Threads, NEW ops, Executing(t, ops)
  PROVE  /\ stack # <<>> /\ t = Innermost /\ result = NONE /\ Ops(at, t, ops)
         /\ at \in 1 .. Len(Body[t]) /\ at \in 0 .. Len(Body[t])
         /\ at + 1 \in Nat \ {0}
<1>1. /\ stack # <<>> /\ t = Innermost /\ result = NONE /\ Ops(at, t, ops)
      /\ at \in Nat \ {0}
  BY TopIs DEF Executing, PtInv, TypeOK
<1>2. at \in 1 .. Len(Body[t]) /\ Len(Body[t]) \in Nat
  BY <1>1, StatementIs
<1> QED BY <1>1, <1>2

LEMMA YieldFlags ==
  ASSUME TypeOK, NEW t \in Threads, NEW b \in 0 .. 1,
         PT_YIELD_FLAG' = [PT_YIELD_FLAG EXCEPT ![t] = b]
  PROVE  PT_YIELD_FLAG' \in [Threads -> 0 .. 1]
BY DEF TypeOK

(* A thread that blocks, or not, at a statement that sets its continuation. *)
LEMMA WaitKeeps ==
  ASSUME PtInv, NEW t \in Threads, PT_WAIT_UNTIL(t) \/ PT_YIELD(t)
  PROVE  PtInv'
<1>1. /\ stack # <<>> /\ t = Innermost /\ result = NONE /\ at \in 0 .. Len(Body[t])
      /\ at + 1 \in Nat \ {0}
  BY ExecutingIs DEF PT_WAIT_UNTIL, PT_YIELD
<1>2. lc' = [lc EXCEPT ![t] = at] /\ flag' = flag
  BY DEF PT_WAIT_UNTIL, PT_YIELD, LC_SET
<1>3. PT_YIELD_FLAG' \in [Threads -> 0 .. 1]
  <2>1. CASE PT_WAIT_UNTIL(t)
    BY <2>1 DEF PT_WAIT_UNTIL, PtInv, TypeOK
  <2>2. CASE PT_YIELD(t)
    <3> DEFINE b == IF label THEN PT_YIELD_FLAG[t] ELSE 0
    <3>1. PT_YIELD_FLAG' = [PT_YIELD_FLAG EXCEPT ![t] = b]
      BY <2>2 DEF PT_YIELD
    <3>2. b \in 0 .. 1
      BY DEF PtInv, TypeOK
    <3> HIDE DEF b
    <3> QED BY <3>1, <3>2, YieldFlags DEF PtInv
  <2> QED BY <2>1, <2>2
<1>4. \/ GoTo(at + 1) /\ UNCHANGED control
      \/ Return(PT_WAITING) \/ Return(PT_YIELDED)
  BY DEF PT_WAIT_UNTIL, PT_YIELD
<1>5. flag' \in [Flags -> 0 .. 1]
  BY <1>2 DEF PtInv, TypeOK
<1>6. PT_WAITING \in Returns /\ PT_YIELDED \in Returns
  BY DEF Returns
<1>7. CASE GoTo(at + 1) /\ UNCHANGED control
  BY <1>1, <1>2, <1>3, <1>5, <1>7, GoToKeeps DEF control
<1>8. CASE Return(PT_WAITING) \/ Return(PT_YIELDED)
  BY <1>1, <1>2, <1>3, <1>5, <1>6, <1>8, ReturnKeeps
<1> QED BY <1>4, <1>7, <1>8

(* The condition of PT_WAIT_THREAD leaves the continuation as it is. *)
LEMMA ResultIs ==
  ASSUME PtInv, NEW t \in Threads, WaitThread(t)
  PROVE  /\ stack # <<>> /\ t = Innermost /\ result \in Returns /\ at = lc[t]
         /\ Ops(at, t, Waits) /\ at \in 1 .. Len(Body[t])
         /\ at \in 0 .. Len(Body[t]) /\ lc' = [lc EXCEPT ![t] = at]
<1>1. /\ stack # <<>> /\ t = Innermost /\ result \in Returns /\ at = lc[t]
      /\ Ops(at, t, Waits) /\ lc' = lc /\ lc \in [Threads -> Nat]
      /\ at \in Nat \ {0}
  BY TopIs DEF WaitThread, PtInv, TypeOK, Resumed
<1>2. at \in 1 .. Len(Body[t]) /\ Len(Body[t]) \in Nat
  BY <1>1, StatementIs
<1> QED BY <1>1, <1>2

LEMMA WaitThreadKeeps ==
  ASSUME PtInv, NEW t \in Threads, WaitThread(t)
  PROVE  PtInv'
<1>1. /\ stack # <<>> /\ t = Innermost /\ at \in 0 .. Len(Body[t])
      /\ lc' = [lc EXCEPT ![t] = at]
  BY ResultIs
<1>2. flag' \in [Flags -> 0 .. 1] /\ PT_YIELD_FLAG' \in [Threads -> 0 .. 1]
  BY DEF WaitThread, PtInv, TypeOK
<1>3. at + 1 \in Nat \ {0} /\ PT_WAITING \in Returns
  BY DEF PtInv, TypeOK, Returns
<1>4. CASE Return(PT_WAITING)
  BY <1>1, <1>2, <1>3, <1>4, ReturnKeeps
<1>5. CASE GoTo(at + 1) /\ result' = NONE /\ UNCHANGED <<stack, turn>>
  BY <1>1, <1>2, <1>3, <1>5, GoToKeeps
<1> QED BY <1>4, <1>5 DEF WaitThread

(* A thread that leaves its function for good. *)
LEMMA LeaveKeeps ==
  ASSUME PtInv, NEW t \in Threads, PT_RESTART(t) \/ PT_EXIT(t) \/ PT_END(t)
  PROVE  PtInv'
<1>1. stack # <<>> /\ t = Innermost
  BY TopIs DEF PT_RESTART, PT_EXIT, PT_END, Executing, PtInv
<1>2. lc' = [lc EXCEPT ![t] = 0] /\ 0 \in 0 .. Len(Body[t]) /\ flag' \in [Flags -> 0 .. 1]
  BY StatementsAreComplete
     DEF PT_RESTART, PT_EXIT, PT_END, PT_INIT, PtInv, TypeOK
<1>3. PT_YIELD_FLAG' \in [Threads -> 0 .. 1]
  <2>1. CASE UNCHANGED PT_YIELD_FLAG
    BY <2>1 DEF PtInv, TypeOK
  <2>2. CASE PT_YIELD_FLAG' = [PT_YIELD_FLAG EXCEPT ![t] = 0]
    <3>1. 0 \in 0 .. 1
      OBVIOUS
    <3> QED BY <2>2, <3>1, YieldFlags DEF PtInv
  <2> QED BY <2>1, <2>2 DEF PT_RESTART, PT_EXIT, PT_END
<1>4. \E r \in Returns : Return(r)
  BY DEF PT_RESTART, PT_EXIT, PT_END, Returns
<1> QED BY <1>1, <1>2, <1>3, <1>4, ReturnKeeps

(* Statements of C. *)
LEMMA CodeKeeps ==
  ASSUME PtInv, NEW t \in Threads, Assign(t) \/ Jump(t)
  PROVE  PtInv'
<1>1. /\ stack # <<>> /\ t = Innermost /\ result = NONE /\ at + 1 \in Nat \ {0}
      /\ at \in 1 .. Len(Body[t])
  BY ExecutingIs DEF Assign, Jump
<1>2. /\ lc' = [lc EXCEPT ![t] = lc[t]] /\ lc[t] \in 0 .. Len(Body[t])
      /\ UNCHANGED control
  BY StatementsAreComplete DEF Assign, Jump, PtInv, TypeOK
<1>3. PT_YIELD_FLAG' \in [Threads -> 0 .. 1]
  <2>1. PT_YIELD_FLAG' = PT_YIELD_FLAG
    BY DEF Assign, Jump
  <2> QED BY <2>1 DEF PtInv, TypeOK
<1>4. CASE Assign(t)
  <2>1. Statement(t).flag \in Flags /\ Statement(t).is \in 0 .. 1
    BY <1>1, <1>4, StatementsAreComplete DEF Assign, Executing, Ops, Statement
  <2>2. flag' \in [Flags -> 0 .. 1]
    BY <1>4, <2>1 DEF Assign, PtInv, TypeOK
  <2>3. GoTo(at + 1)
    BY <1>4 DEF Assign
  <2> QED BY <1>1, <1>2, <1>3, <2>2, <2>3, GoToKeeps DEF control
<1>5. CASE Jump(t)
  <2>1. Statement(t).to \in Nat \ {0} /\ GoTo(Statement(t).to)
    BY <1>1, <1>5, StatementsAreComplete DEF Jump, Executing, Ops, Statement
  <2>2. flag' \in [Flags -> 0 .. 1]
    BY <1>5 DEF Jump, PtInv, TypeOK
  <2> QED BY <1>1, <1>2, <1>3, <2>1, <2>2, GoToKeeps DEF control
<1> QED BY <1>4, <1>5

LEMMA OutsideKeeps ==
  ASSUME PtInv, Environment \/ UNCHANGED vars
  PROVE  PtInv'
<1>1. flag' \in [Flags -> 0 .. 1]
  <2>1. flag \in [Flags -> 0 .. 1]
    BY DEF PtInv, TypeOK
  <2>2. ASSUME NEW f \in Flags, flag' = [flag EXCEPT ![f] = 1 - @]
        PROVE  flag' \in [Flags -> 0 .. 1]
    <3>1. 1 - flag[f] \in 0 .. 1
      BY <2>1
    <3> QED BY <2>1, <2>2, <3>1
  <2> QED BY <2>1, <2>2, InputsAreFlags DEF Environment, vars
<1>2. UNCHANGED <<lc, at, label, PT_YIELD_FLAG, control>>
  BY DEF Environment, vars, control
<1>3. label' \in BOOLEAN
  BY <1>2, Zenon DEF PtInv, TypeOK
<1>4. TypeOK'
  BY <1>1, <1>2, <1>3 DEF PtInv, TypeOK, control
<1>5. Linked' /\ Resumed'
  BY <1>2 DEF PtInv, Linked, Resumed, Innermost, control
<1> QED BY <1>4, <1>5 DEF PtInv

LEMMA PtInit == Init => PtInv
<1> SUFFICES ASSUME Init PROVE PtInv
  OBVIOUS
<1>1. label \in BOOLEAN
  BY Zenon DEF Init
<1>2. 1 \in 1 .. Len(Roots)
  <2>1. Len(Roots) \in Nat \ {0}
    BY ProgramHasRoots, EmptySeq
  <2> QED BY <2>1
<1>3. stack \in Seq(Threads) /\ Len(stack) = 0 /\ stack = <<>>
  BY EmptySeq DEF Init
<1>4. /\ flag \in [Flags -> 0 .. 1] /\ PT_YIELD_FLAG \in [Threads -> 0 .. 1]
      /\ lc \in [Threads -> Nat] /\ \A t \in Threads : lc[t] <= Len(Body[t])
  BY StatementsAreComplete DEF Init
<1>5. TypeOK
  BY <1>1, <1>2, <1>3, <1>4 DEF Init, TypeOK
<1>6. Linked /\ Resumed
  BY <1>3 DEF Init, Linked, Resumed
<1> QED BY <1>5, <1>6 DEF PtInv

LEMMA PtStep == PtInv /\ [Next]_vars => PtInv'
<1> SUFFICES ASSUME PtInv, [Next]_vars PROVE PtInv'
  OBVIOUS
<1>1. CASE Main
  BY <1>1, MainKeeps
<1>2. ASSUME NEW t \in Threads, PT_SPAWN(t) PROVE PtInv'
  BY <1>2, SpawnKeeps
<1>3. ASSUME NEW t \in Threads, PT_WAIT_UNTIL(t) \/ PT_YIELD(t) PROVE PtInv'
  BY <1>3, WaitKeeps
<1>4. ASSUME NEW t \in Threads, WaitThread(t) PROVE PtInv'
  BY <1>4, WaitThreadKeeps
<1>5. ASSUME NEW t \in Threads, PT_RESTART(t) \/ PT_EXIT(t) \/ PT_END(t) PROVE PtInv'
  BY <1>5, LeaveKeeps
<1>6. ASSUME NEW t \in Threads, Assign(t) \/ Jump(t) PROVE PtInv'
  BY <1>6, CodeKeeps
<1>7. CASE Environment \/ UNCHANGED vars
  BY <1>7, OutsideKeeps
<1> QED BY <1>1, <1>2, <1>3, <1>4, <1>5, <1>6, <1>7 DEF Next, Program

THEOREM PtInvHolds == Spec => []PtInv
BY PtInit, PtStep, PTL DEF Spec

(* The variables have their types, and no thread is called while it is     *)
(* being executed.                                                         *)
THEOREM TypeCorrect == Spec => []TypeOK
BY PtInvHolds, PTL DEF PtInv

-----------------------------------------------------------------------------
(* The refinement mapping, by where a thread is: in its place on the stack *)
(* or not on it, at its last LC_SET; innermost and going on; innermost and *)
(* about to see what its child has returned.                               *)
Places == [t \in Threads |-> Place(t)]
Children == [t \in Threads |-> Child(t)]
IsTop(t) == stack # <<>> /\ Innermost = t
LastPlace(t) == IF lc[t] = 0 THEN 1 ELSE lc[t]
Waiting(t) == IF lc[t] # 0 /\ Ops(lc[t], t, Waits) THEN "running" ELSE "none"

Mapping ==
  \A t \in Threads :
    /\ ~IsTop(t) => Place(t) = LastPlace(t) /\ Child(t) = Waiting(t)
    /\ IsTop(t) /\ result = NONE =>
         Place(t) = at /\ Child(t) = IF label THEN Waiting(t) ELSE "none"
    /\ IsTop(t) /\ result # NONE =>
         Place(t) = at /\ Child(t) = IF PT_SCHEDULE(result) THEN "running" ELSE "done"

LEMMA MappingHolds == PtInv => Mapping
<1> SUFFICES ASSUME PtInv, NEW t \in Threads
             PROVE  /\ ~IsTop(t) => Place(t) = LastPlace(t) /\ Child(t) = Waiting(t)
                    /\ IsTop(t) /\ result = NONE =>
                         /\ Place(t) = at
                         /\ Child(t) = IF label THEN Waiting(t) ELSE "none"
                    /\ IsTop(t) /\ result # NONE =>
                         /\ Place(t) = at
                         /\ Child(t) = IF PT_SCHEDULE(result) THEN "running" ELSE "done"
  BY DEF Mapping
<1>1. Top(t) <=> IsTop(t)
  BY TopIs DEF PtInv, IsTop
<1>2. at \in Nat \ {0}
  BY DEF PtInv, TypeOK
<1>3. IsTop(t) /\ label => at = lc[t]
  BY DEF PtInv, Resumed, IsTop
<1>4. IsTop(t) /\ result # NONE => at = lc[t] /\ Ops(at, t, Waits)
  BY DEF PtInv, Resumed, IsTop
<1>5. CASE ~IsTop(t)
  BY <1>1, <1>5 DEF Place, Child, Current, LastPlace, Waiting
<1>6. CASE IsTop(t) /\ result = NONE
  BY <1>1, <1>2, <1>3, <1>6 DEF Place, Child, Current, Waiting
<1>7. CASE IsTop(t) /\ result # NONE
  BY <1>1, <1>2, <1>4, <1>7 DEF Place, Child, Current
<1> QED BY <1>5, <1>6, <1>7

LEMMA MappingWillHold == PtInv' => Mapping'
BY MappingHolds, PTL

(* What a step of the innermost thread looks like. *)
LEMMA GoneOn ==
  ASSUME PtInv, PtInv', stack # <<>>, NEW v \in 0 .. Len(Body[Innermost]),
         lc' = [lc EXCEPT ![Innermost] = v], NEW i, GoTo(i),
         stack' = stack, result' = NONE
  PROVE  /\ Places' = [Places EXCEPT ![Innermost] = i]
         /\ Children' = [Children EXCEPT ![Innermost] = "none"]
<1> DEFINE t == Innermost
<1>1. t \in Threads /\ Innermost' = t
  BY TopIs DEF PtInv, Innermost
<1> HIDE DEF t
<1>2. \A u \in Threads : u # t => lc'[u] = lc[u]
  BY <1>1, ContinuationsAre DEF PtInv, t
<1>3. ~label' /\ at' = i
  BY DEF GoTo
<1>4. /\ \A u \in Threads : IsTop(u) <=> u = t
      /\ \A u \in Threads : IsTop(u)' <=> u = t
  BY <1>1 DEF IsTop, t
<1>5. \A u \in Threads :
        /\ u # t => Place(u)' = Place(u) /\ Child(u)' = Child(u)
        /\ u = t => Place(u)' = i /\ Child(u)' = "none"
  BY <1>2, <1>3, <1>4, MappingHolds, MappingWillHold
     DEF Mapping, LastPlace, Waiting
<1> QED BY <1>5 DEF Places, Children, t

(* The one that has called it gets the result. *)
HasReturned(v, r) ==
  LET t == Innermost
      L == Len(stack)
  IN  /\ Places' = [Places EXCEPT ![t] = IF v = 0 THEN 1 ELSE v]
      /\ Children' =
           [u \in Threads |->
              IF u = t
              THEN IF v # 0 /\ Ops(v, t, Waits) THEN "running" ELSE "none"
              ELSE IF L > 1 /\ u = stack[L - 1] /\ ~PT_SCHEDULE(r)
                   THEN "done" ELSE Children[u]]

LEMMA Returned ==
  ASSUME PtInv, PtInv', stack # <<>>, NEW v \in 0 .. Len(Body[Innermost]),
         lc' = [lc EXCEPT ![Innermost] = v], NEW r \in Returns, Return(r)
  PROVE  HasReturned(v, r)
<1> DEFINE t == Innermost
           L == Len(stack)
           p == stack[L - 1]
<1>1. /\ L \in Nat \ {0} /\ t \in Threads /\ t = stack[L] /\ stack \in Seq(Threads)
      /\ \A m, n \in 1 .. L : stack[m] = stack[n] => m = n
  BY TopIs DEF PtInv, TypeOK
<1>8. \A n \in 1 .. L : stack[n] \in Threads
  BY <1>1
<1>2. \A u \in Threads : lc'[u] = IF u = t THEN v ELSE lc[u]
  BY <1>1, ContinuationsAre DEF PtInv
<1>3. /\ Len(stack') = L - 1 /\ stack' \in Seq(Threads)
      /\ \A n \in 1 .. L - 1 : stack'[n] = stack[n]
  BY <1>1, FrontIs DEF Return
<1>4. /\ L = 1 => result' = NONE
      /\ L # 1 => at' = lc[p] /\ result' = r
  BY DEF Return
<1>5. \A u \in Threads : IsTop(u) <=> u = t
  BY <1>1 DEF IsTop
<1> HIDE DEF t
<1>6. CASE L = 1
  <2>1. stack' = <<>>
    BY <1>3, <1>6, EmptySeq
  <2>2. \A u \in Threads : ~IsTop(u)'
    BY <2>1 DEF IsTop
  <2>3. \A u \in Threads :
          /\ u # t => Place(u)' = Place(u) /\ Child(u)' = Child(u)
          /\ u = t => /\ Place(u)' = IF v = 0 THEN 1 ELSE v
                      /\ Child(u)' = IF v # 0 /\ Ops(v, t, Waits) THEN "running"
                                     ELSE "none"
    BY <1>2, <1>5, <2>2, MappingHolds, MappingWillHold
       DEF Mapping, LastPlace, Waiting
  <2>4. ~(L > 1)
    BY <1>6
  <2> QED BY <2>3, <2>4 DEF HasReturned, Places, Children, t
<1>7. CASE L # 1
  <2>1. L > 1
    <3>1. L \in Nat \ {0}
      BY <1>1
    <3> HIDE DEF L
    <3> QED BY <1>7, <3>1
  <2>2. L - 1 \in 1 .. L - 1 /\ L - 1 \in 1 .. L /\ L \in 1 .. L /\ L - 1 # L
        /\ (L - 1) + 1 = L
    BY <1>1, <2>1
  <2>3. p \in Threads /\ p # t
    <3>1. stack[L - 1] \in Threads
      BY <1>8, <2>2
    <3>2. stack[L - 1] # stack[L]
      BY <1>1, <2>2
    <3> QED BY <1>1, <3>1, <3>2
  <2>4. CallsAt(p, lc[p], t)
    BY <1>1, <2>2 DEF PtInv, Linked
  <2>5. Innermost' = p /\ stack' # <<>>
    BY <1>3, <2>1, <2>2 DEF Innermost
  <2> HIDE DEF p, L
  <2>6. \A u \in Threads : IsTop(u)' <=> u = p
    BY <2>5 DEF IsTop
  <2>7. result' = r /\ result' # NONE /\ at' = lc[p]
    BY <1>4, <1>7 DEF Returns, NONE, PT_WAITING, PT_YIELDED, PT_EXITED, PT_ENDED
  <2>8. lc[p] # 0 /\ Ops(lc[p], p, Waits)
    BY <1>1, <2>3, <2>4, StatementsAreComplete DEF CallsAt
  <2>9. ASSUME NEW u \in Threads, u = p
        PROVE  /\ Place(u) = lc[p] /\ Child(u) = "running"
               /\ Place(u)' = lc[p]
               /\ Child(u)' = IF PT_SCHEDULE(r) THEN "running" ELSE "done"
    <3>1. Place(u) = LastPlace(u) /\ Child(u) = Waiting(u)
      BY <1>5, <2>3, <2>9, MappingHolds DEF Mapping
    <3>2. /\ Place(u)' = at'
          /\ Child(u)' = IF PT_SCHEDULE(result)' THEN "running" ELSE "done"
      BY <2>6, <2>7, <2>9, MappingWillHold DEF Mapping
    <3>3. PT_SCHEDULE(result)' <=> PT_SCHEDULE(r)
      BY <2>7 DEF PT_SCHEDULE
    <3> QED BY <2>7, <2>8, <2>9, <3>1, <3>2, <3>3 DEF LastPlace, Waiting
  <2>10. ASSUME NEW u \in Threads, u # t, u # p
         PROVE  Place(u)' = Place(u) /\ Child(u)' = Child(u)
    BY <1>2, <1>5, <2>6, <2>10, MappingHolds, MappingWillHold
       DEF Mapping, LastPlace, Waiting
  <2>11. ASSUME NEW u \in Threads, u = t
         PROVE  /\ Place(u)' = IF v = 0 THEN 1 ELSE v
                /\ Child(u)' = IF v # 0 /\ Ops(v, t, Waits) THEN "running" ELSE "none"
    BY <1>2, <2>3, <2>6, <2>11, MappingWillHold DEF Mapping, LastPlace, Waiting
  <2>12. Places' = [Places EXCEPT ![t] = IF v = 0 THEN 1 ELSE v]
    BY <2>9, <2>10, <2>11 DEF Places
  <2>13. Children' =
           [u \in Threads |->
              IF u = t THEN IF v # 0 /\ Ops(v, t, Waits) THEN "running" ELSE "none"
              ELSE IF L > 1 /\ u = p /\ ~PT_SCHEDULE(r) THEN "done" ELSE Children[u]]
    BY <2>1, <2>3, <2>9, <2>10, <2>11 DEF Children
  <2> QED BY <2>12, <2>13 DEF HasReturned, p, L, t
<1> QED BY <1>6, <1>7

-----------------------------------------------------------------------------
(* The one that has called the innermost thread. *)
LEMMA CallerIs ==
  ASSUME PtInv, stack # <<>>
  PROVE  LET t == Innermost
             L == Len(stack)
             p == stack[L - 1]
         IN  /\ t \in Threads
             /\ L = 1 => t \in ToSet(Roots) /\ \A q \in Threads : ~Calls(q, t)
             /\ L # 1 => /\ L > 1 /\ p \in Threads /\ p # t /\ CallsAt(p, lc[p], t)
                         /\ \A q \in Threads : Calls(q, t) => q = p
<1> DEFINE t == Innermost
           L == Len(stack)
           p == stack[L - 1]
<1>1. /\ L \in Nat \ {0} /\ t \in Threads /\ t = stack[L]
      /\ \A n \in 1 .. L : stack[n] \in Threads
      /\ \A m, n \in 1 .. L : stack[m] = stack[n] => m = n
  <2>1. stack \in Seq(Threads) /\ L \in Nat \ {0} /\ t \in Threads /\ t = stack[L]
    BY TopIs DEF PtInv, TypeOK
  <2>2. \A n \in 1 .. L : stack[n] \in Threads
    BY <2>1
  <2> QED BY <2>1, <2>2 DEF PtInv, TypeOK
<1>2. CASE L = 1
  <2>1. t \in ToSet(Roots)
    BY <1>1, <1>2 DEF PtInv, Linked
  <2> QED BY <1>1, <1>2, <2>1, OneCaller
<1>3. CASE L # 1
  <2>1. L > 1
    <3>1. L \in Nat \ {0}
      BY <1>1
    <3> HIDE DEF L
    <3> QED BY <1>3, <3>1
  <2>2. L - 1 \in 1 .. L - 1 /\ L - 1 \in 1 .. L /\ L \in 1 .. L /\ L - 1 # L
        /\ (L - 1) + 1 = L
    BY <1>1, <2>1
  <2>3. p \in Threads /\ p # t
    BY <1>1, <2>2
  <2>4. CallsAt(p, lc[p], t)
    BY <1>1, <2>2 DEF PtInv, Linked
  <2> QED BY <1>1, <1>3, <2>1, <2>3, <2>4, CallsAtCalls
<1> QED BY <1>2, <1>3

LEMMA CallerGoesOn ==
  ASSUME PtInv, stack # <<>>, NEW r \in Returns, Return(r)
  PROVE  LET L == Len(stack)
         IN  /\ L = 1 => \A u : ~IsTop(u)'
             /\ L # 1 => /\ \A u : IsTop(u)' <=> u = stack[L - 1]
                         /\ result' = r /\ result' # NONE
<1> DEFINE L == Len(stack)
           p == stack[L - 1]
<1>1. L \in Nat \ {0}
  BY TopIs DEF PtInv
<1>2. /\ Len(stack') = L - 1 /\ stack' \in Seq(Threads)
      /\ \A n \in 1 .. L - 1 : stack'[n] = stack[n]
  BY FrontIs DEF PtInv, TypeOK, Return
<1>3. CASE L = 1
  <2>1. stack' = <<>>
    BY <1>2, <1>3, EmptySeq
  <2> QED BY <1>3, <2>1 DEF IsTop
<1>4. CASE L # 1
  <2>1. L > 1 /\ L - 1 \in 1 .. L - 1
    <3>1. L \in Nat \ {0}
      BY <1>1
    <3> HIDE DEF L
    <3> QED BY <1>4, <3>1
  <2>2. Innermost' = p /\ stack' # <<>>
    BY <1>2, <2>1 DEF Innermost
  <2>3. result' = r /\ result' # NONE
    BY <1>4 DEF Return, Returns, NONE, PT_WAITING, PT_YIELDED, PT_EXITED, PT_ENDED
  <2> QED BY <1>4, <2>2, <2>3 DEF IsTop
<1> QED BY <1>3, <1>4

(* A child has a continuation only as long as its parent waits for it: at  *)
(* any other time it would begin at its first statement.  So the PT_INIT   *)
(* in PT_SPAWN finds nothing to do.                                        *)
Nested ==
  \A p, c \in Threads : Calls(p, c) /\ lc[c] # 0 =>
    /\ CallsAt(p, lc[p], c)
    /\ IsTop(p) => IF result = NONE THEN label ELSE PT_SCHEDULE(result)

NestedInv == PtInv /\ Nested

(* The innermost thread has no child with a continuation, unless it is at  *)
(* the statement that waits for it.                                        *)
Childless == \A c \in Threads : Calls(Innermost, c) => lc[c] = 0

LEMMA ChildlessIs ==
  ASSUME NestedInv, stack # <<>>, result = NONE, ~Ops(at, Innermost, Waits)
  PROVE  Childless
<1> DEFINE t == Innermost
<1>1. t \in Threads /\ IsTop(t)
  BY TopIs DEF NestedInv, PtInv, IsTop
<1>2. label => at = lc[t]
  BY DEF NestedInv, PtInv, Resumed
<1> SUFFICES ASSUME NEW c \in Threads, Calls(t, c), lc[c] # 0 PROVE FALSE
  BY DEF Childless
<1>3. CallsAt(t, lc[t], c) /\ label
  BY <1>1 DEF NestedInv, Nested
<1> QED BY <1>2, <1>3 DEF CallsAt

LEMMA GoToNests ==
  ASSUME NestedInv, stack # <<>>, NEW v \in 0 .. Len(Body[Innermost]),
         lc' = [lc EXCEPT ![Innermost] = v], stack' = stack, Childless
  PROVE  Nested'
<1> DEFINE t == Innermost
<1>1. t \in Threads /\ \A u \in Threads : lc'[u] = IF u = t THEN v ELSE lc[u]
  BY TopIs, ContinuationsAre DEF NestedInv, PtInv
<1>2. \A u : IsTop(u)' <=> u = t
  BY DEF IsTop, Innermost
<1> SUFFICES ASSUME NEW p \in Threads, NEW c \in Threads, Calls(p, c), lc'[c] # 0
             PROVE  CallsAt(p, lc'[p], c) /\ ~IsTop(p)'
  BY DEF Nested
<1>3. CASE c = t
  <2>1. p # t /\ CallsAt(p, lc[p], c)
    BY <1>3, CallerIs DEF NestedInv
  <2> QED BY <1>1, <1>2, <2>1
<1>4. CASE c # t
  <2>1. lc[c] # 0
    BY <1>1, <1>4
  <2>2. p # t /\ CallsAt(p, lc[p], c)
    BY <2>1 DEF Childless, NestedInv, Nested
  <2> QED BY <1>1, <1>2, <2>2
<1> QED BY <1>3, <1>4

LEMMA ReturnNests ==
  ASSUME NestedInv, stack # <<>>, NEW v \in 0 .. Len(Body[Innermost]),
         lc' = [lc EXCEPT ![Innermost] = v], NEW r \in Returns, Return(r),
         Childless \/ v = lc[Innermost], v # 0 => PT_SCHEDULE(r)
  PROVE  Nested'
<1> DEFINE t == Innermost
           L == Len(stack)
           q == stack[L - 1]
<1>1. t \in Threads /\ \A u \in Threads : lc'[u] = IF u = t THEN v ELSE lc[u]
  BY TopIs, ContinuationsAre DEF NestedInv, PtInv
<1>2. /\ L = 1 => (\A u \in Threads : ~Calls(u, t)) /\ \A u : ~IsTop(u)'
      /\ L # 1 => /\ q # t /\ CallsAt(q, lc[q], t)
                  /\ \A u \in Threads : Calls(u, t) => u = q
                  /\ \A u : IsTop(u)' <=> u = q
                  /\ result' = r /\ result' # NONE
  BY CallerIs, CallerGoesOn DEF NestedInv
<1>3. \A u : PT_SCHEDULE(u) <=> u < PT_EXITED
  BY DEF PT_SCHEDULE
<1> HIDE DEF t, L, q
<1> SUFFICES ASSUME NEW p \in Threads, NEW c \in Threads, Calls(p, c), lc'[c] # 0
             PROVE  /\ CallsAt(p, lc'[p], c)
                    /\ IsTop(p)' => result' # NONE /\ PT_SCHEDULE(result')
  BY DEF Nested, PT_SCHEDULE
<1>4. CASE c = t
  <2>1. p = q /\ L # 1 /\ v # 0
    BY <1>1, <1>2, <1>4
  <2>2. PT_SCHEDULE(r)
    BY <2>1
  <2> QED BY <1>1, <1>2, <1>4, <2>1, <2>2
<1>5. CASE c # t /\ p = t
  <2>1. lc[c] # 0
    BY <1>1, <1>5
  <2>2. CallsAt(p, lc[p], c)
    BY <2>1 DEF NestedInv, Nested
  <2>3. v = lc[t]
    BY <1>5, <2>1 DEF Childless, t
  <2>4. ~IsTop(p)'
    BY <1>2, <1>5
  <2> QED BY <1>1, <1>5, <2>2, <2>3, <2>4
<1>6. CASE c # t /\ p # t
  <2>1. lc[c] # 0
    BY <1>1, <1>6
  <2>2. CallsAt(p, lc[p], c)
    BY <2>1 DEF NestedInv, Nested
  <2>3. ~IsTop(p)'
    BY <1>2, <1>6, <2>2 DEF CallsAt
  <2> QED BY <1>1, <1>6, <2>2, <2>3
<1> QED BY <1>4, <1>5, <1>6

LEMMA MainNests ==
  ASSUME NestedInv, Main
  PROVE  Nested'
<1>1. /\ stack = <<>> /\ stack' = Append(stack, Roots[turn]) /\ lc' = lc
      /\ label' = (lc[Roots[turn]] # 0) /\ result' = NONE
  BY DEF Main, PT_BEGIN
<1>2. \A u : IsTop(u)' => u = Roots[turn]
  BY <1>1 DEF IsTop, Innermost
<1> SUFFICES ASSUME NEW p \in Threads, NEW c \in Threads, Calls(p, c), lc[c] # 0
             PROVE  CallsAt(p, lc[p], c) /\ (IsTop(p)' => label')
  BY <1>1 DEF Nested
<1>3. CallsAt(p, lc[p], c)
  BY DEF NestedInv, Nested
<1>4. lc[p] # 0
  BY <1>3 DEF CallsAt
<1>5. IsTop(p)' => label'
  BY <1>1, <1>2, <1>4
<1> QED BY <1>3, <1>5

(* What the refinement mapping makes of a call. *)
LEMMA SpawnTops ==
  ASSUME PtInv, NEW t \in Threads, PT_SPAWN(t)
  PROVE  /\ \A u : IsTop(u) <=> u = t
         /\ \A u : IsTop(u)' <=> u = Body[t][at].thread
<1>1. /\ stack # <<>> /\ t = Innermost /\ stack' = Append(stack, Body[t][at].thread)
      /\ Body[t][at].thread \in Threads
  BY SpawnIs
<1>2. stack' # <<>> /\ Innermost' = Body[t][at].thread
  BY <1>1, PushIs DEF PtInv, TypeOK, Innermost
<1> QED BY <1>1, <1>2 DEF IsTop

LEMMA SpawnNests ==
  ASSUME NestedInv, NEW t \in Threads, PT_SPAWN(t)
  PROVE  Nested'
<1> DEFINE c == Body[t][at].thread
           v == IF Ops(at, t, {"spawn"}) /\ ~label THEN 0 ELSE lc[c]
<1>1. /\ stack # <<>> /\ t = Innermost /\ result = NONE
      /\ CallsAt(t, at, c) /\ c \in Threads /\ c # t
      /\ \A u \in Threads : lc'[u] = IF u = t THEN at ELSE IF u = c THEN v ELSE lc[u]
      /\ label' = (v # 0) /\ result' = NONE
  BY SpawnIs DEF NestedInv
<1>2. /\ \A u : IsTop(u) <=> u = t
      /\ \A u : IsTop(u)' <=> u = c
  BY SpawnTops DEF NestedInv
<1>3. label => at = lc[t]
  BY <1>1 DEF NestedInv, PtInv, Resumed
<1>4. Calls(t, c)
  BY <1>1, CallsAtCalls
<1> HIDE DEF c
<1>5. v = lc[c]
  BY <1>1, <1>2, <1>4 DEF NestedInv, Nested
<1> HIDE DEF v
<1> SUFFICES ASSUME NEW p \in Threads, NEW d \in Threads, Calls(p, d), lc'[d] # 0
             PROVE  CallsAt(p, lc'[p], d) /\ (IsTop(p)' => label')
  BY <1>1 DEF Nested
<1>6. CASE d = t
  <2>1. p # t /\ p # c /\ CallsAt(p, lc[p], d)
    <3>1. /\ Len(stack) # 1
          /\ p = stack[Len(stack) - 1] /\ p # t /\ CallsAt(p, lc[p], d)
          /\ Len(stack) > 1
      BY <1>1, <1>6, CallerIs DEF NestedInv
    <3>2. p # c
      <4>1. \A n \in 1 .. Len(stack) : stack[n] # c
        BY SpawnIs DEF NestedInv, c
      <4>2. Len(stack) \in Nat
        BY TopIs, <1>1 DEF NestedInv, PtInv
      <4>3. Len(stack) - 1 \in 1 .. Len(stack)
        BY <3>1, <4>2
      <4> QED BY <3>1, <4>1, <4>3
    <3> QED BY <3>1, <3>2
  <2> QED BY <1>1, <1>2, <2>1
<1>7. CASE d # t /\ p = t
  <2>1. lc[d] # 0
    BY <1>1, <1>5, <1>7
  <2>2. CallsAt(t, lc[t], d) /\ label
    BY <1>1, <1>2, <1>7, <2>1 DEF NestedInv, Nested
  <2>3. d = c
    BY <1>1, <1>3, <2>2 DEF CallsAt
  <2> QED BY <1>1, <1>2, <1>7, <2>3
<1>8. CASE d # t /\ p # t
  <2>1. lc[d] # 0
    BY <1>1, <1>5, <1>8
  <2>2. CallsAt(p, lc[p], d)
    BY <2>1 DEF NestedInv, Nested
  <2>3. lc'[p] = lc[p]
    BY <1>1, <1>5, <1>8
  <2>4. IsTop(p)' => lc[c] # 0
    BY <1>2, <2>2 DEF CallsAt
  <2> QED BY <1>1, <1>5, <2>2, <2>3, <2>4
<1> QED BY <1>6, <1>7, <1>8

LEMMA Disjoint ==
  ASSUME NEW i, NEW t, NEW ops, Ops(i, t, ops), ops \cap Waits = {}
  PROVE  ~Ops(i, t, Waits)
BY DEF Ops

LEMMA ExecutesNoCall ==
  ASSUME NestedInv, NEW t \in Threads,
         \/ PT_WAIT_UNTIL(t) \/ PT_YIELD(t) \/ PT_RESTART(t) \/ PT_EXIT(t)
         \/ PT_END(t) \/ Assign(t) \/ Jump(t)
  PROVE  /\ stack # <<>> /\ t = Innermost /\ result = NONE
         /\ ~Ops(at, t, Waits) /\ Childless
<1>1. stack # <<>> /\ t = Innermost /\ result = NONE
  BY TopIs DEF PT_WAIT_UNTIL, PT_YIELD, PT_RESTART, PT_EXIT, PT_END, Assign, Jump,
               Executing, NestedInv, PtInv
<1>2. ~Ops(at, t, Waits)
  <2>1. \/ \E ops \in {{"wait"}, {"yield", "yield_until"}, {"restart"}, {"exit"},
                       {"set"}, {"goto"}} : Ops(at, t, ops)
        \/ at > Len(Body[t])
    BY DEF PT_WAIT_UNTIL, PT_YIELD, PT_RESTART, PT_EXIT, PT_END, Assign, Jump,
           Executing
  <2>2. CASE at > Len(Body[t])
    BY <2>2, StatementsAreComplete DEF Ops, NestedInv, PtInv, TypeOK
  <2>3. ASSUME NEW ops \in {{"wait"}, {"yield", "yield_until"}, {"restart"}, {"exit"},
                            {"set"}, {"goto"}}, Ops(at, t, ops)
        PROVE  ~Ops(at, t, Waits)
    <3>1. ops \cap Waits = {}
      BY DEF Waits
    <3> QED BY <2>3, <3>1, Disjoint
  <2> QED BY <2>1, <2>2, <2>3
<1> QED BY <1>1, <1>2, ChildlessIs

LEMMA ThreadNests ==
  ASSUME NestedInv, NEW t \in Threads,
         \/ PT_WAIT_UNTIL(t) \/ PT_YIELD(t) \/ PT_RESTART(t) \/ PT_EXIT(t)
         \/ PT_END(t) \/ Assign(t) \/ Jump(t)
  PROVE  Nested'
<1>1. stack # <<>> /\ t = Innermost /\ Childless
  BY ExecutesNoCall
<1>2. PT_SCHEDULE(PT_WAITING) /\ PT_SCHEDULE(PT_YIELDED)
  BY DEF PT_SCHEDULE, PT_WAITING, PT_YIELDED, PT_EXITED
<1>3. {PT_WAITING, PT_YIELDED, PT_EXITED, PT_ENDED} \subseteq Returns
  BY DEF Returns
<1>4. 0 \in 0 .. Len(Body[t]) /\ lc[t] \in 0 .. Len(Body[t])
  BY StatementsAreComplete DEF NestedInv, PtInv, TypeOK
<1>5. CASE PT_WAIT_UNTIL(t) \/ PT_YIELD(t)
  <2>1. at \in 0 .. Len(Body[t]) /\ lc' = [lc EXCEPT ![t] = at]
    BY <1>5, ExecutingIs DEF PT_WAIT_UNTIL, PT_YIELD, LC_SET, NestedInv
  <2>2. stack' = stack \/ Return(PT_WAITING) \/ Return(PT_YIELDED)
    BY <1>5 DEF PT_WAIT_UNTIL, PT_YIELD, control
  <2>3. CASE stack' = stack
    BY <1>1, <2>1, <2>3, GoToNests
  <2>4. CASE Return(PT_WAITING) \/ Return(PT_YIELDED)
    BY <1>1, <1>2, <1>3, <2>1, <2>4, ReturnNests
  <2> QED BY <2>2, <2>3, <2>4
<1>6. CASE PT_RESTART(t) \/ PT_EXIT(t) \/ PT_END(t)
  <2>1. lc' = [lc EXCEPT ![t] = 0] /\ \E r \in Returns : Return(r)
    BY <1>3, <1>6 DEF PT_RESTART, PT_EXIT, PT_END, PT_INIT
  <2> QED BY <1>1, <1>4, <2>1, ReturnNests
<1>7. CASE Assign(t) \/ Jump(t)
  <2>1. lc' = [lc EXCEPT ![t] = lc[t]] /\ stack' = stack
    BY <1>7 DEF Assign, Jump, control, NestedInv, PtInv, TypeOK
  <2> QED BY <1>1, <1>4, <2>1, GoToNests
<1> QED BY <1>5, <1>6, <1>7

LEMMA WaitThreadNests ==
  ASSUME NestedInv, NEW t \in Threads, WaitThread(t)
  PROVE  Nested'
<1>1. /\ stack # <<>> /\ t = Innermost /\ at = lc[t] /\ at \in 0 .. Len(Body[t])
      /\ lc' = [lc EXCEPT ![t] = at] /\ result # NONE
  BY ResultIs DEF NestedInv, WaitThread
<1>2. CASE PT_SCHEDULE(result)
  <2>1. Return(PT_WAITING) /\ PT_WAITING \in Returns
    BY <1>2 DEF WaitThread, Returns
  <2>2. PT_SCHEDULE(PT_WAITING)
    BY DEF PT_SCHEDULE, PT_WAITING, PT_EXITED
  <2> QED BY <1>1, <2>1, <2>2, ReturnNests
<1>3. CASE ~PT_SCHEDULE(result)
  <2>1. stack' = stack
    BY <1>3 DEF WaitThread
  <2>2. IsTop(t)
    BY <1>1 DEF IsTop
  <2>3. Childless
    BY <1>1, <1>3, <2>2 DEF NestedInv, Nested, Childless
  <2> QED BY <1>1, <2>1, <2>3, GoToNests
<1> QED BY <1>2, <1>3

LEMMA NestedStep == NestedInv /\ [Next]_vars => NestedInv'
<1> SUFFICES ASSUME NestedInv, [Next]_vars PROVE Nested'
  BY PtStep DEF NestedInv
<1>1. CASE Main
  BY <1>1, MainNests
<1>2. ASSUME NEW t \in Threads, PT_SPAWN(t) PROVE Nested'
  BY <1>2, SpawnNests
<1>3. ASSUME NEW t \in Threads,
             \/ PT_WAIT_UNTIL(t) \/ PT_YIELD(t) \/ PT_RESTART(t) \/ PT_EXIT(t)
             \/ PT_END(t) \/ Assign(t) \/ Jump(t)
      PROVE  Nested'
  BY <1>3, ThreadNests
<1>4. ASSUME NEW t \in Threads, WaitThread(t) PROVE Nested'
  BY <1>4, WaitThreadNests
<1>5. CASE Environment \/ UNCHANGED vars
  <2>1. UNCHANGED <<lc, stack, label, result>>
    BY <1>5 DEF Environment, vars, control
  <2> QED BY <2>1 DEF NestedInv, Nested, IsTop, Innermost
<1> QED BY <1>1, <1>2, <1>3, <1>4, <1>5 DEF Next, Program

LEMMA NestedInit == Init => NestedInv
<1> SUFFICES ASSUME Init PROVE Nested
  BY PtInit DEF NestedInv
<1> QED BY DEF Init, Nested

LEMMA NestedInvHolds == Spec => []NestedInv
BY NestedInit, NestedStep, PTL DEF Spec

-----------------------------------------------------------------------------
(* Steps of the threads that block. *)
LEMMA BlockingDefs ==
  /\ \A i, t, ops : Blocking!Ops(i, t, ops) <=> Ops(i, t, ops)
  /\ \A s : Blocking!Holds(s) <=> Holds(s)
  /\ \A t, ops : Blocking!At(t, ops) <=> Ops(Places[t], t, ops)
  /\ \A t : Blocking!Statement(t) = Body[t][Places[t]]
  /\ \A t, i : Blocking!GoTo(t, i) <=> Places' = [Places EXCEPT ![t] = i]
  /\ \A t, u : u \in Blocking!Parents(t) <=>
                 /\ u \in Threads /\ Ops(Places[u], u, Waits)
                 /\ Body[u][Places[u]].thread = t
  /\ \A t : Blocking!Active(t) <=>
              \/ t \in ToSet(Roots)
              \/ \E u \in Blocking!Parents(t) : Children[u] = "running"
<1>1. \A i, t, ops : Blocking!Ops(i, t, ops) <=> Ops(i, t, ops)
  BY DEF Blocking!Ops, Ops
<1>2. \A s : Blocking!Holds(s) <=> Holds(s)
  BY DEF Blocking!Holds, Holds
<1>3. \A t, ops : Blocking!At(t, ops) <=> Ops(Places[t], t, ops)
  BY <1>1 DEF Blocking!At, Places
<1>4. \A t : Blocking!Statement(t) = Body[t][Places[t]]
  BY DEF Blocking!Statement, Places
<1>5. \A t, i : Blocking!GoTo(t, i) <=> Places' = [Places EXCEPT ![t] = i]
  BY DEF Blocking!GoTo, Places
<1>6. \A t, u : u \in Blocking!Parents(t) <=>
                  /\ u \in Threads /\ Ops(Places[u], u, Waits)
                  /\ Body[u][Places[u]].thread = t
  BY <1>1 DEF Blocking!Parents, Places, Waits
<1>7. \A t : Blocking!Active(t) <=>
               \/ t \in ToSet(Roots)
               \/ \E u \in Blocking!Parents(t) : Children[u] = "running"
  BY DEF Blocking!Active, Children, Blocking!ToSet, ToSet
<1> QED BY <1>1, <1>2, <1>3, <1>4, <1>5, <1>6, <1>7

LEMMA PlacesAre ==
  ASSUME PtInv, stack # <<>>, result = NONE
  PROVE  LET t == Innermost
         IN  /\ t \in Threads /\ Places[t] = at
             /\ ~Ops(at, t, Waits) => Children[t] = "none"
             /\ label => at = lc[t]
<1> DEFINE t == Innermost
<1>1. t \in Threads /\ IsTop(t)
  BY TopIs DEF PtInv, IsTop
<1>2. label => at = lc[t]
  BY DEF PtInv, Resumed
<1>3. Place(t) = at /\ Child(t) = IF label THEN Waiting(t) ELSE "none"
  BY <1>1, MappingHolds DEF Mapping
<1>4. ~Ops(at, t, Waits) => Child(t) = "none"
  BY <1>2, <1>3 DEF Waiting
<1> QED BY <1>1, <1>2, <1>3, <1>4 DEF Places, Children

(* The one parent that is waiting for the innermost thread has called it. *)
LEMMA ParentsAre ==
  ASSUME PtInv, stack # <<>>
  PROVE  LET t == Innermost
             L == Len(stack)
         IN  /\ \A u : u \in Blocking!Parents(t) /\ u # t /\ Children[u] = "running"
                         <=> L > 1 /\ u = stack[L - 1]
             /\ Blocking!Active(t)
<1> DEFINE t == Innermost
           L == Len(stack)
           p == stack[L - 1]
<1>1. /\ t \in Threads
      /\ L = 1 => t \in ToSet(Roots) /\ \A q \in Threads : ~Calls(q, t)
      /\ L # 1 => /\ L > 1 /\ p \in Threads /\ p # t /\ CallsAt(p, lc[p], t)
                  /\ \A q \in Threads : Calls(q, t) => q = p
  BY CallerIs
<1>2. ASSUME L # 1
      PROVE  /\ p \in Blocking!Parents(t) /\ Children[p] = "running" /\ p # t /\ L > 1
  <2>1. ~IsTop(p)
    BY <1>1, <1>2 DEF IsTop
  <2>2. Place(p) = lc[p] /\ Child(p) = "running"
    <3>1. lc[p] # 0 /\ Ops(lc[p], p, Waits)
      BY <1>1, <1>2 DEF CallsAt
    <3>2. Place(p) = LastPlace(p) /\ Child(p) = Waiting(p)
      BY <1>1, <1>2, <2>1, MappingHolds DEF Mapping
    <3> QED BY <3>1, <3>2 DEF LastPlace, Waiting
  <2>3. Places[p] = lc[p] /\ Children[p] = "running"
    BY <1>1, <1>2, <2>2 DEF Places, Children
  <2> QED BY <1>1, <1>2, <2>3, BlockingDefs DEF CallsAt
<1>3. ASSUME NEW u \in Blocking!Parents(t) PROVE u \in Threads /\ Calls(u, t)
  <2>1. u \in Threads /\ Ops(Places[u], u, Waits) /\ Body[u][Places[u]].thread = t
    BY <1>3, BlockingDefs
  <2>2. Places[u] \in Nat \ {0}
    BY <2>1 DEF Places, Place, PtInv, TypeOK
  <2>3. Places[u] \in 1 .. Len(Body[u])
    BY <2>1, <2>2, StatementIs
  <2> QED BY <2>1, <2>3 DEF Calls
<1> HIDE DEF t, L, p
<1>4. \A u : u \in Blocking!Parents(t) /\ u # t /\ Children[u] = "running"
               <=> L > 1 /\ u = p
  BY <1>1, <1>2, <1>3
<1>5. Blocking!Active(t)
  BY <1>1, <1>2, BlockingDefs
<1> QED BY <1>4, <1>5 DEF t, L, p

LEMMA WaitImplements ==
  ASSUME NestedInv, NestedInv', NEW t \in Threads, PT_WAIT_UNTIL(t) \/ PT_YIELD(t)
  PROVE  Blocking!Step(t) \/ UNCHANGED <<flag, Places, Children>>
<1>1. /\ stack # <<>> /\ t = Innermost /\ result = NONE /\ ~Ops(at, t, Waits)
  BY ExecutesNoCall
<1>2. /\ Ops(at, t, {"wait"}) \/ Ops(at, t, {"yield", "yield_until"})
      /\ at \in 0 .. Len(Body[t]) /\ at \in 1 .. Len(Body[t])
      /\ lc' = [lc EXCEPT ![t] = at] /\ flag' = flag
  BY ExecutingIs DEF PT_WAIT_UNTIL, PT_YIELD, Executing, LC_SET, NestedInv
<1>3. Places[t] = at /\ Children[t] = "none" /\ Blocking!Active(t)
  BY <1>1, PlacesAre, ParentsAre DEF NestedInv
<1>4. \/ GoTo(at + 1) /\ UNCHANGED control
         /\ (Ops(at, t, {"wait", "yield_until"}) => Holds(Body[t][at]))
      \/ Return(PT_WAITING) \/ Return(PT_YIELDED)
  BY DEF PT_WAIT_UNTIL, PT_YIELD, Executing, Ops, Statement
<1>5. CASE GoTo(at + 1) /\ UNCHANGED control
           /\ (Ops(at, t, {"wait", "yield_until"}) => Holds(Body[t][at]))
  <2>1. /\ Places' = [Places EXCEPT ![t] = at + 1]
        /\ Children' = [Children EXCEPT ![t] = "none"]
    <3>1. GoTo(at + 1) /\ stack' = stack /\ result' = NONE
      BY <1>1, <1>5 DEF control
    <3> QED BY <1>1, <1>2, <3>1, GoneOn DEF NestedInv
  <2>2. Children' = Children
    BY <1>3, <2>1 DEF Children
  <2>3. \/ Blocking!At(t, {"yield"})
        \/ Blocking!At(t, {"wait", "yield_until"}) /\ Blocking!Holds(Blocking!Statement(t))
    <3>1. \/ Ops(at, t, {"yield"})
          \/ Ops(at, t, {"wait", "yield_until"}) /\ Holds(Body[t][at])
      <4>1. \/ Ops(at, t, {"wait", "yield_until"})
            \/ Ops(at, t, {"yield"})
        BY <1>2 DEF Ops
      <4> QED BY <1>5, <4>1
    <3> QED BY <1>3, <3>1, BlockingDefs
  <2>4. Blocking!GoTo(t, Places[t] + 1)
    BY <1>3, <2>1, BlockingDefs
  <2>5. Blocking!Pass(t)
    BY <1>2, <2>2, <2>3, <2>4 DEF Blocking!Pass, Places, Children
  <2> QED BY <1>3, <2>5 DEF Blocking!Step
<1>6. CASE Return(PT_WAITING) \/ Return(PT_YIELDED)
  <2>1. PICK r \in {PT_WAITING, PT_YIELDED} : Return(r)
    BY <1>6
  <2>2. r \in Returns /\ PT_SCHEDULE(r)
    BY DEF Returns, PT_SCHEDULE, PT_WAITING, PT_YIELDED, PT_EXITED
  <2>3. HasReturned(at, r)
    BY <1>1, <1>2, <2>1, <2>2, Returned DEF NestedInv
  <2>4. Places' = Places
    <3>1. at # 0
      BY <1>2
    <3>2. Places' = [Places EXCEPT ![t] = at]
      BY <1>1, <2>3, <3>1 DEF HasReturned
    <3> QED BY <1>3, <3>2 DEF Places
  <2>5. Children' = Children
    BY <1>1, <1>3, <2>2, <2>3 DEF HasReturned, Children
  <2> QED BY <1>2, <2>4, <2>5
<1> QED BY <1>4, <1>5, <1>6

LEMMA CodeImplements ==
  ASSUME NestedInv, NestedInv', NEW t \in Threads, Assign(t) \/ Jump(t)
  PROVE  Blocking!Step(t)
<1>1. /\ stack # <<>> /\ t = Innermost /\ result = NONE /\ ~Ops(at, t, Waits)
  BY ExecutesNoCall
<1>2. /\ lc' = [lc EXCEPT ![t] = lc[t]] /\ lc[t] \in 0 .. Len(Body[t])
      /\ UNCHANGED control
  BY StatementsAreComplete DEF Assign, Jump, NestedInv, PtInv, TypeOK
<1>3. Places[t] = at /\ Children[t] = "none" /\ Blocking!Active(t)
  BY <1>1, PlacesAre, ParentsAre DEF NestedInv
<1>4. ASSUME NEW i, GoTo(i)
      PROVE  Places' = [Places EXCEPT ![t] = i] /\ Children' = Children
  <2>1. /\ Places' = [Places EXCEPT ![t] = i]
        /\ Children' = [Children EXCEPT ![t] = "none"]
    BY <1>1, <1>2, <1>4, GoneOn DEF control, NestedInv
  <2> QED BY <1>3, <2>1 DEF Children
<1>5. CASE Assign(t)
  <2>1. /\ Ops(at, t, {"set"}) /\ GoTo(at + 1)
        /\ flag' = [flag EXCEPT ![Body[t][at].flag] = Body[t][at].is]
    BY <1>5 DEF Assign, Executing, Statement
  <2>2. /\ Blocking!At(t, {"set"}) /\ Blocking!Statement(t) = Body[t][at]
        /\ Blocking!GoTo(t, Places[t] + 1) /\ Children' = Children
    BY <1>3, <1>4, <2>1, BlockingDefs
  <2>3. Blocking!Assign(t)
    BY <2>1, <2>2 DEF Blocking!Assign, Places, Children
  <2> QED BY <1>3, <2>3 DEF Blocking!Step
<1>6. CASE Jump(t)
  <2>1. Ops(at, t, {"goto"}) /\ GoTo(Body[t][at].to) /\ flag' = flag
    BY <1>6 DEF Jump, Executing, Statement
  <2>2. /\ Blocking!At(t, {"goto"}) /\ Blocking!Statement(t) = Body[t][at]
        /\ Blocking!GoTo(t, Body[t][at].to) /\ Children' = Children
    BY <1>3, <1>4, <2>1, BlockingDefs
  <2>3. Blocking!Jump(t)
    BY <2>1, <2>2 DEF Blocking!Jump, Places, Children
  <2> QED BY <1>3, <2>3 DEF Blocking!Step
<1> QED BY <1>5, <1>6

(* A child that PT_SPAWN initialises has no continuation already. *)
LEMMA SpawnFinds ==
  ASSUME NestedInv, NEW t \in Threads, PT_SPAWN(t)
  PROVE  LET c == Body[t][at].thread
         IN  /\ stack # <<>> /\ t = Innermost /\ result = NONE
             /\ Ops(at, t, Waits) /\ c \in Threads /\ c # t /\ at # 0
             /\ label => at = lc[t]
             /\ ~label => lc[c] = 0
             /\ \A u \in Threads : lc'[u] = IF u = t THEN at ELSE lc[u]
             /\ at' = (IF lc[c] = 0 THEN 1 ELSE lc[c])
             /\ label' = (lc[c] # 0) /\ result' = NONE /\ flag' = flag
<1> DEFINE c == Body[t][at].thread
           v == IF Ops(at, t, {"spawn"}) /\ ~label THEN 0 ELSE lc[c]
<1>1. /\ stack # <<>> /\ t = Innermost /\ result = NONE
      /\ CallsAt(t, at, c) /\ c \in Threads /\ c # t
      /\ \A u \in Threads : lc'[u] = IF u = t THEN at ELSE IF u = c THEN v ELSE lc[u]
      /\ at' = (IF v = 0 THEN 1 ELSE v) /\ label' = (v # 0) /\ result' = NONE
      /\ flag' = flag
  BY SpawnIs DEF NestedInv
<1>2. label => at = lc[t]
  BY <1>1 DEF NestedInv, PtInv, Resumed
<1>3. IsTop(t) /\ Calls(t, c)
  BY <1>1, CallsAtCalls DEF IsTop
<1>4. at # 0 /\ Ops(at, t, Waits)
  BY <1>1, StatementsAreComplete DEF CallsAt
<1> HIDE DEF c
<1>5. ~label => lc[c] = 0
  BY <1>1, <1>3 DEF NestedInv, Nested
<1>6. v = lc[c]
  BY <1>5
<1> HIDE DEF v
<1> QED BY <1>1, <1>2, <1>4, <1>5, <1>6 DEF c

(* To be called changes nothing for the child, but its parent is waiting. *)
LEMMA SpawnImplements ==
  ASSUME NestedInv, NestedInv', NEW t \in Threads, PT_SPAWN(t)
  PROVE  Blocking!Step(t) \/ UNCHANGED <<flag, Places, Children>>
<1> DEFINE c == Body[t][at].thread
<1>1. /\ stack # <<>> /\ t = Innermost /\ result = NONE
      /\ Ops(at, t, Waits) /\ c \in Threads /\ c # t /\ at # 0
      /\ label => at = lc[t]
      /\ ~label => lc[c] = 0
      /\ \A u \in Threads : lc'[u] = IF u = t THEN at ELSE lc[u]
      /\ at' = (IF lc[c] = 0 THEN 1 ELSE lc[c])
      /\ label' = (lc[c] # 0) /\ result' = NONE /\ flag' = flag
  BY SpawnFinds
<1>2. /\ \A u : IsTop(u) <=> u = t
      /\ \A u : IsTop(u)' <=> u = c
  BY SpawnTops DEF NestedInv
<1> HIDE DEF c
<1>3. ASSUME NEW u \in Threads, u = t
      PROVE  /\ Place(u) = at /\ Child(u) = IF label THEN "running" ELSE "none"
             /\ Place(u)' = at /\ Child(u)' = "running"
  <2>1. Place(u) = at /\ Child(u) = IF label THEN Waiting(u) ELSE "none"
    BY <1>1, <1>2, <1>3, MappingHolds DEF Mapping, NestedInv
  <2>2. label => Waiting(u) = "running"
    BY <1>1, <1>3 DEF Waiting
  <2>3. Place(u)' = LastPlace(u)' /\ Child(u)' = Waiting(u)'
    BY <1>1, <1>2, <1>3, MappingWillHold DEF Mapping, NestedInv
  <2>4. LastPlace(u)' = at /\ Waiting(u)' = "running"
    BY <1>1, <1>3 DEF LastPlace, Waiting
  <2> QED BY <2>1, <2>2, <2>3, <2>4
<1>4. ASSUME NEW u \in Threads, u = c
      PROVE  /\ Place(u) = IF lc[u] = 0 THEN 1 ELSE lc[u]
             /\ Place(u)' = Place(u) /\ Child(u)' = Child(u)
  <2>1. Place(u) = LastPlace(u) /\ Child(u) = Waiting(u)
    BY <1>1, <1>2, <1>4, MappingHolds DEF Mapping, NestedInv
  <2>2. Place(u)' = at' /\ Child(u)' = IF label' THEN Waiting(u)' ELSE "none"
    BY <1>1, <1>2, <1>4, MappingWillHold DEF Mapping, NestedInv
  <2>3. Waiting(u)' = Waiting(u)
    BY <1>1, <1>4 DEF Waiting
  <2>4. ~label' => Waiting(u) = "none"
    BY <1>1, <1>4 DEF Waiting
  <2> QED BY <1>1, <1>4, <2>1, <2>2, <2>3, <2>4 DEF LastPlace
<1>5. ASSUME NEW u \in Threads, u # t, u # c
      PROVE  Place(u)' = Place(u) /\ Child(u)' = Child(u)
  BY <1>1, <1>2, <1>5, MappingHolds, MappingWillHold
     DEF Mapping, LastPlace, Waiting, NestedInv
<1>6. Places' = Places
  BY <1>3, <1>4, <1>5 DEF Places
<1>7. Children' = [Children EXCEPT ![t] = "running"]
  BY <1>3, <1>4, <1>5 DEF Children
<1>8. /\ Places[t] = at /\ Places[c] = IF lc[c] = 0 THEN 1 ELSE lc[c]
      /\ Children[t] = IF label THEN "running" ELSE "none"
  BY <1>1, <1>3, <1>4 DEF Places, Children
<1>9. CASE label
  <2>1. Children' = Children
    BY <1>7, <1>8, <1>9 DEF Children
  <2> QED BY <1>1, <1>6, <2>1
<1>10. CASE ~label
  <2>1. Blocking!Active(t)
    BY <1>1, ParentsAre DEF NestedInv
  <2>2. /\ Blocking!At(t, {"spawn", "wait_thread"}) /\ Children[t] = "none"
        /\ Blocking!Statement(t).thread = c
    BY <1>1, <1>8, <1>10, BlockingDefs DEF c, Waits
  <2>3. Places' = [Places EXCEPT ![c] = 1]
    <3>1. Places[c] = 1
      BY <1>1, <1>8, <1>10
    <3> QED BY <1>6, <3>1 DEF Places
  <2>4. Blocking!GoTo(c, 1)
    BY <2>3, BlockingDefs
  <2>5. IF Blocking!At(t, {"spawn"}) THEN Blocking!GoTo(Blocking!Statement(t).thread, 1)
        ELSE Places' = Places
    BY <1>6, <2>2, <2>4
  <2>6. Blocking!Start(t)
    BY <1>1, <1>7, <2>2, <2>5 DEF Blocking!Start, Places, Children
  <2> QED BY <2>1, <2>6 DEF Blocking!Step
<1> QED BY <1>9, <1>10

LEMMA WaitThreadImplements ==
  ASSUME NestedInv, NestedInv', NEW t \in Threads, WaitThread(t)
  PROVE  Blocking!Step(t) \/ UNCHANGED <<flag, Places, Children>>
<1>1. /\ stack # <<>> /\ t = Innermost /\ at = lc[t] /\ at \in 0 .. Len(Body[t])
      /\ lc' = [lc EXCEPT ![t] = at] /\ result # NONE /\ flag' = flag
  BY ResultIs DEF NestedInv, WaitThread
<1>2. Ops(at, t, Waits) /\ at # 0
  BY <1>1 DEF NestedInv, PtInv, TypeOK, Resumed
<1>3. Places[t] = at /\ Children[t] = IF PT_SCHEDULE(result) THEN "running" ELSE "done"
  <2>1. IsTop(t)
    BY <1>1 DEF IsTop
  <2>2. Place(t) = at /\ Child(t) = IF PT_SCHEDULE(result) THEN "running" ELSE "done"
    BY <1>1, <2>1, MappingHolds DEF Mapping, NestedInv
  <2> QED BY <2>2 DEF Places, Children
<1>4. CASE PT_SCHEDULE(result)
  <2>1. Return(PT_WAITING) /\ PT_WAITING \in Returns /\ PT_SCHEDULE(PT_WAITING)
    BY <1>4 DEF WaitThread, Returns, PT_SCHEDULE, PT_WAITING, PT_EXITED
  <2>2. PICK r \in Returns : Return(r) /\ PT_SCHEDULE(r)
    BY <2>1
  <2>3. HasReturned(at, r)
    <3>1. PtInv /\ PtInv' /\ stack # <<>> /\ t = Innermost
      BY <1>1 DEF NestedInv
    <3>2. at \in 0 .. Len(Body[t]) /\ lc' = [lc EXCEPT ![t] = at]
      BY <1>1
    <3> QED BY <2>2, <3>1, <3>2, Returned
  <2>4. Places' = Places
    <3>1. Places' = [Places EXCEPT ![t] = at]
      BY <1>1, <1>2, <2>3 DEF HasReturned
    <3> QED BY <1>3, <3>1 DEF Places
  <2>5. Children' = Children
    BY <1>1, <1>2, <1>3, <1>4, <2>2, <2>3 DEF HasReturned, Children
  <2> QED BY <1>1, <2>4, <2>5
<1>5. CASE ~PT_SCHEDULE(result)
  <2>1. GoTo(at + 1) /\ stack' = stack /\ result' = NONE
    BY <1>5 DEF WaitThread
  <2>2. /\ Places' = [Places EXCEPT ![t] = at + 1]
        /\ Children' = [Children EXCEPT ![t] = "none"]
    BY <1>1, <2>1, GoneOn DEF NestedInv
  <2>3. /\ Blocking!At(t, {"spawn", "wait_thread"}) /\ Children[t] = "done"
        /\ Blocking!GoTo(t, Places[t] + 1)
    BY <1>2, <1>3, <1>5, <2>2, BlockingDefs DEF Waits
  <2>4. Blocking!Join(t)
    BY <1>1, <2>2, <2>3 DEF Blocking!Join, Places, Children
  <2>5. Blocking!Active(t)
    BY <1>1, ParentsAre DEF NestedInv
  <2> QED BY <2>4, <2>5 DEF Blocking!Step
<1> QED BY <1>4, <1>5

LEMMA LeaveImplements ==
  ASSUME NestedInv, NestedInv', NEW t \in Threads,
         PT_RESTART(t) \/ PT_EXIT(t) \/ PT_END(t)
  PROVE  Blocking!Step(t)
<1>1. /\ stack # <<>> /\ t = Innermost /\ result = NONE /\ ~Ops(at, t, Waits)
  BY ExecutesNoCall
<1>2. /\ lc' = [lc EXCEPT ![t] = 0] /\ 0 \in 0 .. Len(Body[t]) /\ flag' = flag
  BY StatementsAreComplete DEF PT_RESTART, PT_EXIT, PT_END, PT_INIT
<1>3. Places[t] = at /\ Children[t] = "none" /\ Blocking!Active(t)
  BY <1>1, PlacesAre, ParentsAre DEF NestedInv
<1>4. ASSUME NEW r \in Returns, Return(r)
      PROVE  /\ Blocking!GoTo(t, 1)
             /\ Children' =
                  [u \in Threads |->
                     IF u \in Blocking!Parents(t) /\ Children[u] = "running"
                        /\ ~PT_SCHEDULE(r)
                     THEN "done" ELSE Children[u]]
  <2>1. ASSUME NEW v \in 0 .. Len(Body[t]), v = 0 PROVE HasReturned(v, r)
    <3>1. PtInv /\ PtInv' /\ stack # <<>> /\ t = Innermost
      BY <1>1 DEF NestedInv
    <3>2. v \in 0 .. Len(Body[t]) /\ lc' = [lc EXCEPT ![t] = v]
      BY <1>2, <2>1
    <3> QED BY <1>4, <3>1, <3>2, Returned
  <2>2. /\ Places' = [Places EXCEPT ![t] = 1]
        /\ Children' =
             [u \in Threads |->
                IF u = t THEN "none"
                ELSE IF Len(stack) > 1 /\ u = stack[Len(stack) - 1] /\ ~PT_SCHEDULE(r)
                     THEN "done" ELSE Children[u]]
    BY <1>1, <1>2, <2>1 DEF HasReturned
  <2>3. \A u : u \in Blocking!Parents(t) /\ u # t /\ Children[u] = "running"
                 <=> Len(stack) > 1 /\ u = stack[Len(stack) - 1]
    BY <1>1, ParentsAre DEF NestedInv
  <2>4. Children' =
          [u \in Threads |->
             IF u \in Blocking!Parents(t) /\ Children[u] = "running"
                /\ ~PT_SCHEDULE(r)
             THEN "done" ELSE Children[u]]
    <3>1. ASSUME NEW u \in Threads
          PROVE  (IF u = t THEN "none"
                  ELSE IF Len(stack) > 1 /\ u = stack[Len(stack) - 1] /\ ~PT_SCHEDULE(r)
                       THEN "done" ELSE Children[u])
                 = (IF u \in Blocking!Parents(t) /\ Children[u] = "running"
                       /\ ~PT_SCHEDULE(r)
                    THEN "done" ELSE Children[u])
      BY <1>3, <2>3
    <3> QED BY <2>2, <3>1
  <2>5. Blocking!GoTo(t, 1)
    BY <2>2, BlockingDefs
  <2> QED BY <2>4, <2>5
<1>5. CASE PT_RESTART(t)
  <2>1. Ops(at, t, {"restart"}) /\ Return(PT_WAITING)
    BY <1>5 DEF PT_RESTART, Executing
  <2>2. PT_WAITING \in Returns /\ PT_SCHEDULE(PT_WAITING)
    BY DEF Returns, PT_SCHEDULE, PT_WAITING, PT_EXITED
  <2>3. Blocking!GoTo(t, 1) /\ Children' = Children
    <3>1. Children' = [u \in Threads |-> Children[u]]
      BY <1>4, <2>1, <2>2
    <3> QED BY <1>4, <2>1, <2>2, <3>1 DEF Children
  <2>4. Blocking!At(t, {"restart"})
    BY <1>3, <2>1, BlockingDefs
  <2>5. Blocking!Jump(t)
    BY <1>2, <2>3, <2>4 DEF Blocking!Jump, Children
  <2> QED BY <1>3, <2>5 DEF Blocking!Step
<1>6. CASE PT_EXIT(t) \/ PT_END(t)
  <2>1. \/ Ops(at, t, {"exit"}) /\ Return(PT_EXITED)
        \/ at > Len(Body[t]) /\ Return(PT_ENDED)
    BY <1>6 DEF PT_EXIT, PT_END, Executing
  <2>2. /\ PT_EXITED \in Returns /\ PT_ENDED \in Returns
        /\ ~PT_SCHEDULE(PT_EXITED) /\ ~PT_SCHEDULE(PT_ENDED)
    BY DEF Returns, PT_SCHEDULE, PT_ENDED, PT_EXITED
  <2>3. /\ Blocking!GoTo(t, 1)
        /\ Children' =
             [u \in Threads |->
                IF u \in Blocking!Parents(t) /\ Children[u] = "running"
                THEN "done" ELSE Children[u]]
    BY <1>4, <2>1, <2>2
  <2>4. Blocking!At(t, {"exit"}) \/ Places[t] > Len(Body[t])
    BY <1>3, <2>1, BlockingDefs
  <2>5. Blocking!Finish(t)
    BY <1>2, <2>3, <2>4 DEF Blocking!Finish, Places, Children
  <2> QED BY <1>3, <2>5 DEF Blocking!Step
<1> QED BY <1>5, <1>6

(* The main loop's call of a thread is a step of no thread. *)
LEMMA MainImplements ==
  ASSUME NestedInv, NestedInv', Main
  PROVE  UNCHANGED <<flag, Places, Children>>
<1> DEFINE c == Roots[turn]
<1>1. /\ stack = <<>> /\ stack' = Append(stack, c) /\ lc' = lc /\ flag' = flag
      /\ at' = (IF lc[c] = 0 THEN 1 ELSE lc[c])
      /\ label' = (lc[c] # 0) /\ result' = NONE
  BY DEF Main, PT_BEGIN
<1>2. \A u : ~IsTop(u)
  BY <1>1 DEF IsTop
<1>3. \A u : IsTop(u)' <=> u = c
  BY <1>1 DEF IsTop, Innermost
<1> HIDE DEF c
<1>4. ASSUME NEW u \in Threads
      PROVE  Place(u)' = Place(u) /\ Child(u)' = Child(u)
  <2>1. Place(u) = LastPlace(u) /\ Child(u) = Waiting(u)
    BY <1>2, MappingHolds DEF Mapping, NestedInv
  <2>2. LastPlace(u)' = LastPlace(u) /\ Waiting(u)' = Waiting(u)
    BY <1>1 DEF LastPlace, Waiting
  <2>3. CASE u # c
    BY <1>3, <2>1, <2>2, <2>3, MappingWillHold DEF Mapping, NestedInv
  <2>4. CASE u = c
    <3>1. Place(u)' = at' /\ Child(u)' = IF label' THEN Waiting(u)' ELSE "none"
      BY <1>1, <1>3, <2>4, MappingWillHold DEF Mapping, NestedInv
    <3> QED BY <1>1, <2>1, <2>2, <2>4, <3>1 DEF LastPlace, Waiting
  <2> QED BY <2>3, <2>4
<1> QED BY <1>1, <1>4 DEF Places, Children

LEMMA StepImplements ==
  NestedInv /\ NestedInv' /\ [Next]_vars => [Blocking!Next]_<<flag, Places, Children>>
<1> SUFFICES ASSUME NestedInv, NestedInv', [Next]_vars
             PROVE  [Blocking!Next]_<<flag, Places, Children>>
  OBVIOUS
<1>1. CASE Main
  BY <1>1, MainImplements
<1>2. ASSUME NEW t \in Threads,
             \/ PT_WAIT_UNTIL(t) \/ PT_YIELD(t) \/ PT_SPAWN(t) \/ WaitThread(t)
             \/ PT_RESTART(t) \/ PT_EXIT(t) \/ PT_END(t) \/ Assign(t) \/ Jump(t)
      PROVE  Blocking!Step(t) \/ UNCHANGED <<flag, Places, Children>>
  BY <1>2, WaitImplements, SpawnImplements, WaitThreadImplements, LeaveImplements,
     CodeImplements
<1>3. CASE Environment
  <2>1. UNCHANGED <<Places, Children>>
    BY <1>3 DEF Environment, control, Places, Children, Place, Child, Current, Top
  <2>2. Blocking!Environment
    BY <1>3, <2>1 DEF Environment, Blocking!Environment, Places, Children
  <2> QED BY <2>2 DEF Blocking!Next
<1>4. CASE UNCHANGED vars
  BY <1>4 DEF vars, Places, Children, Place, Child, Current, Top
<1> QED BY <1>1, <1>2, <1>3, <1>4 DEF Next, Program, Blocking!Next

LEMMA InitImplements == Init => Blocking!Init
<1> SUFFICES ASSUME Init PROVE Blocking!Init
  OBVIOUS
<1>1. \A t \in Threads : Place(t) = 1 /\ Child(t) = "none"
  BY DEF Init, Place, Child, Current, Top
<1> QED BY <1>1 DEF Init, Blocking!Init

(* Threads that return at every wait run through their statements as       *)
(* threads that block do: every step of pt.h's macros is one of theirs, or *)
(* none. *)
THEOREM ThreadsImplemented == Spec => ImplementsThreads
<1>1. NestedInv /\ NestedInv' /\ [Next]_vars => [Blocking!Next]_Blocking!vars
  BY StepImplements DEF Blocking!vars, Places, Children
<1> QED BY <1>1, InitImplements, NestedInvHolds, PTL
        DEF Spec, ImplementsThreads, Blocking!Spec

(* A thread that yields goes on only when it has been called once more. *)
THEOREM YieldsReturn == Spec => YieldsGiveWay
<1>1. ASSUME PtInv, [Next]_vars, NEW t \in Threads,
             Executing(t, {"yield", "yield_until"}), Len(stack') = Len(stack), at' # at
      PROVE  label
  <2>1. /\ stack # <<>> /\ t = Innermost /\ result = NONE
        /\ \A u : Top(u) <=> u = t
        /\ at <= Len(Body[t]) /\ Body[t][at].op \in {"yield", "yield_until"}
    BY <1>1, TopIs DEF Executing, Ops, PtInv
  <2>2. ~(at > Len(Body[t]))
    BY <1>1, <2>1, StatementsAreComplete DEF PtInv, TypeOK
  <2>3. \A r : ~Return(r)
    <3>1. stack \in Seq(Threads)
      BY <1>1 DEF PtInv, TypeOK
    <3>2. Len(Front(stack)) = Len(stack) - 1 /\ Len(stack) \in Nat
      BY <2>1, <3>1, FrontIs
    <3>3. Len(Front(stack)) # Len(stack)
      BY <3>2
    <3> QED BY <1>1, <3>3 DEF Return
  <2>4. PICK u \in Threads : \/ PT_WAIT_UNTIL(u) \/ PT_YIELD(u) \/ PT_SPAWN(u)
                            \/ WaitThread(u) \/ PT_RESTART(u) \/ PT_EXIT(u)
                            \/ PT_END(u) \/ Assign(u) \/ Jump(u)
    BY <1>1, <2>1 DEF Next, Program, Main, Environment, vars
  <2>5. PT_YIELD(t)
    BY <2>1, <2>2, <2>3, <2>4
       DEF PT_WAIT_UNTIL, PT_SPAWN, WaitThread, PT_RESTART, PT_EXIT, PT_END, Assign,
           Jump, Executing, PT_YIELD, Ops
  <2>6. PT_YIELD_FLAG'[t] # 0
    BY <2>3, <2>5 DEF PT_YIELD
  <2> QED BY <1>1, <2>5, <2>6 DEF PT_YIELD, PtInv, TypeOK
<1>2. PtInv /\ [Next]_vars =>
        [\A t \in Threads :
           Executing(t, {"yield", "yield_until"}) /\ Len(stack') = Len(stack)
             /\ at' # at => label]_vars
  BY <1>1
<1> QED BY <1>2, PtInvHolds, PTL DEF Spec, YieldsGiveWay

-----------------------------------------------------------------------------
(* The two threads of example-small.c take turns: by where each of them is *)
(* and what their flags are, there are four stages.                        *)
TakeTurns ==
  LET a == Places["protothread1"]
      b == Places["protothread2"]
  IN  \/ b \in {1, 4} /\ a \in {1, 4} /\ flag["flag1"] = 0 /\ flag["flag2"] = 0
      \/ b = 2 /\ a \in {1, 2, 4} /\ flag["flag1"] = 0 /\ flag["flag2"] = 1
      \/ b = 2 /\ a = 3 /\ flag["flag1"] = 0 /\ flag["flag2"] = 0
      \/ b \in {2, 3} /\ a \in {1, 4} /\ flag["flag1"] = 1 /\ flag["flag2"] = 0

LEMMA TheirStatements ==
  LET p == "protothread1"
      q == "protothread2"
  IN  /\ p \in Threads /\ q \in Threads /\ p # q
      /\ Len(Body[p]) = 4 /\ Len(Body[q]) = 4
      /\ Body[p][1] = Wait("flag2", 1) /\ Body[p][2] = Set("flag2", 0)
      /\ Body[p][3] = Set("flag1", 1) /\ Body[p][4] = Goto(1)
      /\ Body[q][1] = Set("flag2", 1) /\ Body[q][2] = Wait("flag1", 1)
      /\ Body[q][3] = Set("flag1", 0) /\ Body[q][4] = Goto(1)
BY ExampleSmall DEF Two, protothread1, protothread2

LEMMA StatementRecords ==
  ASSUME NEW f, NEW v
  PROVE  /\ Wait(f, v).op = "wait" /\ Wait(f, v).flag = f /\ Wait(f, v).is = v
         /\ Set(f, v).op = "set" /\ Set(f, v).flag = f /\ Set(f, v).is = v
         /\ Goto(v).op = "goto" /\ Goto(v).to = v
BY DEF Wait, Set, Goto

(* A step of a thread that blocks, by its statement. *)
LEMMA StepIs ==
  ASSUME NEW t \in Two, PtInv, Places[t] \in 1 .. 4, Blocking!Step(t)
  PROVE  LET s == Body[t][Places[t]]
         IN  /\ s.op = "wait" => /\ flag[s.flag] = s.is /\ flag' = flag
                                 /\ Places' = [Places EXCEPT ![t] = Places[t] + 1]
             /\ s.op = "set" => /\ flag' = [flag EXCEPT ![s.flag] = s.is]
                                /\ Places' = [Places EXCEPT ![t] = Places[t] + 1]
             /\ s.op = "goto" => /\ flag' = flag
                                 /\ Places' = [Places EXCEPT ![t] = s.to]
<1> DEFINE s == Body[t][Places[t]]
<1>1. /\ \A ops : Blocking!At(t, ops) => s.op \in ops
      /\ Blocking!Statement(t) = s
      /\ \A i : Blocking!GoTo(t, i) => Places' = [Places EXCEPT ![t] = i]
  BY BlockingDefs DEF Ops
<1>2. ~(Places[t] > Len(Body[t]))
  BY TheirStatements DEF Two
<1>3. \/ Blocking!Pass(t) \/ Blocking!Assign(t) \/ Blocking!Jump(t)
      \/ Blocking!At(t, {"exit"}) \/ Blocking!At(t, {"spawn", "wait_thread"})
  BY <1>2 DEF Blocking!Step, Blocking!Finish, Blocking!Start, Blocking!Join, Places
<1>4. CASE Blocking!Pass(t)
  <2>1. /\ \/ s.op = "yield"
           \/ s.op \in {"wait", "yield_until"} /\ flag[s.flag] = s.is
        /\ flag' = flag
    BY <1>1, <1>4, BlockingDefs DEF Blocking!Pass, Holds
  <2>2. Places' = [Places EXCEPT ![t] = Places[t] + 1]
    BY <1>1, <1>4 DEF Blocking!Pass, Places
  <2> QED BY <2>1, <2>2
<1>5. CASE Blocking!Assign(t)
  <2>1. s.op = "set" /\ flag' = [flag EXCEPT ![s.flag] = s.is]
    BY <1>1, <1>5 DEF Blocking!Assign
  <2>2. Places' = [Places EXCEPT ![t] = Places[t] + 1]
    BY <1>1, <1>5 DEF Blocking!Assign, Places
  <2> QED BY <2>1, <2>2
<1>6. CASE Blocking!Jump(t)
  BY <1>1, <1>6 DEF Blocking!Jump
<1>7. CASE Blocking!At(t, {"exit"}) \/ Blocking!At(t, {"spawn", "wait_thread"})
  BY <1>1, <1>7
<1> QED BY <1>3, <1>4, <1>5, <1>6, <1>7

(* The other threads leave them and their flags alone. *)
LEMMA OthersStep ==
  ASSUME PtInv, NEW t \in Threads \ Two, Blocking!Step(t), NEW c \in Two
  PROVE  /\ Places'[c] = Places[c]
         /\ flag'["flag1"] = flag["flag1"] /\ flag'["flag2"] = flag["flag2"]
<1>1. /\ \A u \in Threads : Places[u] \in Nat \ {0} /\ Places[u] = Place(u)
      /\ Places = [u \in Threads |-> Places[u]]
      /\ flag \in [Flags -> 0 .. 1]
      /\ c \in Threads /\ c # t
  BY ExampleSmall DEF PtInv, TypeOK, Places, Place
<1>2. \A i : Blocking!GoTo(t, i) => Places'[c] = Places[c]
  BY <1>1, BlockingDefs
<1>3. Blocking!At(t, {"spawn", "wait_thread"}) => Blocking!Statement(t).thread # c
  <2> SUFFICES ASSUME Blocking!At(t, {"spawn", "wait_thread"}) PROVE Body[t][Places[t]].thread # c
    BY BlockingDefs
  <2>1. Ops(Places[t], t, Waits)
    BY BlockingDefs DEF Waits
  <2>2. Places[t] \in 1 .. Len(Body[t])
    BY <1>1, <2>1, StatementIs
  <2> QED BY <2>1, <2>2, ExampleSmall DEF Calls
<1>4. Blocking!At(t, {"set"}) => Blocking!Statement(t).flag \notin {"flag1", "flag2"}
  <2> SUFFICES ASSUME Blocking!At(t, {"set"})
               PROVE  Body[t][Places[t]].flag \notin {"flag1", "flag2"}
    BY BlockingDefs
  <2>1. Ops(Places[t], t, {"set"})
    BY BlockingDefs
  <2>2. Places[t] \in 1 .. Len(Body[t])
    BY <1>1, <2>1, StatementIs
  <2> QED BY <2>1, <2>2, ExampleSmall
<1>5. Places'[c] = Places[c]
  <2>1. CASE Blocking!Start(t)
    <3>1. \/ Blocking!GoTo(Blocking!Statement(t).thread, 1)
          \/ Places' = Places
      BY <2>1 DEF Blocking!Start, Places
    <3>2. Blocking!Statement(t).thread # c
      BY <1>3, <2>1 DEF Blocking!Start
    <3>3. \A d, i : Blocking!GoTo(d, i) => Places' = [Places EXCEPT ![d] = i]
      BY BlockingDefs
    <3> QED BY <1>1, <3>1, <3>2, <3>3
  <2>2. CASE \/ Blocking!Pass(t) \/ Blocking!Assign(t) \/ Blocking!Jump(t)
             \/ Blocking!Finish(t) \/ Blocking!Join(t)
    BY <1>2, <2>2 DEF Blocking!Pass, Blocking!Assign, Blocking!Jump, Blocking!Finish,
                      Blocking!Join
  <2> QED BY <2>1, <2>2 DEF Blocking!Step
<1>6. flag'["flag1"] = flag["flag1"] /\ flag'["flag2"] = flag["flag2"]
  <2>1. CASE Blocking!Assign(t)
    BY <1>1, <1>4, <2>1, ExampleSmall DEF Blocking!Assign
  <2>2. CASE \/ Blocking!Pass(t) \/ Blocking!Start(t) \/ Blocking!Jump(t)
             \/ Blocking!Finish(t) \/ Blocking!Join(t)
    BY <2>2 DEF Blocking!Pass, Blocking!Start, Blocking!Jump, Blocking!Finish,
                Blocking!Join
  <2> QED BY <2>1, <2>2 DEF Blocking!Step
<1> QED BY <1>5, <1>6

LEMMA TurnsStep ==
  ASSUME PtInv, TakeTurns, [Blocking!Next]_<<flag, Places, Children>>
  PROVE  TakeTurns'
<1> DEFINE p == "protothread1"
           q == "protothread2"
           a == Places[p]
           b == Places[q]
<1>1. /\ flag \in [Flags -> 0 .. 1]
      /\ "flag1" \in Flags \ Inputs /\ "flag2" \in Flags \ Inputs
      /\ p \in Two /\ q \in Two /\ p # q
      /\ Places = [u \in Threads |-> Places[u]] /\ p \in Threads /\ q \in Threads
  BY ExampleSmall DEF PtInv, TypeOK, Places, Two
<1>2. a \in 1 .. 4 /\ b \in 1 .. 4
  BY DEF TakeTurns
<1>3. CASE Blocking!Step(p)
  <2>1. /\ a = 1 => flag["flag2"] = 1 /\ flag' = flag /\ Places'[p] = 2
        /\ a = 2 => flag' = [flag EXCEPT !["flag2"] = 0] /\ Places'[p] = 3
        /\ a = 3 => flag' = [flag EXCEPT !["flag1"] = 1] /\ Places'[p] = 4
        /\ a = 4 => flag' = flag /\ Places'[p] = 1
        /\ Places'[q] = Places[q]
    <3>1. Body[p][a].op \in {"wait", "set", "goto"}
      BY <1>2, TheirStatements, StatementRecords
    <3> QED BY <1>1, <1>2, <1>3, <3>1, StepIs, TheirStatements, StatementRecords
  <2> QED BY <1>1, <1>2, <2>1 DEF TakeTurns
<1>4. CASE Blocking!Step(q)
  <2>1. /\ b = 1 => flag' = [flag EXCEPT !["flag2"] = 1] /\ Places'[q] = 2
        /\ b = 2 => flag["flag1"] = 1 /\ flag' = flag /\ Places'[q] = 3
        /\ b = 3 => flag' = [flag EXCEPT !["flag1"] = 0] /\ Places'[q] = 4
        /\ b = 4 => flag' = flag /\ Places'[q] = 1
        /\ Places'[p] = Places[p]
    <3>1. Body[q][b].op \in {"wait", "set", "goto"}
      BY <1>2, TheirStatements, StatementRecords
    <3> QED BY <1>1, <1>2, <1>4, <3>1, StepIs, TheirStatements, StatementRecords
  <2> QED BY <1>1, <1>2, <2>1 DEF TakeTurns
<1>5. ASSUME NEW t \in Threads \ Two, Blocking!Step(t) PROVE TakeTurns'
  BY <1>1, <1>5, OthersStep DEF TakeTurns
<1>6. CASE Blocking!Environment
  <2>1. Places' = Places
    BY <1>6 DEF Blocking!Environment, Places
  <2>2. flag'["flag1"] = flag["flag1"] /\ flag'["flag2"] = flag["flag2"]
    BY <1>1, <1>6 DEF Blocking!Environment
  <2> QED BY <2>1, <2>2 DEF TakeTurns
<1>7. CASE UNCHANGED <<flag, Places, Children>>
  BY <1>7 DEF TakeTurns
<1> QED BY <1>3, <1>4, <1>5, <1>6, <1>7 DEF Blocking!Next, Two

(* The flags of example-small.c are never set both, whatever else the main *)
(* loop runs beside the two threads: shown of threads that block, which    *)
(* protothreads implement. *)
THEOREM FlagsNeverBoth == Spec => []FlagsAlternate
<1>1. Init => TakeTurns
  <2> SUFFICES ASSUME Init PROVE TakeTurns
    OBVIOUS
  <2>1. \A t \in Threads : Place(t) = 1
    BY DEF Init, Place, Current, Top
  <2>2. Places["protothread1"] = 1 /\ Places["protothread2"] = 1
    BY <2>1, TheirStatements DEF Places
  <2> QED BY <2>2, ExampleSmall DEF Init, TakeTurns
<1>2. NestedInv /\ NestedInv' /\ TakeTurns /\ [Next]_vars => TakeTurns'
  BY StepImplements, TurnsStep DEF NestedInv
<1>3. TakeTurns => FlagsAlternate
  BY DEF TakeTurns, FlagsAlternate
<1> QED BY <1>1, <1>2, <1>3, NestedInvHolds, PTL DEF Spec
=============================================================================
