--------------------------- MODULE CodeLockProofs ---------------------------
(***************************************************************************)
(* What CodeLock guarantees whatever the greatest delay of an iteration    *)
(* is: how the keys that the lock has counted, its timer and the time      *)
(* since the last key hang together.                                       *)
(***************************************************************************)
EXTENDS CodeLock, TLAPS

(* The keys that the lock has counted, by the wait it is in. *)
Counted ==
  /\ lc = "first" => keys = 0
  /\ lc = "next" => keys \in 1 .. 3
  /\ lc \in {"final", "open"} => keys = 4

(* Where the main loop is: the lock has read the keyboard before the user  *)
(* is asked, and a wait that goes on to it has time left.                  *)
Turns ==
  /\ turn = "input" => ~key_pressed_flag
  /\ turn = "input" /\ lc # "first" => codelock_timer > 0
  /\ turn = "stopped" <=> lc = "open"

(* No key has been pressed since the lock read the last one: it has        *)
(* counted what was pressed, and its timer tells the time since then.      *)
UpToDate ==
  ~key_pressed_flag /\ lc \in {"next", "final"} =>
    /\ matched = keys
    /\ lc = "next" /\ codelock_timer > 0 => quiet + codelock_timer <= Late
    /\ lc = "final" => quiet + codelock_timer >= OpenTime

(* A key has been pressed that the lock has not read yet. *)
Pending ==
  key_pressed_flag =>
    /\ turn = "time" => quiet = 0
    /\ quiet <= MaxDelay
    /\ lc = "first" /\ key = code[1] => matched = 1
    /\ lc = "next" /\ codelock_timer > 0 /\ key = code[keys + 1] =>
         matched = keys + 1
    /\ lc = "final" => before = 4

LockInv == TypeOK /\ Counted /\ Turns /\ UpToDate /\ Pending /\ OpensAfterCode
-----------------------------------------------------------------------------
LEMMA CodeIs ==
  /\ Len(code) = 4
  /\ code[1] = "1" /\ code[2] = "4" /\ code[3] = "2" /\ code[4] = "3"
  /\ Keys = {"1", "4", "2", "3"}
<1>1. /\ Len(code) = 4 /\ DOMAIN code = {1, 2, 3, 4}
      /\ code[1] = "1" /\ code[2] = "4" /\ code[3] = "2" /\ code[4] = "3"
  BY DEF code
<1>2. Keys = {code[i] : i \in {1, 2, 3, 4}}
  BY <1>1 DEF Keys, ToSet
<1> HIDE DEF code
<1> QED BY <1>1, <1>2

(* No key of the code occurs twice. *)
LEMMA CodeIsDistinct ==
  /\ \A i \in 1 .. 4 : code[i] \in Keys
  /\ \A i, j \in 1 .. 4 : code[i] = code[j] => i = j
<1>1. 1 .. 4 = {1, 2, 3, 4}
  OBVIOUS
<1> QED BY <1>1, CodeIs

LEMMA ScriptIs ==
  /\ LastWait = 17
  /\ \A n \in 1 .. 17 : input[n][1] \in 0 .. 20
  /\ \A n \in 1 .. 16 : input[n][2] \in Keys
<1>1. LastWait = 17
  BY DEF LastWait, input
<1>2. 1 .. 17 = {1, 2, 3, 4, 5, 6, 7, 8, 9, 10, 11, 12, 13, 14, 15, 16, 17}
  OBVIOUS
<1>3. \A n \in 1 .. 17 : input[n][1] \in 0 .. 20
  BY <1>2 DEF input
<1>4. 1 .. 16 = {1, 2, 3, 4, 5, 6, 7, 8, 9, 10, 11, 12, 13, 14, 15, 16}
  OBVIOUS
<1>5. \A n \in 1 .. 16 : input[n][2] \in {"1", "4", "2", "3"}
  BY <1>4 DEF input
<1> QED BY <1>1, <1>3, <1>5, CodeIs

LEMMA LockInit == Init => LockInv
<1> SUFFICES ASSUME Init PROVE LockInv
  OBVIOUS
<1>1. TypeOK
  <2>1. 0 \in 0 .. Len(code) /\ 0 \in 0 .. LastWait
    BY CodeIs, ScriptIs
  <2>2. 0 \in 0 .. KeyTime /\ 0 \in 0 .. Late
    BY DelayIsFinite DEF Late, KeyTime
  <2>3. key_pressed_flag \in BOOLEAN
    BY Zenon DEF Init
  <2> QED BY <2>1, <2>2, <2>3 DEF Init, TypeOK
<1>2. Counted /\ Turns /\ UpToDate /\ Pending /\ OpensAfterCode
  BY DEF Init, Counted, Turns, UpToDate, Pending, OpensAfterCode
<1> QED BY <1>1, <1>2 DEF LockInv

LEMMA BlockKeeps == LockInv /\ Block => LockInv'
BY CodeIs
   DEF LockInv, TypeOK, Counted, Turns, UpToDate, Pending, OpensAfterCode,
       Block, Goes, timer_expired, keyboard, history
(* The lock reads the key that is due. *)
LEMMA ReadKeyKeeps == LockInv /\ ReadKey => LockInv'
<1> SUFFICES ASSUME LockInv, ReadKey PROVE LockInv'
  OBVIOUS
<1> USE CodeIs, DelayIsFinite DEF LockInv, TypeOK
<1>1. /\ key_pressed_flag' = FALSE /\ turn' = "input"
      /\ UNCHANGED <<key, user, matched, before, quiet, input_timer, script>>
  BY DEF ReadKey, Continue, WaitAgain, history
<1> key_pressed_flag' \in BOOLEAN
  BY <1>1, Zenon
<1>2. CASE lc = "first"
  <2>1. /\ turn = "codelock" /\ key = code[1]
        /\ keys' = 1 /\ lc' = "next" /\ codelock_timer' = KeyTime
    BY <1>2 DEF ReadKey, Continue, WaitAgain, Counted
  <2>2. matched = 1 /\ quiet <= MaxDelay
    BY <1>2, <2>1 DEF ReadKey, Continue, Goes, Pending
  <2>3. TypeOK'
    BY <1>1, <2>1 DEF KeyTime
  <2>4. Counted' /\ Turns' /\ Pending' /\ OpensAfterCode'
    BY <1>1, <2>1 DEF Counted, Turns, Pending, OpensAfterCode, KeyTime
  <2>5. UpToDate'
    BY <1>1, <2>1, <2>2 DEF UpToDate, Late, KeyTime
  <2> QED BY <2>3, <2>4, <2>5
<1>3. CASE lc = "next"
  <2>1. /\ turn = "codelock" /\ key = code[keys + 1] /\ codelock_timer > 0
        /\ keys \in 1 .. 3 /\ keys' = keys + 1
        /\ IF keys = 3 THEN lc' = "final" /\ codelock_timer' = OpenTime
                       ELSE lc' = "next" /\ codelock_timer' = KeyTime
    BY <1>3 DEF ReadKey, Continue, WaitAgain, Counted, timer_expired
  <2>2. key_pressed_flag
    BY <1>3, <2>1 DEF ReadKey, Continue, Goes, timer_expired
  <2>3. matched = keys + 1 /\ quiet <= MaxDelay
    BY <1>3, <2>1, <2>2 DEF Pending
  <2>4. TypeOK'
    BY <1>1, <2>1 DEF KeyTime, OpenTime
  <2>5. Counted' /\ Turns' /\ Pending' /\ OpensAfterCode'
    BY <1>1, <2>1
       DEF Counted, Turns, Pending, OpensAfterCode, KeyTime, OpenTime
  <2>6. UpToDate'
    BY <1>1, <2>1, <2>3 DEF UpToDate, Late, KeyTime, OpenTime
  <2> QED BY <2>4, <2>5, <2>6
<1> QED BY <1>2, <1>3 DEF ReadKey, Continue

(* The lock starts over. *)
LEMMA StartOverKeeps == LockInv /\ StartOver => LockInv'
<1> SUFFICES ASSUME LockInv, StartOver PROVE LockInv'
  OBVIOUS
<1>1. /\ key_pressed_flag' = FALSE /\ turn' = "input"
      /\ keys' = 0 /\ lc' = "first"
      /\ UNCHANGED <<key, user, matched, before, quiet, input_timer, script,
                     codelock_timer>>
  BY DEF StartOver, Continue, WaitAgain, history
<1> key_pressed_flag' \in BOOLEAN
  BY <1>1, Zenon
<1>2. TypeOK'
  BY <1>1, CodeIs DEF LockInv, TypeOK
<1>3. Counted' /\ Turns' /\ UpToDate' /\ Pending' /\ OpensAfterCode'
  BY <1>1 DEF Counted, Turns, UpToDate, Pending, OpensAfterCode
<1> QED BY <1>2, <1>3 DEF LockInv

(* The lock opens: half a second after the last key, or a key was pressed  *)
(* in the last iteration, after the four.                                  *)
LEMMA OpenKeeps == LockInv /\ Open => LockInv'
<1> SUFFICES ASSUME LockInv, Open PROVE LockInv'
  OBVIOUS
<1> USE CodeIs, DelayIsFinite DEF LockInv, TypeOK
<1>1. /\ key_pressed_flag' = FALSE /\ turn' = "stopped" /\ lc' = "open"
      /\ lc = "final" /\ codelock_timer = 0
      /\ UNCHANGED <<key, user, matched, before, quiet, input_timer, script,
                     codelock_timer, keys>>
  BY DEF Open, Continue, history, timer_expired
<1>2. keys = 4
  BY <1>1 DEF Counted
<1>3. TypeOK'
  <2>1. key_pressed_flag' \in BOOLEAN
    BY <1>1, Zenon
  <2> QED BY <1>1, <2>1
<1>4. Counted' /\ Turns' /\ UpToDate' /\ Pending'
  BY <1>1, <1>2 DEF Counted, Turns, UpToDate, Pending
<1>5. OpensAfterCode'
  <2>1. CASE key_pressed_flag
    BY <1>1, <2>1 DEF Pending, OpensAfterCode
  <2>2. CASE ~key_pressed_flag
    BY <1>1, <1>2, <2>2 DEF UpToDate, OpensAfterCode, OpenTime
  <2> QED BY <2>1, <2>2
<1> QED BY <1>3, <1>4, <1>5

(* A key is pressed: it continues the row if the lock still waits for it.  *)
LEMMA PressKeeps ==
  ASSUME LockInv, turn = "input", NEW k \in Keys, press_key(k),
         turn' = "time", UNCHANGED <<keys, lc, codelock_timer>>,
         script' \in 0 .. LastWait, input_timer' \in 0 .. 20
  PROVE  LockInv'
<1> USE CodeIs, DelayIsFinite
<1>1. ~key_pressed_flag /\ (lc # "first" => codelock_timer > 0)
  BY DEF LockInv, Turns
<1>2. /\ key' = k /\ key_pressed_flag' = TRUE /\ before' = matched
      /\ matched' \in 0 .. 4 /\ quiet' = 0 /\ user' = user
      /\ 4 \in Nat /\ matched \in 0 .. 4
  BY DEF press_key, Follows, LockInv, TypeOK
<1>3. TypeOK'
  BY <1>2 DEF LockInv, TypeOK, Late, KeyTime
<1>4. lc = "first" /\ k = code[1] => matched' = 1
  BY CodeIsDistinct DEF press_key, Follows, LockInv, TypeOK
<1>5. lc = "next" /\ k = code[keys + 1] => matched' = keys + 1
  <2> SUFFICES ASSUME lc = "next", k = code[keys + 1]
               PROVE  matched' = keys + 1
    OBVIOUS
  <2>1. keys \in 1 .. 3 /\ matched = keys /\ quiet + codelock_timer <= Late
    BY <1>1 DEF LockInv, Counted, UpToDate
  <2>2. Follows(k)
    <3>1. quiet < Late
      BY <1>1, <2>1 DEF LockInv, TypeOK, Late, KeyTime
    <3>2. k = code[matched + 1] /\ matched < 4
      BY <2>1
    <3> QED BY <3>1, <3>2, CodeIs DEF Follows
  <2> QED BY <2>1, <2>2 DEF press_key
<1>6. lc = "final" => before' = 4
  BY <1>1, <1>2 DEF LockInv, Counted, UpToDate
<1>7. Counted' /\ UpToDate' /\ OpensAfterCode' /\ Turns'
  BY <1>2 DEF LockInv, Counted, UpToDate, OpensAfterCode, Turns
<1>8. Pending'
  BY <1>2, <1>4, <1>5, <1>6 DEF Pending
<1> QED BY <1>3, <1>7, <1>8 DEF LockInv

LEMMA QuietKeeps ==
  ASSUME LockInv, turn = "input", UNCHANGED keyboard,
         turn' = "time", UNCHANGED <<keys, lc, codelock_timer>>,
         script' \in 0 .. LastWait, input_timer' \in 0 .. 20
  PROVE  LockInv'
BY CodeIs
   DEF LockInv, TypeOK, Counted, Turns, UpToDate, Pending, OpensAfterCode,
       keyboard, history

LEMMA InputKeeps == LockInv /\ input_thread => LockInv'
<1> SUFFICES ASSUME LockInv, input_thread PROVE LockInv'
  OBVIOUS
<1>1. turn = "input" /\ turn' = "time" /\ UNCHANGED <<keys, lc, codelock_timer>>
  BY DEF input_thread
<1>2. script \in 0 .. 17 /\ input_timer \in 0 .. 20
  BY ScriptIs DEF LockInv, TypeOK
<1>3. CASE script = 0 /\ SetTimer(1) /\ UNCHANGED keyboard
  <2>1. script' \in 0 .. LastWait /\ input_timer' \in 0 .. 20
    BY <1>3, ScriptIs DEF SetTimer
  <2> QED BY <1>1, <1>3, <2>1, QuietKeeps
<1>4. CASE UNCHANGED <<keyboard, script, input_timer>>
  BY <1>1, <1>2, <1>4, ScriptIs, QuietKeeps
<1>5. CASE /\ script \in 1 .. LastWait - 1
           /\ press_key(input[script][2]) /\ SetTimer(script + 1)
  <2>1. script' \in 0 .. LastWait /\ input_timer' \in 0 .. 20
    BY <1>5, ScriptIs DEF SetTimer
  <2>2. input[script][2] \in Keys
    BY <1>5, ScriptIs
  <2> QED BY <1>1, <1>5, <2>1, <2>2, PressKeeps
<1>6. CASE script' = 0 /\ UNCHANGED <<keyboard, input_timer>>
  BY <1>1, <1>2, <1>6, ScriptIs, QuietKeeps
<1> QED BY <1>3, <1>4, <1>5, <1>6 DEF input_thread

LEMMA AnyUserKeeps == LockInv /\ AnyUser => LockInv'
<1> SUFFICES ASSUME LockInv, AnyUser PROVE LockInv'
  OBVIOUS
<1>1. /\ turn = "input" /\ turn' = "time"
      /\ UNCHANGED <<keys, lc, codelock_timer, script, input_timer>>
  BY DEF AnyUser
<1>2. script' \in 0 .. LastWait /\ input_timer' \in 0 .. 20
  BY <1>1 DEF LockInv, TypeOK
<1>3. CASE UNCHANGED keyboard
  BY <1>1, <1>2, <1>3, QuietKeeps
<1>4. CASE \E k \in Keys : press_key(k)
  BY <1>1, <1>2, <1>4, PressKeeps
<1> QED BY <1>3, <1>4 DEF AnyUser

(* Time passes: what the timer loses the time since the last key gains.    *)
LEMMA DelayKeeps == ASSUME LockInv, NEW d \in 0 .. MaxDelay, Delay(d)
                    PROVE  LockInv'
<1> USE DelayIsFinite
<1>1. /\ turn = "time" /\ turn' = "codelock"
      /\ UNCHANGED <<key, key_pressed_flag, keys, lc, script, user, matched,
                     before>>
  BY DEF Delay
<1>2. /\ codelock_timer \in 0 .. 10 /\ input_timer \in 0 .. 20
      /\ quiet \in 0 .. Late /\ Late \in Nat /\ Late = 10 + MaxDelay
  BY DEF LockInv, TypeOK, KeyTime, Late
<1>3. /\ codelock_timer' = IF codelock_timer > d THEN codelock_timer - d ELSE 0
      /\ input_timer' = IF input_timer > d THEN input_timer - d ELSE 0
      /\ quiet' = IF quiet + d < Late THEN quiet + d ELSE Late
  BY DEF Delay, Elapse
<1>4. TypeOK'
  BY <1>1, <1>2, <1>3 DEF LockInv, TypeOK, KeyTime, Late
<1>5. UpToDate'
  BY <1>1, <1>2, <1>3 DEF LockInv, UpToDate, Late, OpenTime
<1>6. Pending'
  BY <1>1, <1>2, <1>3 DEF LockInv, Pending, Late
<1>7. Counted' /\ Turns' /\ OpensAfterCode'
  BY <1>1 DEF LockInv, Counted, Turns, OpensAfterCode
<1> QED BY <1>4, <1>5, <1>6, <1>7 DEF LockInv

(* The invariant of the code lock.                                         *)
THEOREM LockInvHolds == Spec => []LockInv
<1>1. LockInv /\ [Next]_vars => LockInv'
  <2> SUFFICES ASSUME LockInv, [Next]_vars PROVE LockInv'
    OBVIOUS
  <2>1. CASE Block
    BY <2>1, BlockKeeps
  <2>2. CASE ReadKey
    BY <2>2, ReadKeyKeeps
  <2>3. CASE StartOver
    BY <2>3, StartOverKeeps
  <2>4. CASE Open
    BY <2>4, OpenKeeps
  <2>5. CASE \E d \in 0 .. MaxDelay : Delay(d)
    BY <2>5, DelayKeeps
  <2>6. CASE input_thread
    BY <2>6, InputKeeps
  <2>7. CASE AnyUser
    BY <2>7, AnyUserKeeps
  <2>8. CASE UNCHANGED vars
    BY <2>8 DEF vars, LockInv, TypeOK, Counted, Turns, UpToDate, Pending,
                OpensAfterCode
  <2> QED BY <2>1, <2>2, <2>3, <2>4, <2>5, <2>6, <2>7, <2>8
          DEF Next, Main, codelock_thread
<1> QED BY <1>1, LockInit, PTL DEF Spec

(* The variables have their types: no timer runs below 0, and no key is    *)
(* sought past the end of the code.                                        *)
THEOREM TypeCorrect == Spec => []TypeOK
BY LockInvHolds, PTL DEF LockInv

(* The lock reads a key before the next can be pressed.                    *)
THEOREM KeysAreRead == Spec => []NoKeyIsLost
<1>1. LockInv => NoKeyIsLost
  BY DEF LockInv, Turns, NoKeyIsLost
<1> QED BY <1>1, LockInvHolds, PTL

(* The lock opens only half a second after the four keys of the code were  *)
(* pressed in a row, or after one more key of the last iteration, however  *)
(* long an iteration of the main loop may take.                            *)
THEOREM OpensOnlyAfterCode == Spec => []OpensAfterCode
BY LockInvHolds, PTL DEF LockInv
=============================================================================
