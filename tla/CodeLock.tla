------------------------------ MODULE CodeLock ------------------------------
(***************************************************************************)
(* The code lock of example-codelock.c: a protothread that reads keys and  *)
(* opens after the right four, another that plays a user, and the main     *)
(* loop that calls them in turn.                                           *)
(*                                                                         *)
(* Time is counted in units of 100 ms, the greatest unit that divides      *)
(* every interval of the program, and passes between two iterations of the *)
(* main loop, at most MaxDelay units at once: a thread that is called      *)
(* takes no time itself.  A timer is the time it still has to run.         *)
(***************************************************************************)
EXTENDS Integers, Sequences, SequencesExt

CONSTANT MaxDelay    \* bound: units of time that an iteration takes at most

ASSUME DelayIsFinite == MaxDelay \in Nat \ {0}

VARIABLES
  key,               \* the key pressed last
  key_pressed_flag,  \* whether it has not been read yet
  keys,              \* static of codelock_thread: keys that were right
  lc,                \* its continuation: the wait it is blocked in
  codelock_timer, input_timer,
  script,            \* continuation of input_thread: its wait, 0 to begin
  turn,              \* what the main loop does next
  user,              \* "script": input_thread, or "any"; it never changes
  matched,           \* history: keys of the code that were pressed in a row
  before,            \* history: matched before the last key
  quiet              \* history: time since the last key, at most Late

vars == <<key, key_pressed_flag, keys, lc, codelock_timer, input_timer, script,
          turn, user, matched, before, quiet>>
history == <<user, matched, before, quiet>>
keyboard == <<key, key_pressed_flag, history>>

code == <<"1", "4", "2", "3">>
Keys == ToSet(code)
KeyTime == 10     \* one second for the next key
OpenTime == 5     \* half a second until the lock opens

(* The waits of input_thread, and the key that it presses after each. *)
input == << <<10, "1">>, <<1, "2">>, <<1, "3">>, <<20, "1">>, <<2, "4">>,
            <<2, "2">>, <<20, "3">>, <<2, "1">>, <<2, "4">>, <<2, "2">>,
            <<1, "3">>, <<1, "4">>, <<15, "1">>, <<3, "4">>, <<4, "2">>,
            <<5, "3">>, <<20, "none">> >>
LastWait == Len(input)

(* From here on a key is too late to continue the one before it. *)
Late == KeyTime + MaxDelay

timer_expired(timer) == timer = 0

(* Seeded fault: a timer that nobody has set again runs below 0. *)
BugElapse(timer, d) == timer - d

Elapse(timer, d) == IF timer > d THEN timer - d ELSE 0

(* PT_BEGIN leads without a return to the wait for the first key. *)
Init ==
  /\ key = "none" /\ key_pressed_flag = FALSE
  /\ keys = 0 /\ lc = "first"
  /\ codelock_timer = 0 /\ input_timer = 0 /\ script = 0
  /\ turn = "codelock" /\ user \in {"script", "any"}
  /\ matched = 0 /\ before = 0 /\ quiet = 0

-----------------------------------------------------------------------------
(* Seeded fault: the final wait does not read the keyboard. *)
BugGoes == IF lc = "final" THEN timer_expired(codelock_timer)
           ELSE \/ key_pressed_flag
                \/ lc # "first" /\ timer_expired(codelock_timer)

(* codelock_thread.  A wait that goes on reads the key: every condition    *)
(* calls key_pressed first.                                                *)
Goes == \/ key_pressed_flag
        \/ lc # "first" /\ timer_expired(codelock_timer)

Block ==
  /\ turn = "codelock" /\ lc # "open" /\ ~Goes
  /\ turn' = "input"
  /\ UNCHANGED <<keyboard, keys, lc, codelock_timer, input_timer, script>>

(* Go on to the next wait and return from there: nothing is pressed yet. *)
WaitAgain(count, where, time) ==
  /\ keys' = count /\ lc' = where /\ codelock_timer' = time
  /\ turn' = "input"

(* The wait in which the lock has been goes on. *)
Continue(where) ==
  /\ turn = "codelock" /\ lc = where /\ Goes
  /\ key_pressed_flag' = FALSE
  /\ UNCHANGED <<key, history, input_timer, script>>

(* Seeded fault: half a second for every key. *)
BugReadKey ==
  /\ \/ Continue("first") /\ key = code[1]
     \/ Continue("next") /\ ~timer_expired(codelock_timer)
                         /\ key = code[keys + 1]
  /\ WaitAgain(keys + 1, IF keys + 1 = Len(code) THEN "final" ELSE "next",
               OpenTime)

(* Lines 163 and 180 to 210: the time is tested before the key. *)
ReadKey ==
  /\ \/ Continue("first") /\ key = code[1]
     \/ Continue("next") /\ ~timer_expired(codelock_timer)
                         /\ key = code[keys + 1]
  /\ IF keys + 1 = Len(code) THEN WaitAgain(keys + 1, "final", OpenTime)
                             ELSE WaitAgain(keys + 1, "next", KeyTime)

(* Seeded fault: after a wrong key the right one may still follow. *)
BugStartOver ==
  /\ \/ Continue("first") /\ key # code[1]
     \/ /\ Continue("next")
        /\ timer_expired(codelock_timer) \/ key # code[keys + 1]
     \/ Continue("final") /\ ~timer_expired(codelock_timer)
  /\ WaitAgain(keys, lc, codelock_timer)

StartOver ==
  /\ \/ Continue("first") /\ key # code[1]
     \/ /\ Continue("next")
        /\ timer_expired(codelock_timer) \/ key # code[keys + 1]
     \/ Continue("final") /\ ~timer_expired(codelock_timer)
  /\ WaitAgain(0, "first", codelock_timer)

(* Seeded fault: the lock opens however the final wait has ended. *)
BugOpen ==
  /\ Continue("final")
  /\ lc' = "open" /\ turn' = "stopped"
  /\ UNCHANGED <<keys, codelock_timer>>

(* Lines 234 to 243. *)
Open ==
  /\ Continue("final") /\ timer_expired(codelock_timer)
  /\ lc' = "open" /\ turn' = "stopped"
  /\ UNCHANGED <<keys, codelock_timer>>

codelock_thread == Block \/ ReadKey \/ StartOver \/ Open

-----------------------------------------------------------------------------
Follows(k) == matched < Len(code) /\ quiet < Late /\ k = code[matched + 1]

press_key(k) ==
  /\ UNCHANGED user
  /\ key' = k /\ key_pressed_flag' = TRUE
  /\ before' = matched
  /\ matched' = IF Follows(k) THEN matched + 1
                ELSE IF k = code[1] THEN 1 ELSE 0
  /\ quiet' = 0

(* Wait number n of the script begins. *)
SetTimer(n) == script' = n /\ input_timer' = input[n][1]

(* input_thread: it starts over after its end, as main goes on calling it. *)
input_thread ==
  /\ turn = "input" /\ user = "script"
  /\ \/ script = 0 /\ SetTimer(1) /\ UNCHANGED keyboard
     \/ script # 0 /\ ~timer_expired(input_timer)
        /\ UNCHANGED <<keyboard, script, input_timer>>
     \/ script \in 1 .. LastWait - 1 /\ timer_expired(input_timer)
        /\ press_key(input[script][2]) /\ SetTimer(script + 1)
     \/ script = LastWait /\ timer_expired(input_timer)
        /\ script' = 0 /\ UNCHANGED <<keyboard, input_timer>>
  /\ turn' = "time"
  /\ UNCHANGED <<keys, lc, codelock_timer>>

(* Any user in the place of input_thread: a key or none. *)
AnyUser ==
  /\ turn = "input" /\ user = "any"
  /\ UNCHANGED keyboard \/ \E k \in Keys : press_key(k)
  /\ turn' = "time"
  /\ UNCHANGED <<keys, lc, codelock_timer, script, input_timer>>

(* usleep, and whatever else delays the main loop. *)
Delay(d) ==
  /\ turn = "time"
  /\ codelock_timer' = Elapse(codelock_timer, d)
  /\ input_timer' = Elapse(input_timer, d)
  /\ quiet' = IF quiet + d < Late THEN quiet + d ELSE Late
  /\ turn' = "codelock"
  /\ UNCHANGED <<key, key_pressed_flag, keys, lc, script, user, matched, before>>

Main == codelock_thread \/ \E d \in 0 .. MaxDelay : Delay(d)

Next == Main \/ input_thread \/ AnyUser
Spec == Init /\ [][Next]_vars

(* The main loop goes on, and its iterations take time. *)
FairSpec == Spec /\ WF_vars(Next) /\ SF_vars(\E d \in 1 .. MaxDelay : Delay(d))

-----------------------------------------------------------------------------
(* The variables have their types. *)
TypeOK ==
  /\ key \in Keys \cup {"none"} /\ key_pressed_flag \in BOOLEAN
  /\ keys \in 0 .. Len(code) /\ lc \in {"first", "next", "final", "open"}
  /\ codelock_timer \in 0 .. KeyTime /\ input_timer \in 0 .. 20
  /\ script \in 0 .. LastWait
  /\ turn \in {"codelock", "input", "time", "stopped"}
  /\ user \in {"script", "any"}
  /\ matched \in 0 .. Len(code) /\ before \in 0 .. Len(code)
  /\ quiet \in 0 .. Late

(* The lock has one place for a key, and reads it before the next can be   *)
(* pressed (key_pressed_flag, lines 96 to 118): no key replaces another.   *)
NoKeyIsLost == turn = "input" => ~key_pressed_flag

(* "After the correct code has been entered, no more keys must be pressed  *)
(* for 0.5 seconds before the lock is opened" (lines 42 to 44).            *)
OpensOnCode == lc = "open" => matched = Len(code) /\ quiet >= OpenTime

(* What the code does: the four keys of the code were pressed in a row,    *)
(* each within a second of the one before, give or take the delay of an    *)
(* iteration (lines 146 to 246); and half a second has passed since, if    *)
(* not without a key, then with one only in the last iteration, after      *)
(* which line 234 looks at nothing but the timer.                          *)
OpensAfterCode ==
  lc = "open" => \/ matched = Len(code) /\ quiet >= OpenTime
                 \/ before = Len(code) /\ quiet <= MaxDelay

(* Of the four attempts of input_thread only the last opens the lock: the  *)
(* first is wrong, the second too slow, after the third a key follows.     *)
OpensAtLast == user = "script" /\ lc = "open" => script = LastWait

(* "The main function returns when the protothread the runs the code lock  *)
(* exits" (line 356), and it does.                                         *)
Opens == user = "script" => <>(turn = "stopped")
=============================================================================
