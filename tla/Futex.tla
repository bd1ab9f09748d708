------------------------------- MODULE Futex -------------------------------
(***************************************************************************)
(* The kernel wait queue behind sys_thread::futex_wait, futex_wake and     *)
(* futex_wake_all (`futex` on Linux, `__ulock` on macOS).  For each word a *)
(* module keeps the set of threads asleep on it.  A thread whose control   *)
(* is in futex_wait but which is not in that set is at the head of the     *)
(* loop `while addr.load() == expected { syscall }`.                       *)
(*                                                                         *)
(* The load at the head of the loop and the kernel's own comparison are    *)
(* one step here: when they disagree the syscall returns at once and the   *)
(* loop starts over, so only the last comparison of the loop has an        *)
(* effect, either sleep (FutexSleeps) or return (FutexReturns).            *)
(***************************************************************************)

(* Thread t is in futex_wait(word, expected), awake, and the kernel finds  *)
(* the word unchanged: it goes to sleep.                                   *)
FutexSleeps(t, asleep, word, expected) ==
  /\ t \notin asleep
  /\ word = expected

(* Thread t is in futex_wait(word, expected), awake, and the loop ends.    *)
FutexReturns(t, asleep, word, expected) ==
  /\ t \notin asleep
  /\ word # expected

(* The queues futex_wake(addr) can leave: one sleeper fewer, whichever the *)
(* kernel picks, or the same queue when nobody sleeps.                     *)
FutexWake(asleep) ==
  IF asleep = {} THEN {asleep} ELSE {asleep \ {t} : t \in asleep}

(* The queue futex_wake_all(addr) leaves.                                  *)
FutexWakeAll(asleep) == {}
=============================================================================
