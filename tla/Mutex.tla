------------------------------- MODULE Mutex -------------------------------
(***************************************************************************)
(* sync::Mutex: the three-state futex lock of sync.rs, one action per      *)
(* atomic step.  Atomics are sequentially consistent here; the memory      *)
(* orderings of the code are not modelled.                                 *)
(***************************************************************************)
EXTENDS Naturals, Futex

CONSTANTS Threads,    \* the threads that share the mutex
          None,       \* not a thread: the abstract owner of a free lock
          MaxCalls    \* bound: how often each thread calls lock or try_lock

MutexAssumption == None \notin Threads /\ MaxCalls \in Nat

VARIABLES state,      \* Mutex::state: 0 unlocked, 1 locked, 2 locked with waiters
          asleep,     \* the threads asleep in the kernel on `state`
          pc,         \* where each thread is
          calls       \* calls each thread may still make

vars == <<state, asleep, pc, calls>>

(* idle: outside;  swap: in raw_lock, about to swap(2);  wait: in raw_lock *)
(* inside futex_wait(2);  held: owns a guard;  wake: in raw_unlock, about  *)
(* to futex_wake.                                                          *)
PC == {"idle", "swap", "wait", "held", "wake"}

TypeOK ==
  /\ state \in 0..2
  /\ asleep \subseteq Threads
  /\ pc \in [Threads -> PC]
  /\ calls \in [Threads -> 0..MaxCalls]

Init ==
  /\ state = 0
  /\ asleep = {}
  /\ pc = [t \in Threads |-> "idle"]
  /\ calls = [t \in Threads |-> MaxCalls]

(* A thread outside the mutex starts lock() or try_lock().                 *)
Call(t) ==
  /\ pc[t] = "idle" /\ calls[t] > 0
  /\ calls' = [calls EXCEPT ![t] = @ - 1]

(* The compare_exchange(0, 1) that opens raw_lock and is all of try_lock.  *)
CasSucceeds(t) ==
  /\ Call(t)
  /\ state = 0
  /\ state' = 1
  /\ pc' = [pc EXCEPT ![t] = "held"]
  /\ UNCHANGED asleep

(* raw_lock: the CAS failed, go to the contended loop.                     *)
CasFails(t) ==
  /\ Call(t)
  /\ state # 0
  /\ pc' = [pc EXCEPT ![t] = "swap"]
  /\ UNCHANGED <<state, asleep>>

(* try_lock: the CAS failed, return WouldBlock.                            *)
TryLockFails(t) ==
  /\ Call(t)
  /\ state # 0
  /\ UNCHANGED <<state, asleep, pc>>

SwapKeepsOne(t) ==
  /\ pc[t] = "swap"
  /\ state' = IF state = 0 THEN 1 ELSE 2
  /\ pc' = [pc EXCEPT ![t] = IF state = 0 THEN "held" ELSE "wait"]
  /\ UNCHANGED <<asleep, calls>>

SwapTakesAnyway(t) ==
  /\ pc[t] = "swap"
  /\ state' = 2
  /\ pc' = [pc EXCEPT ![t] = IF state # 2 THEN "held" ELSE "wait"]
  /\ UNCHANGED <<asleep, calls>>

(* raw_lock's loop: swap(2) takes a free lock and marks a taken one.       *)
Swap(t) ==
  /\ pc[t] = "swap"
  /\ state' = 2
  /\ pc' = [pc EXCEPT ![t] = IF state = 0 THEN "held" ELSE "wait"]
  /\ UNCHANGED <<asleep, calls>>

(* futex_wait(2): the kernel puts the thread to sleep.                     *)
Sleep(t) ==
  /\ pc[t] = "wait"
  /\ FutexSleeps(t, asleep, state, 2)
  /\ asleep' = asleep \cup {t}
  /\ UNCHANGED <<state, pc, calls>>

(* futex_wait(2) returns: back to the swap.                                *)
WaitReturns(t) ==
  /\ pc[t] = "wait"
  /\ FutexReturns(t, asleep, state, 2)
  /\ pc' = [pc EXCEPT ![t] = "swap"]
  /\ UNCHANGED <<state, asleep, calls>>

(* A signal ends the syscall early: back to the head of futex_wait's loop. *)
Spurious(t) ==
  /\ t \in asleep
  /\ asleep' = asleep \ {t}
  /\ UNCHANGED <<state, pc, calls>>

UnlockForgetsWake(t) ==
  /\ pc[t] = "held"
  /\ state' = 0
  /\ pc' = [pc EXCEPT ![t] = "idle"]
  /\ UNCHANGED <<asleep, calls>>

(* MutexGuard::drop, first half of raw_unlock: swap(0).                    *)
Unlock(t) ==
  /\ pc[t] = "held"
  /\ state' = 0
  /\ pc' = [pc EXCEPT ![t] = IF state = 2 THEN "wake" ELSE "idle"]
  /\ UNCHANGED <<asleep, calls>>

(* raw_unlock: the swap returned 2, so futex_wake one waiter.              *)
Wake(t) ==
  /\ pc[t] = "wake"
  /\ asleep' \in FutexWake(asleep)
  /\ pc' = [pc EXCEPT ![t] = "idle"]
  /\ UNCHANGED <<state, calls>>

(* Steps a running thread takes by itself.                                 *)
Proceed(t) == Swap(t) \/ Sleep(t) \/ WaitReturns(t) \/ Unlock(t) \/ Wake(t)

Next ==
  \E t \in Threads :
    CasSucceeds(t) \/ CasFails(t) \/ TryLockFails(t) \/ Proceed(t) \/ Spurious(t)

SafetySpec == Init /\ [][Next]_vars

(* The scheduler runs every runnable thread, and a guard is dropped some   *)
(* day.  Nobody is obliged to call lock, and signals need not arrive.      *)
Spec == SafetySpec /\ \A t \in Threads : WF_vars(Proceed(t))

-----------------------------------------------------------------------------
(* At most one thread has a guard, so `data` has one user at a time        *)
(* (Deref and DerefMut of MutexGuard).                                     *)
MutualExclusion ==
  \A t, u \in Threads : pc[t] = "held" /\ pc[u] = "held" => t = u

(* The lock word is 0 exactly when nobody has a guard.                     *)
StateMatches == (state = 0) <=> (\A t \in Threads : pc[t] # "held")

(* No wakeup is lost.  If threads sleep on `state`, then the word says so  *)
(* (2: the owner's raw_unlock will wake one), or some raw_unlock is about  *)
(* to wake one, or a thread is awake in raw_lock's loop and will put the 2 *)
(* back.                                                                   *)
NoLostWakeup ==
  asleep # {} =>
    \/ state = 2
    \/ \E t \in Threads : pc[t] = "wake"
    \/ \E t \in Threads \ asleep : pc[t] \in {"swap", "wait"}

(* Only a thread inside raw_lock's futex_wait is on the kernel's queue.    *)
SleepersWait == \A t \in asleep : pc[t] = "wait"

(* The inductive invariant behind the theorems of LockProofs.              *)
Inv ==
  /\ TypeOK
  /\ MutualExclusion
  /\ StateMatches
  /\ SleepersWait
  /\ NoLostWakeup

(* The threads inside raw_lock's loop.                                     *)
Blocked(t) == pc[t] \in {"swap", "wait"}

(* The thread with the guard, and those inside raw_lock's loop: the owner  *)
(* of the abstract lock and the threads that want it.                      *)
Owner == IF \E t \in Threads : pc[t] = "held"
         THEN CHOOSE t \in Threads : pc[t] = "held"
         ELSE None

Wanting == {t \in Threads : pc[t] \in {"swap", "wait"}}
=============================================================================
