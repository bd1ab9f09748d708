------------------------------ MODULE Condvar ------------------------------
(***************************************************************************)
(* sync::Condvar and the mutex it works with, as a component: the state,   *)
(* and one action per atomic step of wait, notify_one and notify_all.      *)
(* WaitWhile, Barrier and Channel instantiate it and add the program that  *)
(* calls it.  The mutex is the abstract lock that LockProofs shows         *)
(* sync::Mutex to implement: locking waits for `owner = None`.             *)
(***************************************************************************)
EXTENDS Naturals, Futex

CONSTANTS Threads,   \* the threads that use the condition variable
          None,      \* owner of a free mutex
          SeqSize     \* the sequence counter counts modulo this (2^32)

VARIABLES owner,     \* the thread that holds the mutex, or None
          seq,       \* Condvar::seq
          asleep,    \* the threads asleep in the kernel on `seq`
          cv,        \* where each thread is inside Condvar's methods
          seen       \* wait's local `seq`, per thread

cvVars == <<owner, seq, asleep, cv, seen>>

(* out: in no method;  unlock, wait, relock: in wait, about to raw_unlock, *)
(* inside futex_wait, about to raw_lock;  wake1, wakeall: in notify_one or *)
(* notify_all, about to wake.                                              *)
CvPC == {"out", "unlock", "wait", "relock", "wake1", "wakeall"}

CvTypeOK ==
  /\ owner \in Threads \cup {None}
  /\ seq \in 0 .. SeqSize - 1
  /\ asleep \subseteq Threads
  /\ cv \in [Threads -> CvPC]
  /\ seen \in [Threads -> 0 .. SeqSize - 1]

CvInit ==
  /\ owner = None
  /\ seq = 0
  /\ asleep = {}
  /\ cv = [t \in Threads |-> "out"]
  /\ seen = [t \in Threads |-> 0]

At(t, l) == cv[t] = l
Goto(t, l) == cv' = [cv EXCEPT ![t] = l]

(* Mutex::lock, as the abstract lock.                                      *)
MutexLock(t) ==
  /\ At(t, "out") /\ owner = None
  /\ owner' = t
  /\ UNCHANGED <<seq, asleep, cv, seen>>

(* The guard is dropped.                                                   *)
MutexUnlock(t) ==
  /\ At(t, "out") /\ owner = t
  /\ owner' = None
  /\ UNCHANGED <<seq, asleep, cv, seen>>

(* wait: read the sequence while the mutex is held.                        *)
Wait(t) ==
  /\ At(t, "out") /\ owner = t
  /\ seen' = [seen EXCEPT ![t] = seq]
  /\ Goto(t, "unlock")
  /\ UNCHANGED <<owner, seq, asleep>>

(* wait: raw_unlock, the guard is forgotten.                               *)
WaitUnlock(t) ==
  /\ At(t, "unlock")
  /\ owner' = None
  /\ Goto(t, "wait")
  /\ UNCHANGED <<seq, asleep, seen>>

WaitLoadsLate(t) ==
  /\ At(t, "wait") /\ t \notin asleep
  /\ seen' = [seen EXCEPT ![t] = seq]
  /\ asleep' = asleep \cup {t}
  /\ UNCHANGED <<owner, seq, cv>>

(* wait: futex_wait(seq) puts the thread to sleep ...                      *)
WaitSleep(t) ==
  /\ At(t, "wait")
  /\ FutexSleeps(t, asleep, seq, seen[t])
  /\ asleep' = asleep \cup {t}
  /\ UNCHANGED <<owner, seq, cv, seen>>

(* ... or returns.                                                         *)
WaitReturns(t) ==
  /\ At(t, "wait")
  /\ FutexReturns(t, asleep, seq, seen[t])
  /\ Goto(t, "relock")
  /\ UNCHANGED <<owner, seq, asleep, seen>>

(* wait: raw_lock, and return the guard.                                   *)
WaitRelock(t) ==
  /\ At(t, "relock") /\ owner = None
  /\ owner' = t
  /\ Goto(t, "out")
  /\ UNCHANGED <<seq, asleep, seen>>

NotifyKeepsSeq(t, how) ==
  /\ At(t, "out")
  /\ Goto(t, how)
  /\ UNCHANGED <<owner, seq, asleep, seen>>

(* notify_one (how = "wake1") and notify_all ("wakeall"): bump the         *)
(* sequence.  The caller may hold the mutex or not.                        *)
Notify(t, how) ==
  /\ At(t, "out")
  /\ seq' = (seq + 1) % SeqSize
  /\ Goto(t, how)
  /\ UNCHANGED <<owner, asleep, seen>>

(* notify_one, notify_all: wake the sleepers.                              *)
NotifyWake(t) ==
  /\ \/ At(t, "wake1") /\ asleep' \in FutexWake(asleep)
     \/ At(t, "wakeall") /\ asleep' = FutexWakeAll(asleep)
  /\ Goto(t, "out")
  /\ UNCHANGED <<owner, seq, seen>>

(* A signal ends the syscall early: back to the head of futex_wait's loop. *)
Spurious(t) ==
  /\ t \in asleep
  /\ asleep' = asleep \ {t}
  /\ UNCHANGED <<owner, seq, cv, seen>>

(* The steps inside Condvar's methods, which need nothing of the caller.   *)
Inside(t) ==
  WaitUnlock(t) \/ WaitSleep(t) \/ WaitReturns(t) \/ WaitRelock(t) \/ NotifyWake(t)
=============================================================================
