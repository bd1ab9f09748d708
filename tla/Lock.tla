-------------------------------- MODULE Lock --------------------------------
(***************************************************************************)
(* What a mutual-exclusion lock promises its users, with none of the       *)
(* machinery of sync.rs: at most one owner, a free lock may be taken by    *)
(* any thread that asked for it or by a passer-by, and while the lock is   *)
(* free and somebody waits, somebody gets it.                              *)
(***************************************************************************)
CONSTANTS Threads,   \* the threads that share the lock
          None       \* owner of a free lock

VARIABLES owner,     \* the thread that holds the lock, or None
          want       \* the threads blocked inside lock()

lockVars == <<owner, want>>

LockInit ==
  /\ owner = None
  /\ want = {}

(* lock() found the lock taken.                                            *)
Request(t) ==
  /\ t # owner /\ t \notin want
  /\ want' = want \cup {t}
  /\ UNCHANGED owner

(* A blocked lock() gets the lock.                                         *)
Acquire(t) ==
  /\ t \in want
  /\ owner = None
  /\ owner' = t
  /\ want' = want \ {t}

(* lock() or try_lock() found the lock free.                               *)
Barge(t) ==
  /\ t \notin want
  /\ owner = None
  /\ owner' = t
  /\ UNCHANGED want

(* The guard is dropped.                                                   *)
Release(t) ==
  /\ owner = t
  /\ owner' = None
  /\ UNCHANGED want

LockNext ==
  \E t \in Threads : Request(t) \/ Acquire(t) \/ Barge(t) \/ Release(t)

(* While callers are blocked, a free lock does not stay free for ever.     *)
LockFairness ==
  WF_lockVars(\E t \in Threads : want # {} /\ (Acquire(t) \/ Barge(t)))

LockSafety == LockInit /\ [][LockNext]_lockVars

LockSpec == LockSafety /\ LockFairness
=============================================================================
