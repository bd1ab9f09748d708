------------------------------ MODULE MCLocks ------------------------------
(***************************************************************************)
(* Mutex and RwLock.  They share no state, so one run checks both: a       *)
(* behaviour is a behaviour of the one that `unit` names, while the other  *)
(* rests in its initial state.                                             *)
(***************************************************************************)
EXTENDS LockProofs

VARIABLES unit

mutexVars == <<mState, mAsleep, mPc, mCalls>>
allVars == <<unit, vars, mutexVars>>

MCInit == unit \in {"Mutex", "RwLock"} /\ Init /\ M!Init

MCNext ==
  /\ \/ unit = "RwLock" /\ Next /\ UNCHANGED mutexVars
     \/ unit = "Mutex" /\ M!Next /\ UNCHANGED vars
  /\ UNCHANGED unit

(* The fairness of RwLock and of Mutex.                                    *)
MCSpec ==
  /\ MCInit /\ [][MCNext]_allVars
  /\ \A t \in Threads :
       /\ WF_vars(unit = "RwLock" /\ Proceed(t))
       /\ SF_vars(unit = "RwLock" /\ ReadCas(t))
  /\ \A t \in Contenders : WF_mutexVars(unit = "Mutex" /\ M!Proceed(t))

-----------------------------------------------------------------------------
(* Every blocked lock(), read() and write() returns: a call leaves its     *)
(* loop only with the guard, and as finitely many calls are made in all, a *)
(* thread left behind would be in its loop when all other calls are over.  *)
(* (A steady stream of readers may starve a writer, as the code says.)     *)
SomeBlocked ==
  (\E t \in Threads : Blocked(t)) \/ (\E t \in Contenders : M!Blocked(t))
LocksReturn == SomeBlocked ~> ~SomeBlocked
=============================================================================
