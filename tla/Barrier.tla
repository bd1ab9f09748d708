------------------------------ MODULE Barrier ------------------------------
(***************************************************************************)
(* sync::Barrier over its mutex and condition variable.  Each thread calls *)
(* wait over and over, so that the barrier is reused while threads of the  *)
(* previous round are still on their way out.                              *)
(***************************************************************************)
EXTENDS Naturals, FiniteSets

CONSTANTS Threads,     \* the threads that call wait
          None,        \* see Condvar
          SeqSize,      \* see Condvar
          N,           \* Barrier::n
          MaxWaits     \* bound: how often each thread calls wait

BarrierAssumption ==
  /\ IsFiniteSet(Threads) /\ None \notin Threads
  /\ N \in Nat /\ MaxWaits \in Nat
  /\ Cardinality(Threads) * MaxWaits < SeqSize

VARIABLES owner, seq, asleep, cv, seen,   \* see Condvar
          count, generation,              \* BarrierState
          pc,                             \* where each thread is in wait
          gen,                            \* wait's local `gen`
          calls,                          \* calls each thread has left
          arrived, released, leaders      \* per generation: how many threads
                                          \* counted in, returned, and led

C == INSTANCE Condvar

cvVars == <<owner, seq, asleep, cv, seen>>
ghosts == <<arrived, released, leaders>>
vars == <<cvVars, count, generation, pc, gen, calls, ghosts>>

(* idle: outside;  locked: the guard is taken;  test: at the loop's        *)
(* condition;  lead: the last to arrive, about to notify_all;  follow,     *)
(* leave: about to drop the guard and return false, true.                  *)
PC == {"idle", "locked", "test", "lead", "follow", "leave"}

(* Barrier::new(0) behaves as Barrier::new(1).                             *)
Quorum == IF N = 0 THEN 1 ELSE N

(* Every generation but the last is completed by a call.                   *)
MaxGen == Cardinality(Threads) * MaxWaits

TypeOK ==
  /\ C!CvTypeOK
  /\ count \in 0 .. N
  /\ generation \in 0..MaxGen
  /\ pc \in [Threads -> PC]
  /\ gen \in [Threads -> 0..MaxGen]
  /\ calls \in [Threads -> 0..MaxWaits]
  /\ \A f \in {arrived, released, leaders} : f \in [0..MaxGen -> Nat]

Init ==
  /\ C!CvInit
  /\ count = 0 /\ generation = 0
  /\ pc = [t \in Threads |-> "idle"]
  /\ gen = [t \in Threads |-> 0]
  /\ calls = [t \in Threads |-> MaxWaits]
  /\ arrived = [g \in 0..MaxGen |-> 0]
  /\ released = [g \in 0..MaxGen |-> 0]
  /\ leaders = [g \in 0..MaxGen |-> 0]

Goto(t, l) == pc' = [pc EXCEPT ![t] = l]
Count(f, g) == [f EXCEPT ![g] = @ + 1]

(* wait: lock the state.                                                   *)
Enter(t) ==
  /\ pc[t] = "idle" /\ calls[t] > 0
  /\ C!MutexLock(t)
  /\ calls' = [calls EXCEPT ![t] = @ - 1]
  /\ Goto(t, "locked")
  /\ UNCHANGED <<count, generation, gen, ghosts>>

(* wait, under the mutex: remember the generation, count in; the last one  *)
(* resets the count and opens the next generation.                         *)
Arrive(t) ==
  /\ pc[t] = "locked"
  /\ gen' = [gen EXCEPT ![t] = generation]
  /\ arrived' = Count(arrived, generation)
  /\ IF count + 1 < N
     THEN count' = count + 1 /\ Goto(t, "test") /\ UNCHANGED generation
     ELSE count' = 0 /\ Goto(t, "lead") /\ generation' = generation + 1
  /\ UNCHANGED <<cvVars, calls, released, leaders>>

(* wait: still the same generation, so cv.wait.                            *)
TestWaits(t) ==
  /\ pc[t] = "test" /\ gen[t] = generation
  /\ C!Wait(t)
  /\ UNCHANGED <<count, generation, pc, gen, calls, ghosts>>

TestEndsAfterOneWait(t) ==
  /\ pc[t] = "test" /\ cv[t] = "out"
  /\ gen[t] # generation \/ seen[t] # seq
  /\ Goto(t, "follow")
  /\ UNCHANGED <<cvVars, count, generation, gen, calls, ghosts>>

(* wait: the generation moved on.                                          *)
TestEnds(t) ==
  /\ pc[t] = "test" /\ cv[t] = "out" /\ gen[t] # generation
  /\ Goto(t, "follow")
  /\ UNCHANGED <<cvVars, count, generation, gen, calls, ghosts>>

(* The leader calls notify_all, guard in hand.                             *)
Lead(t) ==
  /\ pc[t] = "lead"
  /\ C!Notify(t, "wakeall")
  /\ Goto(t, "leave")
  /\ UNCHANGED <<count, generation, gen, calls, ghosts>>

(* The guard is dropped and wait returns BarrierWaitResult.                *)
Return(t) ==
  /\ pc[t] \in {"follow", "leave"}
  /\ C!MutexUnlock(t)
  /\ Goto(t, "idle")
  /\ released' = Count(released, gen[t])
  /\ leaders' = IF pc[t] = "leave" THEN Count(leaders, gen[t]) ELSE leaders
  /\ UNCHANGED <<count, generation, gen, calls, arrived>>

InCondvar(t) == C!Inside(t) /\ UNCHANGED <<count, generation, pc, gen, calls, ghosts>>

Interrupted(t) == C!Spurious(t) /\ UNCHANGED <<count, generation, pc, gen, calls, ghosts>>

Proceed(t) ==
  Arrive(t) \/ TestWaits(t) \/ TestEnds(t) \/ Lead(t) \/ Return(t) \/ InCondvar(t)

Next == \E t \in Threads : Enter(t) \/ Proceed(t) \/ Interrupted(t)

(* The scheduler runs every runnable thread.                               *)
Spec == Init /\ [][Next]_vars /\ \A t \in Threads : WF_vars(Proceed(t))

-----------------------------------------------------------------------------
(* Nobody passes the barrier before N threads have arrived in the same     *)
(* generation, and a generation lets exactly those N through, exactly one  *)
(* of them as leader, however late the stragglers of a generation are.     *)
Rendezvous ==
  \A g \in 0..MaxGen :
    /\ arrived[g] <= Quorum
    /\ released[g] > 0 => arrived[g] = Quorum
    /\ released[g] <= arrived[g]
    /\ leaders[g] <= 1
    /\ released[g] = Quorum => leaders[g] = 1

(* Once N threads have arrived, all N return.                              *)
SomeHeld == \E g \in 0..MaxGen : arrived[g] = Quorum /\ released[g] # Quorum
AllReleased == SomeHeld ~> ~SomeHeld
=============================================================================
