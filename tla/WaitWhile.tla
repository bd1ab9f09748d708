----------------------------- MODULE WaitWhile -----------------------------
(***************************************************************************)
(* Condvar::wait_while under the program it is meant for: consumers wait   *)
(* until there is a permit and take one; producers add a permit under the  *)
(* mutex and call notify_one, or notify_all, before or after unlocking.    *)
(***************************************************************************)
EXTENDS Naturals, FiniteSets

CONSTANTS Producers, Consumers,   \* two disjoint sets of threads
          None, SeqSize,           \* see Condvar
          MaxNotify               \* bound: notifications each producer sends

Threads == Producers \cup Consumers

(* The sequence does not come full circle between two looks at it.         *)
WaitWhileAssumption ==
  /\ IsFiniteSet(Threads) /\ Producers \cap Consumers = {} /\ None \notin Threads
  /\ MaxNotify \in Nat /\ SeqSize \in Nat \ {0}
  /\ Cardinality(Producers) * MaxNotify < SeqSize

VARIABLES owner, seq, asleep, cv, seen,   \* see Condvar
          permits,                        \* the data behind the mutex
          pc,                             \* where each thread's program is
          left                            \* notifications each producer has left

C == INSTANCE Condvar

cvVars == <<owner, seq, asleep, cv, seen>>
vars == <<owner, seq, asleep, cv, seen, permits, pc, left>>

(* idle: no guard;  test: wait_while's condition is next;  drop: the guard  *)
(* goes and the call is over;  unlock, notify: a producer that unlocks and  *)
(* then notifies;  held: one that notifies first;  done: a consumer that    *)
(* got its permit.                                                          *)
PC == {"idle", "test", "drop", "unlock", "notify", "held", "done"}

TypeOK ==
  /\ C!CvTypeOK
  /\ permits \in Nat
  /\ pc \in [Threads -> PC]
  /\ left \in [Producers -> 0..MaxNotify]

Init ==
  /\ C!CvInit
  /\ permits = 0
  /\ pc = [t \in Threads |-> "idle"]
  /\ left = [t \in Producers |-> MaxNotify]

Goto(t, l) == pc' = [pc EXCEPT ![t] = l]

(* A consumer locks the mutex and calls wait_while.                        *)
ConsumerLock(t) ==
  /\ pc[t] = "idle" /\ t \in Consumers
  /\ C!MutexLock(t)
  /\ Goto(t, "test")
  /\ UNCHANGED <<permits, left>>

(* wait_while: the condition holds (no permit), so wait and look again.    *)
TestWaits(t) ==
  /\ pc[t] = "test" /\ permits = 0
  /\ C!Wait(t)
  /\ UNCHANGED <<permits, pc, left>>

(* wait_while returns its guard, and the caller takes a permit.            *)
TestEnds(t) ==
  /\ pc[t] = "test" /\ permits > 0 /\ cv[t] = "out"
  /\ permits' = permits - 1
  /\ Goto(t, "drop")
  /\ UNCHANGED <<cvVars, left>>

(* A producer adds a permit under the mutex.                               *)
Produce(t) ==
  /\ pc[t] = "idle" /\ t \in Producers /\ left[t] > 0
  /\ C!MutexLock(t)
  /\ permits' = permits + 1
  /\ left' = [left EXCEPT ![t] = @ - 1]
  /\ Goto(t, "unlock") \/ Goto(t, "held")

(* It notifies after the guard is gone, or while it is still held.         *)
Notify(t) ==
  /\ C!Notify(t, "wake1") \/ C!Notify(t, "wakeall")
  /\ \/ pc[t] = "notify" /\ Goto(t, "idle")
     \/ pc[t] = "held" /\ Goto(t, "drop")
  /\ UNCHANGED <<permits, left>>

(* A guard is dropped.                                                     *)
Unlock(t) ==
  /\ C!MutexUnlock(t)
  /\ \/ pc[t] = "unlock" /\ Goto(t, "notify")
     \/ pc[t] = "drop" /\ Goto(t, IF t \in Consumers THEN "done" ELSE "idle")
  /\ UNCHANGED <<permits, left>>

InCondvar(t) == C!Inside(t) /\ UNCHANGED <<permits, pc, left>>

Interrupted(t) == C!Spurious(t) /\ UNCHANGED <<permits, pc, left>>

(* What a thread does by itself once it has started.                       *)
Proceed(t) == TestWaits(t) \/ TestEnds(t) \/ Notify(t) \/ Unlock(t) \/ InCondvar(t)

Next ==
  \E t \in Threads : ConsumerLock(t) \/ Produce(t) \/ Proceed(t) \/ Interrupted(t)

(* The scheduler runs every runnable thread.                               *)
Spec == Init /\ [][Next]_vars /\ \A t \in Threads : WF_vars(Proceed(t))

-----------------------------------------------------------------------------
(* Threads on their way to test the condition.                             *)
Coming == {t \in Consumers : pc[t] = "test" /\ t \notin asleep}

(* Producers whose notification is not complete.                           *)
Notifying == {t \in Producers : pc[t] \in {"unlock", "notify", "held"}
                                 \/ cv[t] \in {"wake1", "wakeall"}}

(* No notification is lost: while a consumer sleeps, every permit has a    *)
(* consumer awake on its way to it or a notification on its way to one.    *)
(* This is what reading `seq` before raw_unlock is for.                    *)
NoLostNotify ==
  asleep # {} => permits <= Cardinality(Coming) + Cardinality(Notifying)

(* A permit and a consumer inside wait_while do not both stay for ever.    *)
PermitWaits == permits > 0 /\ \E t \in Consumers : pc[t] = "test"
PermitTaken == PermitWaits ~> ~PermitWaits
=============================================================================
