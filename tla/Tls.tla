-------------------------------- MODULE Tls --------------------------------
(***************************************************************************)
(* tls::LocalKey::with over the global registry keyed by (kernel thread    *)
(* id, key).  The kernel gives a live thread an id no other live thread    *)
(* has, and gives the ids of dead threads out again.  A boxed value is the *)
(* record of the thread and the access that made it, so that two boxes are *)
(* never equal.                                                            *)
(***************************************************************************)
EXTENDS Naturals

CONSTANTS Threads,      \* threads over the life of the process
          Tids,         \* kernel thread ids
          Keys,         \* LocalKey statics
          None,         \* no tid, no key, no value
          MaxAccess     \* bound: calls of `with` by each thread

Boxes == [by : Threads, key : Keys, at : 1..MaxAccess]

TlsAssumption ==
  /\ None \notin Threads \cup Tids \cup Keys \cup Boxes
  /\ MaxAccess \in Nat

VARIABLES tid,          \* the kernel's id of each live thread, else None
          born,         \* the threads that have been started
          owner,        \* holder of the registry's mutex, or None
          registry,     \* REGISTRY: (tid, key) to box, None when absent
          pc,           \* where each thread is in `with`
          key,          \* the key of the call
          ptr,          \* the call's local `ptr`
          used,         \* the boxes each thread has accessed, per key
          left          \* calls each thread has left

vars == <<tid, born, owner, registry, pc, key, ptr, used, left>>

(* lookup, init, insert: before the first lock, in (self.init)(), before   *)
(* the second lock;  found, inserted: with the guard;  use: in f.          *)
PC == {"idle", "lookup", "found", "init", "insert", "inserted", "use"}

TypeOK ==
  /\ tid \in [Threads -> Tids \cup {None}]
  /\ born \subseteq Threads
  /\ owner \in Threads \cup {None}
  /\ registry \in [Tids \X Keys -> Boxes \cup {None}]
  /\ pc \in [Threads -> PC]
  /\ key \in [Threads -> Keys \cup {None}]
  /\ ptr \in [Threads -> Boxes \cup {None}]
  /\ used \in [Threads \X Keys -> SUBSET Boxes]
  /\ left \in [Threads -> 0..MaxAccess]

Init ==
  /\ tid = [t \in Threads |-> None]
  /\ born = {}
  /\ owner = None
  /\ registry = [k \in Tids \X Keys |-> None]
  /\ pc = [t \in Threads |-> "idle"]
  /\ key = [t \in Threads |-> None]
  /\ ptr = [t \in Threads |-> None]
  /\ used = [k \in Threads \X Keys |-> {}]
  /\ left = [t \in Threads |-> MaxAccess]

Goto(t, l) == pc' = [pc EXCEPT ![t] = l]

(* gettid(), as the kernel assigns it.                                     *)
Start(t) ==
  /\ t \notin born
  /\ born' = born \cup {t}
  /\ \E i \in Tids :
       /\ \A u \in Threads : tid[u] # i
       /\ tid' = [tid EXCEPT ![t] = i]
  /\ UNCHANGED <<owner, registry, pc, key, ptr, used, left>>

(* The thread ends.  The registry keeps its entries.                       *)
Exit(t) ==
  /\ tid[t] # None /\ pc[t] = "idle"
  /\ tid' = [tid EXCEPT ![t] = None]
  /\ UNCHANGED <<born, owner, registry, pc, key, ptr, used, left>>

(* with(key): read the tid; on to the registry.                            *)
With(t, k) ==
  /\ tid[t] # None /\ pc[t] = "idle" /\ left[t] > 0
  /\ left' = [left EXCEPT ![t] = @ - 1]
  /\ key' = [key EXCEPT ![t] = k]
  /\ Goto(t, "lookup")
  /\ UNCHANGED <<tid, born, owner, registry, ptr, used>>

Lock(t) ==
  /\ owner = None
  /\ owner' = t
  /\ \/ pc[t] = "lookup" /\ Goto(t, "found")
     \/ pc[t] = "insert" /\ Goto(t, "inserted")
  /\ UNCHANGED <<tid, born, registry, key, ptr, used, left>>

(* with: look (tid, key) up, drop the guard.                               *)
Lookup(t) ==
  /\ pc[t] = "found"
  /\ owner' = None
  /\ ptr' = [ptr EXCEPT ![t] = registry[<<tid[t], key[t]>>]]
  /\ Goto(t, IF ptr'[t] = None THEN "init" ELSE "use")
  /\ UNCHANGED <<tid, born, registry, key, used, left>>

(* with: no entry; initialise a box, without the lock.                     *)
InitValue(t) ==
  /\ pc[t] = "init"
  /\ ptr' = [ptr EXCEPT ![t] = [by |-> t, key |-> key[t], at |-> MaxAccess - left[t]]]
  /\ Goto(t, "insert")
  /\ UNCHANGED <<tid, born, owner, registry, key, used, left>>

InsertForgotten(t) ==
  /\ pc[t] = "inserted"
  /\ owner' = None
  /\ Goto(t, "use")
  /\ UNCHANGED <<tid, born, registry, key, ptr, used, left>>

(* with: remember the box, drop the guard.                                 *)
Insert(t) ==
  /\ pc[t] = "inserted"
  /\ registry' = [registry EXCEPT ![<<tid[t], key[t]>>] = ptr[t]]
  /\ owner' = None
  /\ Goto(t, "use")
  /\ UNCHANGED <<tid, born, key, ptr, used, left>>

(* with: f(value), and return.                                             *)
Use(t) ==
  /\ pc[t] = "use"
  /\ used' = [used EXCEPT ![<<t, key[t]>>] = @ \cup {ptr[t]}]
  /\ Goto(t, "idle")
  /\ ptr' = [ptr EXCEPT ![t] = None]
  /\ key' = [key EXCEPT ![t] = None]
  /\ UNCHANGED <<tid, born, owner, registry, left>>

Next ==
  \E t \in Threads :
    \/ Start(t) \/ Exit(t) \/ Lock(t) \/ Lookup(t) \/ InitValue(t) \/ Insert(t) \/ Use(t)
    \/ \E k \in Keys : With(t, k)

Spec == Init /\ [][Next]_vars

-----------------------------------------------------------------------------
(* A thread keeps seeing the same value of a key, whatever the other       *)
(* threads insert between its lookups.                                     *)
OneValuePerThread ==
  \A t \in Threads, k \in Keys, b \in Boxes :
    b \in used[<<t, k>>] => used[<<t, k>>] = {b}

(* "this thread is its only accessor": no two live threads have accessed   *)
(* the same box, and a box is only accessed through its own key.           *)
NotShared ==
  \A t, u \in Threads, k, l \in Keys :
    /\ tid[t] # None /\ tid[u] # None /\ <<t, k>> # <<u, l>>
    => used[<<t, k>>] \cap used[<<u, l>>] = {}

(* A thread has one value for a key, and nobody else has it.               *)
ThreadLocal == OneValuePerThread /\ NotShared

(* "initializing it on first use": the value a thread sees is one that it  *)
(* initialised, never one left behind by another thread.                   *)
InitialisedByItself ==
  \A t \in Threads, k \in Keys : \A b \in used[<<t, k>>] : b.by = t
=============================================================================
