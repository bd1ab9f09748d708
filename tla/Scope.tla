------------------------------- MODULE Scope -------------------------------
(***************************************************************************)
(* thread::scope, Scope::spawn and ScopedJoinHandle::join.  ScopeData is   *)
(* on the stack of the thread that called scope; the scoped threads hold a *)
(* raw pointer to it.  The packet that join waits for is the one of module *)
(* Spawn: `finished` is its state.                                         *)
(***************************************************************************)
EXTENDS Naturals, FiniteSets, Futex

CONSTANTS Children       \* the scoped threads that may be spawned

ScopeAssumption == IsFiniteSet(Children)

VARIABLES running, wake,  \* ScopeData
          frame,          \* is the stack frame with ScopeData still there
          asleep,         \* {"scope"} when scope() sleeps on `wake`
          parent,         \* where scope() is
          child,          \* where each child is
          slot,           \* each child's result slot
          finished,       \* the children whose packet is published
          joining         \* the child whose handle f is joining, or {}

vars == <<running, wake, frame, asleep, parent, child, slot, finished, joining>>

(* scope(): body: in f;  check, wait, reset: the loop that waits for the   *)
(* children;  returned.                                                    *)
(* Children: none;  run: in f;  sub: about to fetch_sub;  store, notify:   *)
(* the last one, about to set `wake` and to futex_wake;  end: the closure  *)
(* is over, thread_start goes on;  dead: packet published;  never: on      *)
(* macOS, spawned without a thread (see Spawn).                            *)
ParentPC == {"body", "check", "wait", "reset", "returned"}
ChildPC == {"none", "run", "sub", "store", "notify", "end", "dead", "never"}
Slot == {"none", "empty", "full", "freed"}

TypeOK ==
  /\ running \in 0 .. Cardinality(Children)
  /\ wake \in {0, 1}
  /\ frame \in BOOLEAN
  /\ asleep \subseteq {"scope"}
  /\ parent \in ParentPC
  /\ child \in [Children -> ChildPC]
  /\ slot \in [Children -> Slot]
  /\ finished \subseteq Children
  /\ joining \subseteq Children

Init ==
  /\ running = 0 /\ wake = 0
  /\ frame = TRUE
  /\ asleep = {}
  /\ parent = "body"
  /\ child = [c \in Children |-> "none"]
  /\ slot = [c \in Children |-> "none"]
  /\ finished = {}
  /\ joining = {}

Goto(c, l) == child' = [child EXCEPT ![c] = l]

SpawnUncounted(c) ==
  /\ child[c] = "none"
  /\ \/ parent = "body" /\ joining = {}
     \/ \E d \in Children : child[d] = "run"
  /\ slot' = [slot EXCEPT ![c] = "empty"]
  /\ Goto(c, "run")
  /\ UNCHANGED <<running, wake, frame, asleep, parent, finished, joining>>

(* Scope::spawn, by f or by a scoped thread: count the child, allocate its *)
(* slot, start it.  (A spawn that fails ends the process.)                 *)
Spawn(c) ==
  /\ child[c] = "none"
  /\ \/ parent = "body" /\ joining = {}
     \/ \E d \in Children : child[d] = "run"
  /\ running' = running + 1
  /\ slot' = [slot EXCEPT ![c] = "empty"]
  /\ Goto(c, "run") \/ Goto(c, "never")
  /\ UNCHANGED <<wake, frame, asleep, parent, finished, joining>>

(* The child's f returned: write the slot.                                 *)
WriteSlot(c) ==
  /\ child[c] = "run"
  /\ slot' = [slot EXCEPT ![c] = "full"]
  /\ Goto(c, "sub")
  /\ UNCHANGED <<running, wake, frame, asleep, parent, finished, joining>>

(* running.fetch_sub(1); only the last child wakes scope().                *)
FetchSub(c) ==
  /\ child[c] = "sub"
  /\ running' = running - 1
  /\ Goto(c, IF running = 1 THEN "store" ELSE "end")
  /\ UNCHANGED <<wake, frame, asleep, parent, slot, finished, joining>>

(* data.wake.store(1)                                                      *)
StoreWake(c) ==
  /\ child[c] = "store"
  /\ wake' = 1
  /\ Goto(c, "notify")
  /\ UNCHANGED <<running, frame, asleep, parent, slot, finished, joining>>

(* futex_wake(&data.wake)                                                  *)
NotifyScope(c) ==
  /\ child[c] = "notify"
  /\ asleep' \in FutexWake(asleep)
  /\ Goto(c, "end")
  /\ UNCHANGED <<running, wake, frame, parent, slot, finished, joining>>

(* thread_start publishes the packet of the wrapped closure.               *)
Finish(c) ==
  /\ child[c] = "end"
  /\ finished' = finished \cup {c}
  /\ Goto(c, "dead")
  /\ UNCHANGED <<running, wake, frame, asleep, parent, slot, joining>>

(* f calls ScopedJoinHandle::join ...                                      *)
Join(c) ==
  /\ parent = "body" /\ joining = {} /\ slot[c] \in {"empty", "full"}
  /\ joining' = {c}
  /\ UNCHANGED <<running, wake, frame, asleep, parent, child, slot, finished>>

(* ... which returns once the packet is there, and frees the slot.         *)
JoinReturns(c) ==
  /\ c \in joining /\ c \in finished
  /\ slot' = [slot EXCEPT ![c] = "freed"]
  /\ joining' = {}
  /\ UNCHANGED <<running, wake, frame, asleep, parent, child, finished>>

(* f returns.                                                              *)
BodyEnds ==
  /\ parent = "body" /\ joining = {}
  /\ parent' = "check"
  /\ UNCHANGED <<running, wake, frame, asleep, child, slot, finished, joining>>

(* The loop's condition: some child is running, or scope() returns and its *)
(* frame is gone.                                                          *)
Check ==
  /\ parent = "check"
  /\ \/ running # 0 /\ parent' = "wait" /\ UNCHANGED frame
     \/ running = 0 /\ parent' = "returned" /\ frame' = FALSE
  /\ UNCHANGED <<running, wake, asleep, child, slot, finished, joining>>

(* futex_wait(&wake, 0) sleeps ...                                         *)
ScopeSleeps ==
  /\ parent = "wait"
  /\ FutexSleeps("scope", asleep, wake, 0)
  /\ asleep' = {"scope"}
  /\ UNCHANGED <<running, wake, frame, parent, child, slot, finished, joining>>

(* ... or returns.                                                         *)
ScopeWaitReturns ==
  /\ parent = "wait"
  /\ FutexReturns("scope", asleep, wake, 0)
  /\ parent' = "reset"
  /\ UNCHANGED <<running, wake, frame, asleep, child, slot, finished, joining>>

Spurious ==
  /\ asleep # {}
  /\ asleep' = {}
  /\ UNCHANGED <<running, wake, frame, parent, child, slot, finished, joining>>

(* wake.store(0), and look again.                                          *)
Reset ==
  /\ parent = "reset"
  /\ wake' = 0
  /\ parent' = "check"
  /\ UNCHANGED <<running, frame, asleep, child, slot, finished, joining>>

Child(c) == WriteSlot(c) \/ FetchSub(c) \/ StoreWake(c) \/ NotifyScope(c) \/ Finish(c)

Parent ==
  \/ BodyEnds \/ Check \/ ScopeSleeps \/ ScopeWaitReturns \/ Reset
  \/ \E c \in Children : JoinReturns(c)

Next ==
  \/ \E c \in Children : Spawn(c) \/ Child(c) \/ Join(c)
  \/ Parent \/ Spurious

(* The scheduler runs every runnable thread, and every f returns.          *)
Spec == Init /\ [][Next]_vars /\ WF_vars(Parent) /\ \A c \in Children : WF_vars(Child(c))

-----------------------------------------------------------------------------
(* The borrow is safe: when scope() has returned, no scoped thread is      *)
(* still in the closure that may use what it borrowed.                     *)
ClosuresOver ==
  parent = "returned" => \A c \in Children : child[c] \notin {"run", "sub"}

(* ScopedJoinHandle::join frees a slot only after its thread wrote it:     *)
(* "the thread finished, so the slot is written and unaliased".            *)
SlotUnaliased ==
  \A c \in Children : slot[c] = "freed" => child[c] = "dead"

(* Scoped threads keep to their scope: neither what they borrow nor a slot *)
(* goes away under them.                                                   *)
ScopeSafe == ClosuresOver /\ SlotUnaliased

(* scope() returns, however the last thread's wakeup interleaves with the  *)
(* reset of `wake`, unless a thread it waits for was never made.           *)
InScope == parent # "returned" /\ \A c \in Children : child[c] # "never"
ScopeReturns == InScope ~> ~InScope

(* "scope() outlives all its threads, so `data` is valid": a child that is *)
(* about to touch ScopeData finds the frame it is in still there.          *)
DataOutlivesThreads ==
  (\E c \in Children : child[c] \in {"sub", "store", "notify"}) => frame
=============================================================================
