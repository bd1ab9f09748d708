------------------------------- MODULE Spawn -------------------------------
(***************************************************************************)
(* thread::Builder::spawn, thread_start and JoinHandle: how a thread's     *)
(* stack, payload and result packet change hands between the spawner, the  *)
(* new thread and whoever joins or detaches it.  Each handle is in the     *)
(* hands of some thread, each child runs thread_start.                     *)
(***************************************************************************)
EXTENDS Naturals, Futex

CONSTANTS Children,      \* the threads to spawn
          Targets        \* "linux", "macos" (arm64), "macos_x86"

SpawnAssumption == Targets \subseteq {"linux", "macos", "macos_x86"}

VARIABLES target,        \* the backend
          parent,        \* where the holder of each child's handle is
          child,         \* where each child is in thread_start
          stack,         \* is the child's stack mapped
          payload,       \* is the boxed payload allocated
          refs,          \* strong count of Arc<Packet>
          state,         \* Packet::state
          result,        \* Packet::result: none, some, taken, or dropped
          asleep         \* the children on whose state a join sleeps

vars == <<target, parent, child, stack, payload, refs, state, result, asleep>>

(* Handle: new, clone, fail: in Builder::spawn;  handle: a JoinHandle;     *)
(* join, take: in join;  joined, detached, failed: over.                   *)
(* Child: none;  start: in thread_start before the payload is unboxed;     *)
(* run: in f;  store, wake, drop, exit: its last steps;  dead;             *)
(* never: spawn_os said Ok, and the kernel made no thread;                 *)
(* stray: spawn_os said Err, and the kernel made one.                      *)
ParentPC == {"new", "clone", "fail", "handle", "join", "take", "joined", "detached", "failed"}
ChildPC == {"none", "start", "run", "store", "wake", "drop", "exit", "dead",
            "never", "stray"}

TypeOK ==
  /\ target \in Targets
  /\ parent \in [Children -> ParentPC]
  /\ child \in [Children -> ChildPC]
  /\ stack \in [Children -> BOOLEAN]
  /\ payload \in [Children -> BOOLEAN]
  /\ refs \in [Children -> 0..2]
  /\ state \in [Children -> {0, 1}]
  /\ result \in [Children -> {"none", "some", "taken", "dropped"}]
  /\ asleep \subseteq Children

Init ==
  /\ target \in Targets
  /\ parent = [c \in Children |-> "new"]
  /\ child = [c \in Children |-> "none"]
  /\ stack = [c \in Children |-> FALSE]
  /\ payload = [c \in Children |-> FALSE]
  /\ refs = [c \in Children |-> 0]
  /\ state = [c \in Children |-> 0]
  /\ result = [c \in Children |-> "none"]
  /\ asleep = {}

Set(f, c, v) == [f EXCEPT ![c] = v]

(* Dropping an Arc<Packet>; the last one drops the packet and a result     *)
(* nobody took.                                                            *)
DropPacket(c) ==
  /\ refs' = [refs EXCEPT ![c] = @ - 1]
  /\ result' = [result EXCEPT ![c] = IF refs[c] = 1 /\ @ = "some" THEN "dropped" ELSE @]

(* spawn: map the stack, or fail with nothing allocated.                   *)
MapStack(c) ==
  /\ parent[c] = "new"
  /\ \/ parent' = Set(parent, c, "clone") /\ stack' = Set(stack, c, TRUE)
     \/ parent' = Set(parent, c, "failed") /\ UNCHANGED stack
  /\ UNCHANGED <<child, payload, refs, state, result, asleep>>

SpawnSharesPacket(c) ==
  /\ parent[c] = "clone"
  /\ payload' = Set(payload, c, TRUE)
  /\ refs' = Set(refs, c, 1)
  /\ parent' = Set(parent, c, "handle") /\ child' = Set(child, c, "start")
  /\ UNCHANGED <<stack, state, result, asleep>>

(* spawn: build the packet and the payload that shares it, then spawn_os.  *)
(* It starts the child or fails; on macOS it only looks at what the system *)
(* call returned (see MachSpawn), and on macOS x86_64 it always fails.     *)
SpawnOs(c) ==
  /\ parent[c] = "clone"
  /\ payload' = Set(payload, c, TRUE)
  /\ refs' = Set(refs, c, 2)
  /\ \/ parent' = Set(parent, c, "handle") /\ child' = Set(child, c, "start")
        /\ target # "macos_x86"
     \/ parent' = Set(parent, c, "fail") /\ UNCHANGED child
     \/ parent' = Set(parent, c, "handle") /\ child' = Set(child, c, "never")
        /\ target = "macos"
     \/ parent' = Set(parent, c, "fail") /\ child' = Set(child, c, "stray")
        /\ target = "macos"
  /\ UNCHANGED <<stack, state, result, asleep>>

SpawnFailsKeepsPayload(c) ==
  /\ parent[c] = "fail"
  /\ stack' = Set(stack, c, FALSE)
  /\ refs' = [refs EXCEPT ![c] = @ - 1]
  /\ parent' = Set(parent, c, "failed")
  /\ UNCHANGED <<child, payload, state, result, asleep>>

(* spawn: spawn_os failed; reclaim the payload (and its packet), the       *)
(* stack, and, returning, our own packet.                                  *)
SpawnFails(c) ==
  /\ parent[c] = "fail"
  /\ payload' = Set(payload, c, FALSE)
  /\ stack' = Set(stack, c, FALSE)
  /\ refs' = [refs EXCEPT ![c] = @ - 2]
  /\ parent' = Set(parent, c, "failed")
  /\ UNCHANGED <<child, state, result, asleep>>

(* thread_start: move the payload off the heap, and call f.                *)
Start(c) ==
  /\ child[c] = "start"
  /\ payload' = Set(payload, c, FALSE)
  /\ child' = Set(child, c, "run")
  /\ UNCHANGED <<parent, stack, refs, state, result, asleep>>

(* thread_start: f returned; write the result.                             *)
WriteResult(c) ==
  /\ child[c] = "run"
  /\ result' = Set(result, c, "some")
  /\ child' = Set(child, c, "store")
  /\ UNCHANGED <<parent, stack, payload, refs, state, asleep>>

(* thread_start: publish it.                                               *)
StoreState(c) ==
  /\ child[c] = "store"
  /\ state' = Set(state, c, 1)
  /\ child' = Set(child, c, "wake")
  /\ UNCHANGED <<parent, stack, payload, refs, result, asleep>>

(* thread_start: wake the joiner, if one sleeps.                           *)
WakeJoiner(c) ==
  /\ child[c] = "wake"
  /\ asleep' = asleep \ {c}
  /\ child' = Set(child, c, "drop")
  /\ UNCHANGED <<parent, stack, payload, refs, state, result>>

(* thread_start: drop(packet).                                             *)
DropChildPacket(c) ==
  /\ child[c] = "drop"
  /\ DropPacket(c)
  /\ child' = Set(child, c, "exit")
  /\ UNCHANGED <<parent, stack, payload, state, asleep>>

(* thread_exit: on macOS the kernel unmaps the stack; the thread is over.  *)
ThreadExit(c) ==
  /\ child[c] = "exit"
  /\ stack' = Set(stack, c, target = "linux")
  /\ child' = Set(child, c, "dead")
  /\ UNCHANGED <<parent, payload, refs, state, result, asleep>>

(* join is called, or the handle is dropped (the thread is detached).      *)
Join(c) ==
  /\ parent[c] = "handle"
  /\ parent' = Set(parent, c, "join")
  /\ UNCHANGED <<child, stack, payload, refs, state, result, asleep>>

Detach(c) ==
  /\ parent[c] = "handle"
  /\ DropPacket(c)
  /\ parent' = Set(parent, c, "detached")
  /\ UNCHANGED <<child, stack, payload, state, asleep>>

(* join: futex_wait(state, 0) sleeps ...                                   *)
JoinSleep(c) ==
  /\ parent[c] = "join"
  /\ FutexSleeps(c, asleep, state[c], 0)
  /\ asleep' = asleep \cup {c}
  /\ UNCHANGED <<parent, child, stack, payload, refs, state, result>>

(* ... or returns.                                                         *)
JoinReturns(c) ==
  /\ parent[c] = "join"
  /\ FutexReturns(c, asleep, state[c], 0)
  /\ parent' = Set(parent, c, "take")
  /\ UNCHANGED <<child, stack, payload, refs, state, result, asleep>>

Spurious(c) ==
  /\ c \in asleep
  /\ asleep' = asleep \ {c}
  /\ UNCHANGED <<parent, child, stack, payload, refs, state, result>>

(* join: take the result (a missing one would panic), drop the packet.     *)
TakeResult(c) ==
  /\ parent[c] = "take" /\ result[c] = "some"
  /\ result' = Set(result, c, "taken")
  /\ refs' = [refs EXCEPT ![c] = @ - 1]
  /\ parent' = Set(parent, c, "joined")
  /\ UNCHANGED <<child, stack, payload, state, asleep>>

Child(c) ==
  /\ \/ Start(c) \/ WriteResult(c) \/ StoreState(c) \/ WakeJoiner(c)
     \/ DropChildPacket(c) \/ ThreadExit(c)
  /\ UNCHANGED target

Joining(c) ==
  /\ JoinSleep(c) \/ JoinReturns(c) \/ TakeResult(c)
  /\ UNCHANGED target

Next ==
  \E c \in Children :
    \/ Child(c) \/ Joining(c)
    \/ /\ \/ MapStack(c) \/ SpawnOs(c) \/ SpawnFails(c)
          \/ Join(c) \/ Detach(c) \/ Spurious(c)
       /\ UNCHANGED target

(* The scheduler runs every runnable thread, and every f returns.          *)
Spec ==
  /\ Init /\ [][Next]_vars
  /\ \A c \in Children : WF_vars(Child(c)) /\ WF_vars(Joining(c))

-----------------------------------------------------------------------------
(* Whoever is about to touch the packet, the payload or the stack finds it *)
(* allocated.  In particular the child's store and futex_wake on           *)
(* packet.state come after the joiner may have dropped its own reference.  *)
(* The exception is a stray thread of macOS: spawn frees its payload and   *)
(* its stack, and what it does then is undefined and left out.             *)
NoUseAfterFree ==
  \A c \in Children :
    /\ parent[c] \in {"handle", "join", "take"} => refs[c] > 0
    /\ child[c] \in {"start", "run", "store", "wake", "drop"} => refs[c] > 0
    /\ child[c] = "start" => payload[c]
    /\ child[c] \notin {"none", "dead", "never", "stray"} => stack[c]

(* "state == 1 (Acquire) means the result was published": join's expect    *)
(* never panics, and the child has finished writing when join reads.       *)
JoinFindsResult ==
  \A c \in Children : parent[c] = "take" => result[c] = "some"

(* The spawner, the new thread and the joiner take turns on the packet     *)
(* without touching what is freed or not yet there.                        *)
PacketSafe == NoUseAfterFree /\ JoinFindsResult

(* When both sides are done with a child nothing of it is left: no packet, *)
(* no payload, no result that was neither taken nor dropped, and no stack  *)
(* except the one a Linux thread cannot unmap under itself.  Of a thread   *)
(* that was never made, though spawn_os said Ok, everything is left but    *)
(* the reference that went with the handle.                                *)
NothingLeaks ==
  \A c \in Children :
    parent[c] \in {"joined", "detached", "failed"} =>
      /\ child[c] \in {"none", "dead", "stray"} =>
           /\ refs[c] = 0 /\ ~payload[c] /\ result[c] # "some"
           /\ stack[c] => child[c] = "dead" /\ target = "linux"
      /\ child[c] = "never" =>
           target = "macos" /\ refs[c] = 1 /\ payload[c] /\ stack[c]

(* join returns, unless the thread it waits for was never made.            *)
InJoin == \E c \in Children : parent[c] \in {"join", "take"} /\ child[c] # "never"
JoinEnds == InJoin ~> ~InJoin

(* "Wait for the associated thread to finish and return its result" (the   *)
(* comment of JoinHandle::join): with every spawned closure returning,     *)
(* every join returns.                                                     *)
JoinWaitsForThread == \A c \in Children : parent[c] = "join" ~> parent[c] = "joined"
=============================================================================
