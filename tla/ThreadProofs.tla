--------------------------- MODULE ThreadProofs ----------------------------
(***************************************************************************)
(* What threads are made with and start from, and what it promises for any *)
(* number of threads and calls: spawn and join (whose names are as they    *)
(* are in Spawn), OnceLock and LazyLock, the thread-local registry, park   *)
(* and unpark, thread creation on macOS, and thread::scope.                *)
(***************************************************************************)
EXTENDS Spawn, Sequences, FiniteSetTheorems, TLAPS

(* The packet, payload and stack of a thread are safe and do not leak, for *)
(* any number of threads.                                                  *)

ASSUME SpawningAssumption == SpawnAssumption

(* The inductive strengthening of PacketSafe and NothingLeaks: where the   *)
(* holder and the child are determines everything else.                    *)
HolderCounts(c) == parent[c] \in {"handle", "join", "take", "fail"}
ChildCounts(c) ==
  \/ parent[c] = "fail"
  \/ child[c] \in {"never", "start", "run", "store", "wake", "drop"}
Positions(c) ==
  /\ child[c] \in {"none", "stray"} <=> parent[c] \in {"new", "clone", "fail", "failed"}
  /\ child[c] = "stray" => parent[c] \in {"fail", "failed"}
  /\ child[c] = "never" => target = "macos"
  /\ refs[c] = (IF HolderCounts(c) THEN 1 ELSE 0) + (IF ChildCounts(c) THEN 1 ELSE 0)
  /\ payload[c] <=> parent[c] = "fail" \/ child[c] \in {"never", "start"}
  /\ stack[c] <=> \/ parent[c] \in {"clone", "fail"}
                  \/ child[c] \notin {"none", "dead", "stray"}
                  \/ child[c] = "dead" /\ target = "linux"
  /\ state[c] = 1 <=> child[c] \in {"wake", "drop", "exit", "dead"}
  /\ parent[c] \in {"take", "joined"} => state[c] = 1
  /\ result[c] = CASE child[c] \in {"none", "stray", "never", "start", "run"} -> "none"
                   [] /\ child[c] \notin {"none", "stray", "never", "start", "run"}
                      /\ parent[c] = "joined" -> "taken"
                   [] child[c] \in {"exit", "dead"} /\ parent[c] = "detached" -> "dropped"
                   [] OTHER -> "some"

SpawnInv == TypeOK /\ \A c \in Children : Positions(c)

LEMMA SpawnInitInv == Init => SpawnInv
BY DEF Init, SpawnInv, TypeOK, ParentPC, ChildPC, Positions, HolderCounts, ChildCounts

childVars(c) == <<parent[c], child[c], stack[c], payload[c], refs[c], state[c], result[c]>>

(* A step about c touches only what belongs to c.                          *)
LEMMA OnlyOwn ==
  ASSUME SpawnInv, NEW c \in Children, TypeOK', Positions(c)',
         UNCHANGED target, \A d \in Children \ {c} : UNCHANGED childVars(d)
  PROVE  SpawnInv'
<1>1. ASSUME NEW d \in Children \ {c} PROVE Positions(d)'
  BY <1>1 DEF SpawnInv, Positions, HolderCounts, ChildCounts, childVars
<1>2. QED
  BY <1>1 DEF SpawnInv

LEMMA SpawnNextInv ==
  ASSUME SpawnAssumption, SpawnInv, [Next]_vars
  PROVE  SpawnInv'
<1> USE DEF Set
<1>1. CASE UNCHANGED vars
  BY <1>1 DEF vars, SpawnInv, TypeOK, Positions, HolderCounts, ChildCounts
<1>2. ASSUME NEW c \in Children, UNCHANGED target,
             MapStack(c) \/ SpawnOs(c) \/ SpawnFails(c)
      PROVE  SpawnInv'
  <2>1. Positions(c)
    BY DEF SpawnInv
  <2>2. TypeOK' /\ \A d \in Children \ {c} : UNCHANGED childVars(d)
    <3>1. SpawnFails(c) => refs[c] - 2 \in 0..2
      BY <2>1 DEF SpawnFails, Positions, HolderCounts, ChildCounts
    <3>2. CASE MapStack(c)
      BY <1>2, <3>2, Zenon DEF MapStack, SpawnInv, TypeOK, ParentPC, childVars
    <3>3. CASE SpawnOs(c)
      BY <1>2, <3>3 DEF SpawnOs, SpawnInv, TypeOK, ParentPC, ChildPC, childVars
    <3>4. CASE SpawnFails(c)
      BY <1>2, <3>1, <3>4 DEF SpawnFails, SpawnInv, TypeOK, ParentPC, childVars
    <3>5. QED
      BY <1>2, <3>2, <3>3, <3>4
  <2>3. Positions(c)'
    BY <1>2, <2>1 DEF MapStack, SpawnOs, SpawnFails, SpawnInv, TypeOK, ParentPC, ChildPC,
       Positions, HolderCounts, ChildCounts
  <2>4. QED
    BY <1>2, <2>2, <2>3, OnlyOwn
<1>3. ASSUME NEW c \in Children, UNCHANGED target,
             Start(c) \/ WriteResult(c) \/ StoreState(c)
      PROVE  SpawnInv'
  <2>1. Positions(c)
    BY DEF SpawnInv
  <2>2. TypeOK' /\ \A d \in Children \ {c} : UNCHANGED childVars(d)
    BY <1>3, ZenonT(60) DEF Start, WriteResult, StoreState, SpawnInv, TypeOK, ChildPC, childVars
  <2>3. Positions(c)'
    BY <1>3, <2>1 DEF Start, WriteResult, StoreState, SpawnInv, TypeOK, ParentPC, ChildPC,
       Positions, HolderCounts, ChildCounts
  <2>4. QED
    BY <1>3, <2>2, <2>3, OnlyOwn
<1>4. ASSUME NEW c \in Children, UNCHANGED target,
             WakeJoiner(c) \/ DropChildPacket(c) \/ ThreadExit(c)
      PROVE  SpawnInv'
  <2>1. Positions(c)
    BY DEF SpawnInv
  <2>2. TypeOK' /\ \A d \in Children \ {c} : UNCHANGED childVars(d)
    BY <1>4, <2>1 DEF WakeJoiner, DropChildPacket, DropPacket, ThreadExit, SpawnInv, TypeOK, ChildPC,
       Positions, HolderCounts, ChildCounts, childVars, SpawnAssumption
  <2>3. Positions(c)'
    BY <1>4, <2>1 DEF WakeJoiner, DropChildPacket, DropPacket, ThreadExit, SpawnInv, TypeOK,
       ParentPC, ChildPC, Positions, HolderCounts, ChildCounts, SpawnAssumption
  <2>4. QED
    BY <1>4, <2>2, <2>3, OnlyOwn
<1>5. ASSUME NEW c \in Children, UNCHANGED target,
             Join(c) \/ Detach(c) \/ JoinReturns(c) \/ TakeResult(c)
      PROVE  SpawnInv'
  <2>1. Positions(c)
    BY DEF SpawnInv
  <2>2. TypeOK' /\ \A d \in Children \ {c} : UNCHANGED childVars(d)
    BY <1>5, <2>1 DEF Join, Detach, DropPacket, JoinReturns, TakeResult, SpawnInv, TypeOK, ParentPC,
       Positions, HolderCounts, ChildCounts, childVars
  <2>3. Positions(c)'
    BY <1>5, <2>1 DEF Join, Detach, DropPacket, JoinReturns, FutexReturns, TakeResult, SpawnInv, TypeOK,
       ParentPC, ChildPC, Positions, HolderCounts, ChildCounts
  <2>4. QED
    BY <1>5, <2>2, <2>3, OnlyOwn
<1>6. ASSUME NEW c \in Children, UNCHANGED target,
             JoinSleep(c) \/ Spurious(c)
      PROVE  SpawnInv'
  BY <1>6 DEF JoinSleep, Spurious, SpawnInv, TypeOK, Positions, HolderCounts, ChildCounts
<1>7. QED
  BY <1>1, <1>2, <1>3, <1>4, <1>5, <1>6 DEF Next, Child, Joining

LEMMA SpawnInvariance == ASSUME SpawnAssumption PROVE Spec => []SpawnInv
BY SpawnInitInv, SpawnNextInv, PTL DEF Spec

(* Nobody touches the packet, the payload or the stack of a thread after   *)
(* it is freed, and join finds the result: for every number of threads.    *)
THEOREM PacketSafeHolds ==
  ASSUME SpawnAssumption
  PROVE  Spec => []PacketSafe
<1>1. SpawnInv => PacketSafe
  BY DEF SpawnInv, TypeOK, ParentPC, ChildPC, Positions, HolderCounts, ChildCounts,
     PacketSafe, NoUseAfterFree, JoinFindsResult
<1>2. QED
  BY <1>1, SpawnInvariance, PTL

(* When both sides are done, nothing of a thread is left but the stack     *)
(* that a Linux thread cannot unmap under itself, and what was meant for a *)
(* thread that macOS never made.                                           *)
THEOREM NothingLeaksHolds ==
  ASSUME SpawnAssumption
  PROVE  Spec => []NothingLeaks
<1>1. SpawnInv => NothingLeaks
  BY DEF SpawnInv, TypeOK, ParentPC, ChildPC, Positions, HolderCounts, ChildCounts, NothingLeaks
<1>2. QED
  BY <1>1, SpawnInvariance, PTL

-----------------------------------------------------------------------------
(* OnceLock and LazyLock are safe for any number of callers.               *)

CONSTANTS Callers, Absent,                  \* Threads and None of Once, Tls, MachSpawn
          Ops                               \* see Once

VARIABLES oState, value, init, op, oPc, out

O == INSTANCE Once WITH Threads <- Callers, None <- Absent, state <- oState, pc <- oPc

ASSUME CallingAssumption == O!OnceAssumption

(* Once: the cell's memory is never raced for, no unwrap panics, and all   *)
(* callers see the one value of the caller whose closure ran.              *)
OnceSafe == O!OnceSafe

(* The inductive strengthening of OnceSafe: who runs the closure, and what *)
(* the state says of the value.                                            *)
Runner(t) == oPc[t] \in {"run", "publish"}
OneRunner ==
  /\ \A t \in Callers : Runner(t) => oState = O!RUNNING
  /\ \A t, u \in Callers : Runner(t) /\ Runner(u) => t = u
ValueFollows ==
  /\ oState = O!INCOMPLETE => value = Absent
  /\ oState = O!COMPLETE => value \in Callers
  /\ value = Absent => init
  /\ \A t \in Callers :
       /\ oPc[t] = "run" => value = Absent
       /\ oPc[t] = "publish" => value = t
       /\ oPc[t] = "read" => oState = O!COMPLETE
       /\ oPc[t] \in {"idle", "load", "cas", "spin"} => value # t
       /\ oPc[t] # "panic"
Outcomes ==
  \A t \in Callers : oPc[t] = "done" =>
    \/ out[t] = Absent /\ op[t] = "get"
    \/ /\ oState = O!COMPLETE
       /\ \/ out[t] = "Ok" /\ value = t
          \/ out[t] = "Err" /\ value # t
          \/ out[t] = value

OnceInv == O!TypeOK /\ OneRunner /\ ValueFollows /\ Outcomes

LEMMA OnceInitInv == ASSUME O!OnceAssumption PROVE O!Init => OnceInv
BY DEF O!OnceAssumption, O!Init, OnceInv, O!TypeOK, OneRunner, Runner, ValueFollows, Outcomes, O!PC,
       O!INCOMPLETE, O!RUNNING, O!COMPLETE

(* The types.                                                              *)
LEMMA OnceNextType ==
  ASSUME O!OnceAssumption, O!TypeOK, [O!Next]_(O!vars)
  PROVE  O!TypeOK'
<1> USE DEF O!PC, O!Goto, O!Return, O!AfterOnce
<1>1. CASE UNCHANGED O!vars
  BY <1>1 DEF O!vars, O!TypeOK
<1>2. ASSUME NEW t \in Callers, O!Call(t) PROVE O!TypeOK'
  BY <1>2 DEF O!Call, O!TypeOK, O!OnceAssumption
<1>3. ASSUME NEW t \in Callers, O!Load(t) \/ O!Spin(t) PROVE O!TypeOK'
  BY <1>3 DEF O!Load, O!Spin, O!TypeOK
<1>4. ASSUME NEW t \in Callers, O!Cas(t) \/ O!Run(t) PROVE O!TypeOK'
  BY <1>4, Zenon DEF O!Cas, O!Run, O!TypeOK
<1>5. ASSUME NEW t \in Callers, O!Publish(t) \/ O!Read(t) PROVE O!TypeOK'
  BY <1>5 DEF O!Publish, O!Read, O!TypeOK
<1>6. QED
  BY <1>1, <1>2, <1>3, <1>4, <1>5 DEF O!Next, O!Proceed

LEMMA OnceNextInv ==
  ASSUME O!OnceAssumption, OnceInv, [O!Next]_(O!vars)
  PROVE  OnceInv'
<1>1. O!TypeOK'
  BY OnceNextType DEF OnceInv
<1> USE <1>1 DEF OnceInv, O!Goto, O!Return, O!AfterOnce, O!INCOMPLETE, O!RUNNING, O!COMPLETE
<1>2. CASE UNCHANGED O!vars
  BY <1>2 DEF O!vars, OneRunner, Runner, ValueFollows, Outcomes
<1>3. ASSUME NEW t \in Callers, O!Call(t) PROVE OnceInv'
  <2>1. OneRunner' /\ ValueFollows'
    BY <1>3 DEF O!Call, O!TypeOK, OneRunner, Runner, ValueFollows
  <2>2. Outcomes'
    BY <1>3 DEF O!Call, O!TypeOK, Outcomes
  <2>3. QED  BY <2>1, <2>2
<1>4. ASSUME NEW t \in Callers, O!Load(t) PROVE OnceInv'
  <2>1. OneRunner' /\ ValueFollows'
    BY <1>4 DEF O!Load, O!TypeOK, OneRunner, Runner, ValueFollows
  <2>2. Outcomes'
    BY <1>4 DEF O!Load, O!TypeOK, ValueFollows, Outcomes
  <2>3. QED  BY <2>1, <2>2
<1>5. ASSUME NEW t \in Callers, O!Cas(t) PROVE OnceInv'
  <2>1. OneRunner' /\ ValueFollows'
    BY <1>5 DEF O!Cas, O!TypeOK, OneRunner, Runner, ValueFollows
  <2>2. Outcomes'
    BY <1>5 DEF O!Cas, O!TypeOK, Outcomes
  <2>3. QED  BY <2>1, <2>2
<1>6. ASSUME NEW t \in Callers, O!Run(t) PROVE OnceInv'
  <2>1. /\ value' = t /\ oPc' = [oPc EXCEPT ![t] = "publish"] /\ oState = O!RUNNING
        /\ UNCHANGED <<oState, op, out>>
    BY <1>6 DEF O!Run, OneRunner, Runner, ValueFollows
  <2>2. OneRunner'
    BY <1>6, <2>1 DEF O!Run, O!TypeOK, OneRunner, Runner
  <2>3. ValueFollows'
    BY <1>6, <2>1 DEF O!Run, O!TypeOK, OneRunner, Runner, ValueFollows, O!OnceAssumption
  <2>4. Outcomes'
    BY <2>1 DEF O!TypeOK, Outcomes
  <2>5. QED  BY <2>2, <2>3, <2>4
<1>7. ASSUME NEW t \in Callers, O!Publish(t) PROVE OnceInv'
  <2>1. value = t /\ oState = O!RUNNING /\ UNCHANGED <<value, init, op>> /\ oState' = O!COMPLETE
    BY <1>7 DEF O!Publish, OneRunner, Runner, ValueFollows
  <2>2. OneRunner'
    BY <1>7, <2>1 DEF O!Publish, O!TypeOK, OneRunner, Runner
  <2>3. ValueFollows'
    BY <1>7, <2>1 DEF O!Publish, O!TypeOK, OneRunner, Runner, ValueFollows
  <2>4. Outcomes'
    BY <1>7, <2>1 DEF O!Publish, O!TypeOK, Outcomes
  <2>5. QED  BY <2>2, <2>3, <2>4
<1>8. ASSUME NEW t \in Callers, O!Spin(t) PROVE OnceInv'
  <2>1. OneRunner' /\ ValueFollows'
    BY <1>8 DEF O!Spin, O!TypeOK, OneRunner, Runner, ValueFollows
  <2>2. Outcomes'
    BY <1>8 DEF O!Spin, O!TypeOK, ValueFollows, Outcomes
  <2>3. QED  BY <2>1, <2>2
<1>9. ASSUME NEW t \in Callers, O!Read(t) PROVE OnceInv'
  <2>1. /\ oState = O!COMPLETE /\ value # Absent
        /\ oPc' = [oPc EXCEPT ![t] = "done"] /\ out' = [out EXCEPT ![t] = value]
        /\ UNCHANGED <<oState, value, init, op>>
    BY <1>9 DEF O!Read, ValueFollows, O!OnceAssumption
  <2>2. OneRunner' /\ ValueFollows'
    BY <2>1 DEF O!TypeOK, OneRunner, Runner, ValueFollows
  <2>3. Outcomes'
    BY <2>1 DEF O!TypeOK, Outcomes
  <2>4. QED  BY <2>2, <2>3
<1>10. QED
  BY <1>2, <1>3, <1>4, <1>5, <1>6, <1>7, <1>8, <1>9 DEF O!Next, O!Proceed

(* However many threads call get, set and get_or_init, or force, at the    *)
(* same time: the memory of the cell is not raced for, no unwrap panics,   *)
(* and all callers agree on one value.                                     *)
THEOREM OnceSafeHolds ==
  ASSUME O!OnceAssumption
  PROVE  O!Spec => []OnceSafe
<1>1. OnceInv => OnceSafe
  <2> SUFFICES ASSUME OnceInv PROVE OnceSafe
    OBVIOUS
  <2> USE DEF OnceInv, O!INCOMPLETE, O!RUNNING, O!COMPLETE
  <2>1. O!NoRaceNoPanic
    BY DEF OneRunner, Runner, ValueFollows, O!NoRaceNoPanic
  <2>2. O!OneValue
    BY DEF ValueFollows, Outcomes, O!OneValue, O!OnceAssumption
  <2>3. QED
    BY <2>1, <2>2 DEF OnceSafe, O!OnceSafe
<1>2. QED
  BY <1>1, OnceInitInv, OnceNextInv, PTL DEF O!Spec

-----------------------------------------------------------------------------
(* A thread has its own value of a thread-local key, for any number of     *)
(* threads, keys and accesses.                                             *)

CONSTANTS Tids, Keys, MaxAccess             \* see Tls

VARIABLES tid, born, tOwner, registry, tPc, key, ptr, used, tLeft

T == INSTANCE Tls WITH Threads <- Callers, None <- Absent, owner <- tOwner, pc <- tPc,
                       left <- tLeft

ASSUME LocalAssumption == T!TlsAssumption

(* Tls: a thread keeps its one value of a key, and nobody shares it.       *)
ThreadLocal == T!ThreadLocal

(* The inductive strengthening of ThreadLocal.  Live threads have their    *)
(* own ids; a call is made by a live thread, on its first MaxAccess calls. *)
TlsCalls ==
  /\ \A t, u \in Callers : tid[t] = tid[u] /\ tid[t] # Absent => t = u
  /\ \A t \in Callers :
       /\ t \notin born => tid[t] = Absent /\ \A k \in Keys : used[<<t, k>>] = {}
       /\ tPc[t] # "idle" => tid[t] # Absent /\ key[t] \in Keys /\ tLeft[t] < MaxAccess

(* The box that a call of t makes.                                         *)
NewBox(t) == [by |-> t, key |-> key[t], at |-> MaxAccess - tLeft[t]]

(* A live thread's entries of the registry are what it has used and what   *)
(* its call holds; while it initialises one, the entry stays absent.       *)
TlsUsed ==
  \A t \in Callers : tid[t] # Absent =>
    \A k \in Keys : \A b \in used[<<t, k>>] : b = registry[<<tid[t], k>>] /\ b # Absent
TlsEntries ==
  /\ TlsUsed
  /\ \A t \in Callers :
       /\ tPc[t] \in {"init", "insert", "inserted"} => registry[<<tid[t], key[t]>>] = Absent
       /\ tPc[t] \in {"insert", "inserted"} => ptr[t] = NewBox(t)
       /\ tPc[t] = "use" => ptr[t] = registry[<<tid[t], key[t]>>] /\ ptr[t] # Absent

(* No box has two entries, and the box of a call under way is new.         *)
TlsBoxes ==
  /\ \A i, j \in Tids \X Keys : registry[i] = registry[j] /\ registry[i] # Absent => i = j
  /\ \A i \in Tids \X Keys, t \in Callers :
       registry[i] # Absent /\ registry[i].by = t =>
         /\ registry[i].at <= MaxAccess - tLeft[t]
         /\ tPc[t] \notin {"idle", "use"} => registry[i].at < MaxAccess - tLeft[t]

TlsInv ==
  T!TypeOK /\ TlsCalls /\ TlsEntries /\ TlsBoxes /\ T!OneValuePerThread

LEMMA TlsInitInv == ASSUME T!TlsAssumption PROVE T!Init => TlsInv
BY DEF T!TlsAssumption, T!Init, TlsInv, T!TypeOK, TlsCalls, TlsEntries, TlsUsed, TlsBoxes,
       T!OneValuePerThread, T!PC

(* A call makes a box, and one that the registry does not have.            *)
LEMMA TlsNewBox ==
  ASSUME T!TlsAssumption, TlsInv, NEW t \in Callers, tPc[t] \notin {"idle", "use"}
  PROVE  /\ NewBox(t) \in T!Boxes /\ NewBox(t) # Absent
         /\ \A i \in Tids \X Keys : registry[i] # NewBox(t)
<1>1. key[t] \in Keys /\ tLeft[t] \in 0..MaxAccess /\ tLeft[t] < MaxAccess
  BY DEF TlsInv, T!TypeOK, TlsCalls
<1>2. MaxAccess - tLeft[t] \in 1..MaxAccess
  BY <1>1 DEF T!TlsAssumption
<1>3. NewBox(t) \in T!Boxes /\ NewBox(t) # Absent
  BY <1>1, <1>2 DEF NewBox, T!Boxes, T!TlsAssumption
<1>4. ASSUME NEW i \in Tids \X Keys, registry[i] = NewBox(t) PROVE FALSE
  <2>1. registry[i].by = t /\ registry[i].at = MaxAccess - tLeft[t] /\ registry[i] # Absent
    BY <1>3, <1>4 DEF NewBox
  <2>2. registry[i].at < MaxAccess - tLeft[t]
    BY <2>1 DEF TlsInv, TlsBoxes
  <2>3. QED
    BY <1>2, <2>1, <2>2
<1>5. QED
  BY <1>3, <1>4

(* The types.                                                              *)
LEMMA TlsNextType ==
  ASSUME T!TlsAssumption, TlsInv, [T!Next]_(T!vars)
  PROVE  T!TypeOK'
<1> USE DEF T!Goto, T!PC
<1>1. CASE UNCHANGED T!vars
  BY <1>1 DEF T!vars, TlsInv, T!TypeOK
<1>2. ASSUME NEW t \in Callers, T!Start(t) \/ T!Exit(t) \/ T!Lock(t) PROVE T!TypeOK'
  BY <1>2 DEF T!Start, T!Exit, T!Lock, TlsInv, T!TypeOK
<1>3. ASSUME NEW t \in Callers, NEW k \in Keys, T!With(t, k) PROVE T!TypeOK'
  BY <1>3 DEF T!With, TlsInv, T!TypeOK, T!TlsAssumption
<1>4. ASSUME NEW t \in Callers, T!Lookup(t) PROVE T!TypeOK'
  <2>1. <<tid[t], key[t]>> \in Tids \X Keys
    BY <1>4 DEF T!Lookup, TlsInv, T!TypeOK, TlsCalls
  <2>2. registry[<<tid[t], key[t]>>] \in T!Boxes \cup {Absent}
    BY <2>1 DEF TlsInv, T!TypeOK
  <2>3. QED
    BY <1>4, <2>2 DEF T!Lookup, TlsInv, T!TypeOK
<1>5. ASSUME NEW t \in Callers, T!InitValue(t) PROVE T!TypeOK'
  <2>1. NewBox(t) \in T!Boxes
    BY <1>5, TlsNewBox DEF T!InitValue
  <2>2. QED
    BY <1>5, <2>1 DEF T!InitValue, NewBox, TlsInv, T!TypeOK
<1>6. ASSUME NEW t \in Callers, T!Insert(t) PROVE T!TypeOK'
  BY <1>6, Zenon DEF T!Insert, TlsInv, T!TypeOK
<1>7. ASSUME NEW t \in Callers, T!Use(t) PROVE T!TypeOK'
  <2>1. key[t] \in Keys
    BY <1>7 DEF T!Use, TlsInv, TlsCalls
  <2>2. ptr[t] \in T!Boxes
    <3>1. ptr[t] # Absent
      BY <1>7, Zenon DEF T!Use, TlsInv, TlsEntries
    <3>2. QED
      BY <3>1 DEF TlsInv, T!TypeOK
  <2>3. QED
    BY <1>7, <2>1, <2>2 DEF T!Use, TlsInv, T!TypeOK
<1>8. QED
  BY <1>1, <1>2, <1>3, <1>4, <1>5, <1>6, <1>7 DEF T!Next

(* Every step keeps the invariant.                                         *)
LEMMA TlsNextInv ==
  ASSUME T!TlsAssumption, TlsInv, [T!Next]_(T!vars)
  PROVE  TlsInv'
<1>1. T!TypeOK'
  BY TlsNextType
<1>2. T!TypeOK /\ TlsCalls /\ TlsEntries /\ TlsBoxes /\ T!OneValuePerThread
  BY DEF TlsInv
<1> SUFFICES (TlsCalls /\ TlsEntries /\ TlsBoxes /\ T!OneValuePerThread)'
  BY <1>1 DEF TlsInv
<1> USE DEF T!Goto
<1>3. CASE UNCHANGED T!vars
  BY <1>2, <1>3 DEF T!vars, TlsCalls, TlsEntries, TlsUsed, NewBox, TlsBoxes, T!OneValuePerThread
<1>4. ASSUME NEW t \in Callers, T!Start(t) \/ T!Exit(t)
      PROVE  (TlsCalls /\ TlsEntries /\ TlsBoxes /\ T!OneValuePerThread)'
  <2>1. UNCHANGED <<registry, tPc, key, ptr, used, tLeft>> /\ tPc[t] = "idle"
    BY <1>2, <1>4 DEF T!Start, T!Exit, TlsCalls
  <2>2. TlsBoxes' /\ T!OneValuePerThread'
    BY <1>2, <2>1 DEF TlsBoxes, T!OneValuePerThread
  <2>3. TlsCalls'
    BY <1>2, <1>4, <2>1, SMTT(30) DEF T!Start, T!Exit, T!TypeOK, TlsCalls
  <2>4. TlsEntries'
    BY <1>2, <1>4, <2>1 DEF T!Start, T!Exit, T!TypeOK, TlsCalls, TlsEntries, TlsUsed, NewBox
  <2>5. QED
    BY <2>2, <2>3, <2>4
<1>5. ASSUME NEW t \in Callers, NEW k \in Keys, T!With(t, k)
      PROVE  (TlsCalls /\ TlsEntries /\ TlsBoxes /\ T!OneValuePerThread)'
  <2>1. tLeft[t] \in Nat /\ tLeft[t] > 0 /\ tLeft[t] <= MaxAccess /\ tLeft'[t] = tLeft[t] - 1
    BY <1>2, <1>5 DEF T!With, T!TypeOK, T!TlsAssumption
  <2>2. TlsCalls' /\ T!OneValuePerThread'
    BY <1>2, <1>5, <2>1 DEF T!With, T!TypeOK, TlsCalls, T!OneValuePerThread, T!TlsAssumption
  <2>3. TlsEntries'
    BY <1>2, <1>5 DEF T!With, T!TypeOK, TlsEntries, TlsUsed, NewBox
  <2>4. TlsBoxes'
    BY <1>2, <1>5, <2>1 DEF T!With, T!TypeOK, TlsBoxes, T!Boxes, T!TlsAssumption
  <2>5. QED
    BY <2>2, <2>3, <2>4
<1>6. ASSUME NEW t \in Callers, T!Lock(t) \/ T!Lookup(t) \/ T!InitValue(t)
      PROVE  (TlsCalls /\ TlsEntries /\ TlsBoxes /\ T!OneValuePerThread)'
  <2>1. /\ UNCHANGED <<tid, born, registry, key, used, tLeft>>
        /\ tPc[t] \notin {"idle", "use"} /\ tPc'[t] # "idle"
        /\ \A u \in Callers \ {t} : tPc'[u] = tPc[u] /\ ptr'[u] = ptr[u]
    BY <1>2, <1>6 DEF T!Lock, T!Lookup, T!InitValue, T!TypeOK
  <2>2. TlsCalls' /\ T!OneValuePerThread'
    BY <1>2, <2>1 DEF TlsCalls, T!OneValuePerThread
  <2>3. TlsBoxes'
    BY <1>2, <2>1 DEF TlsBoxes
  <2>4. TlsEntries'
    <3>1. CASE T!Lock(t)
      BY <1>2, <2>1, <3>1, SMTT(30) DEF T!Lock, T!TypeOK, TlsEntries, TlsUsed, NewBox
    <3>2. CASE T!Lookup(t)
      <4>1. TlsUsed'
        BY <1>2, <2>1, Zenon DEF TlsEntries, TlsUsed
      <4>2. /\ ptr'[t] = registry[<<tid[t], key[t]>>]
            /\ tPc'[t] = IF ptr'[t] = Absent THEN "init" ELSE "use"
        BY <1>2, <3>2 DEF T!Lookup, T!TypeOK
      <4>3. QED
        <5>1. ASSUME NEW u \in Callers, u # t
              PROVE  /\ tPc'[u] = tPc[u] /\ ptr'[u] = ptr[u] /\ tid'[u] = tid[u]
                     /\ key'[u] = key[u] /\ NewBox(u)' = NewBox(u) /\ registry' = registry
          BY <2>1, <5>1 DEF NewBox
        <5>2. QED
          BY <1>2, <2>1, <4>1, <4>2, <5>1 DEF TlsEntries
    <3>3. CASE T!InitValue(t)
      BY <1>2, <2>1, <3>3 DEF T!InitValue, T!TypeOK, TlsEntries, TlsUsed, NewBox
    <3>4. QED
      BY <1>6, <3>1, <3>2, <3>3
  <2>5. QED
    BY <2>2, <2>3, <2>4
<1>7. ASSUME NEW t \in Callers, T!Insert(t)
      PROVE  (TlsCalls /\ TlsEntries /\ TlsBoxes /\ T!OneValuePerThread)'
  <2> DEFINE i == <<tid[t], key[t]>>
  <2>1. i \in Tids \X Keys /\ registry[i] = Absent /\ ptr[t] = NewBox(t)
    BY <1>2, <1>7 DEF T!Insert, T!TypeOK, TlsCalls, TlsEntries
  <2>2. /\ registry' = [registry EXCEPT ![i] = NewBox(t)]
        /\ tPc' = [tPc EXCEPT ![t] = "use"]
        /\ UNCHANGED <<tid, born, key, ptr, used, tLeft>>
    BY <1>7, <2>1 DEF T!Insert
  <2>3. /\ NewBox(t) \in T!Boxes /\ NewBox(t) # Absent
        /\ \A j \in Tids \X Keys : registry[j] # NewBox(t)
    BY <1>7, TlsNewBox DEF T!Insert
  <2>4. TlsCalls' /\ T!OneValuePerThread'
    BY <1>2, <1>7, <2>2, SMTT(30) DEF T!Insert, T!TypeOK, TlsCalls, T!OneValuePerThread
  <2>5. TlsEntries'
    BY <1>2, <1>7, <2>1, <2>2, <2>3 DEF T!Insert, T!TypeOK, TlsCalls, TlsEntries, TlsUsed, NewBox
  <2>6. TlsBoxes'
    BY <1>2, <2>1, <2>2, <2>3 DEF T!TypeOK, TlsBoxes, NewBox, T!Boxes, T!TlsAssumption
  <2>7. QED
    BY <2>4, <2>5, <2>6
<1>8. ASSUME NEW t \in Callers, T!Use(t)
      PROVE  (TlsCalls /\ TlsEntries /\ TlsBoxes /\ T!OneValuePerThread)'
  <2>1. /\ key[t] \in Keys /\ tid[t] \in Tids
        /\ ptr[t] = registry[<<tid[t], key[t]>>] /\ ptr[t] # Absent
        /\ \A b \in used[<<t, key[t]>>] : b = ptr[t]
    <3>1. key[t] \in Keys /\ tid[t] # Absent
      BY <1>2, <1>8 DEF T!Use, TlsCalls
    <3>2. ptr[t] = registry[<<tid[t], key[t]>>] /\ ptr[t] # Absent
      BY <1>2, <1>8 DEF T!Use, TlsEntries
    <3>3. \A b \in used[<<t, key[t]>>] : b = ptr[t]
      BY <1>2, <3>1, <3>2 DEF TlsEntries, TlsUsed
    <3>4. QED
      BY <1>2, <3>1, <3>2, <3>3 DEF T!TypeOK
  <2>2. /\ used' = [used EXCEPT ![<<t, key[t]>>] = {ptr[t]}]
        /\ UNCHANGED <<tid, born, registry, tLeft>>
    <3>1. used[<<t, key[t]>>] \cup {ptr[t]} = {ptr[t]}
      BY <2>1
    <3>2. QED
      BY <1>8, <3>1, Zenon DEF T!Use
  <2>3. TlsCalls' /\ TlsBoxes'
    BY <1>2, <1>8, <2>1, <2>2 DEF T!Use, T!TypeOK, TlsCalls, TlsBoxes
  <2>4. T!OneValuePerThread'
    <3> SUFFICES ASSUME NEW u \in Callers, NEW k \in Keys, NEW b \in used'[<<u, k>>]
                 PROVE  used'[<<u, k>>] = {b}
      BY Zenon DEF T!OneValuePerThread
    <3>1. CASE u = t /\ k = key[t]
      BY <1>2, <2>1, <2>2, <3>1 DEF T!TypeOK
    <3>2. CASE ~(u = t /\ k = key[t])
      <4>1. used'[<<u, k>>] = used[<<u, k>>] /\ used[<<u, k>>] \in SUBSET T!Boxes
        BY <1>2, <2>1, <2>2, <3>2, SMTT(30) DEF T!TypeOK
      <4>2. QED
        BY <1>2, <4>1 DEF T!OneValuePerThread
    <3>3. QED
      BY <3>1, <3>2
  <2>5. TlsEntries'
    BY <1>2, <1>8, <2>1, <2>2 DEF T!Use, T!TypeOK, TlsCalls, TlsEntries, TlsUsed, NewBox
  <2>6. QED
    BY <2>3, <2>4, <2>5
<1>9. QED
  BY <1>3, <1>4, <1>5, <1>6, <1>7, <1>8 DEF T!Next

(* A thread keeps the value of a key that it initialised or inherited with *)
(* its id, and no two live threads, nor two keys, ever hand the same box   *)
(* to their closures.                                                      *)
THEOREM ThreadLocalHolds ==
  ASSUME T!TlsAssumption
  PROVE  T!Spec => []ThreadLocal
<1>1. TlsInv => ThreadLocal
  <2> SUFFICES ASSUME TlsInv,
                      NEW t \in Callers, NEW u \in Callers, NEW k \in Keys, NEW l \in Keys,
                      tid[t] # Absent, tid[u] # Absent, <<t, k>> # <<u, l>>,
                      NEW b \in used[<<t, k>>] \cap used[<<u, l>>]
               PROVE  FALSE
    BY DEF ThreadLocal, T!ThreadLocal, T!NotShared, TlsInv
  <2>1. b = registry[<<tid[t], k>>] /\ b = registry[<<tid[u], l>>] /\ b # Absent
    BY DEF TlsInv, TlsEntries, TlsUsed
  <2>2. <<tid[t], k>> \in Tids \X Keys /\ <<tid[u], l>> \in Tids \X Keys
    BY DEF TlsInv, T!TypeOK
  <2>3. <<tid[t], k>> = <<tid[u], l>>
    BY <2>1, <2>2, Zenon DEF TlsInv, TlsBoxes
  <2>4. QED
    BY <2>3, SMTT(30) DEF TlsInv, TlsCalls
<1>2. QED
  BY <1>1, TlsInitInv, TlsNextInv, PTL DEF T!Spec

-----------------------------------------------------------------------------
(* Tokens and wakeups of park and unpark, for any number of threads that   *)
(* call unpark.                                                            *)

CONSTANTS Owner, Others, MaxParks, MaxUnparks   \* see Parker

VARIABLES token, sleeper, pPc, parks, unparks, unseen

P == INSTANCE Parker WITH state <- token, asleep <- sleeper, pc <- pPc

ASSUME ParkingAssumption == P!ParkerAssumption

(* Parker: there is a token exactly when unpark was called since the last  *)
(* return of park or park_timeout.                                         *)
TokenIsUnseenUnpark == P!TokenIsUnseenUnpark

ParkerInv == P!TypeOK /\ P!TokenIsUnseenUnpark /\ P!NoLostWakeup /\ P!SleepsInWait

LEMMA ParkerInitInv == ASSUME P!ParkerAssumption PROVE P!Init => ParkerInv
<1> SUFFICES ASSUME P!Init PROVE ParkerInv
  OBVIOUS
<1>1. token = 0 /\ ~unseen /\ sleeper = {}
  BY Zenon DEF P!Init
<1>2. P!TypeOK
  <2>1. pPc = [t \in Others \cup {Owner} |-> "idle"]
    BY DEF P!Init
  <2>2. parks \in 0..MaxParks /\ unparks \in [Others -> 0..MaxUnparks]
    BY DEF P!Init, P!ParkerAssumption
  <2>3. unseen \in BOOLEAN
    BY Zenon DEF P!Init
  <2>4. QED
    BY <1>1, <2>1, <2>2, <2>3 DEF P!TypeOK
<1>3. QED
  BY <1>1, <1>2 DEF ParkerInv, P!TokenIsUnseenUnpark, P!NoLostWakeup, P!SleepsInWait

(* Every step keeps the invariant.                                         *)
LEMMA ParkerNextInv ==
  ASSUME P!ParkerAssumption, ParkerInv, [P!Next]_(P!vars)
  PROVE  ParkerInv'
<1> USE DEF ParkerInv, P!Goto, P!TakeToken
<1>1. CASE UNCHANGED P!vars
  BY <1>1 DEF P!vars, P!TypeOK, P!TokenIsUnseenUnpark, P!NoLostWakeup, P!SleepsInWait
<1>2. CASE P!Park
  <2>1. parks' \in 0..MaxParks
    BY <1>2 DEF P!Park, P!TypeOK, P!ParkerAssumption
  <2>2. unseen' \in BOOLEAN
    BY <1>2, Zenon DEF P!Park, P!TypeOK
  <2>3. P!TypeOK'
    BY <1>2, <2>1, <2>2 DEF P!Park, P!TypeOK, P!ParkerAssumption
  <2>4. QED
    BY <1>2, <2>3 DEF P!Park, P!TypeOK, P!TokenIsUnseenUnpark, P!NoLostWakeup, P!SleepsInWait
<1>3. CASE P!Sleep
  BY <1>3 DEF P!Sleep, P!FutexSleeps, P!TypeOK, P!TokenIsUnseenUnpark, P!NoLostWakeup, P!SleepsInWait
<1>4. CASE P!WaitReturns
  <2>1. P!TypeOK'
    BY <1>4 DEF P!WaitReturns, P!TypeOK, P!ParkerAssumption
  <2>2. QED
    BY <1>4, <2>1 DEF P!WaitReturns, P!FutexReturns, P!TypeOK, P!TokenIsUnseenUnpark, P!NoLostWakeup,
       P!SleepsInWait
<1>5. CASE P!SwapToken \/ P!SwapTimed
  <2>1. P!TypeOK'
    BY <1>5, Zenon DEF P!SwapToken, P!SwapTimed, P!TypeOK, P!ParkerAssumption
  <2>2. QED
    BY <1>5, <2>1 DEF P!SwapToken, P!SwapTimed, P!TypeOK, P!TokenIsUnseenUnpark, P!NoLostWakeup, P!SleepsInWait
<1>6. CASE P!Timeout \/ P!Spurious
  <2>1. P!TypeOK'
    BY <1>6 DEF P!Timeout, P!Spurious, P!TypeOK, P!ParkerAssumption
  <2>2. QED
    BY <1>6, <2>1 DEF P!Timeout, P!Spurious, P!TokenIsUnseenUnpark, P!NoLostWakeup, P!SleepsInWait
<1>7. ASSUME NEW t \in Others, P!Unpark(t) PROVE ParkerInv'
  <2>1. P!TypeOK'
    BY <1>7 DEF P!Unpark, P!TypeOK, P!ParkerAssumption
  <2>2. P!TokenIsUnseenUnpark' /\ P!SleepsInWait'
    BY <1>7 DEF P!Unpark, P!TypeOK, P!TokenIsUnseenUnpark, P!SleepsInWait, P!ParkerAssumption
  <2>3. P!NoLostWakeup'
    BY <1>7 DEF P!Unpark, P!TypeOK, P!NoLostWakeup, P!ParkerAssumption
  <2>4. QED  BY <2>1, <2>2, <2>3
<1>8. ASSUME NEW t \in Others, P!UnparkWake(t) PROVE ParkerInv'
  <2>1. sleeper' = {}
    BY <1>8 DEF P!UnparkWake, P!FutexWake, P!TypeOK
  <2>2. P!TypeOK'
    BY <1>8, <2>1 DEF P!UnparkWake, P!TypeOK, P!ParkerAssumption
  <2>3. QED
    BY <1>8, <2>1, <2>2 DEF P!UnparkWake, P!TokenIsUnseenUnpark, P!NoLostWakeup, P!SleepsInWait
<1>9. QED
  BY <1>1, <1>2, <1>3, <1>4, <1>5, <1>6, <1>7, <1>8 DEF P!Next, P!OwnerProceeds

LEMMA ParkerInvariance == ASSUME P!ParkerAssumption PROVE P!Spec => []ParkerInv
BY ParkerInitInv, ParkerNextInv, PTL DEF P!Spec

(* There is a token exactly when there was an unpark that no park or       *)
(* park_timeout has returned for.                                          *)
THEOREM TokenHolds ==
  ASSUME P!ParkerAssumption
  PROVE  P!Spec => []TokenIsUnseenUnpark
BY ParkerInvariance, PTL DEF ParkerInv, TokenIsUnseenUnpark

(* No unpark finds the thread asleep and leaves it so.                     *)
THEOREM NoLostWakeupHolds ==
  ASSUME P!ParkerAssumption
  PROVE  P!Spec => []P!NoLostWakeup
BY ParkerInvariance, PTL DEF ParkerInv

-----------------------------------------------------------------------------
(* CREATE_LOCK gives every creator of threads its own reply, for any       *)
(* number of creators and calls.                                           *)

CONSTANT MaxSpawns                          \* see MachSpawn

VARIABLES create_lock, port, asked, mPc, reply, kr, mLeft, cut

M == INSTANCE MachSpawn WITH Threads <- Callers, None <- Absent, MaxCalls <- MaxSpawns,
                             pc <- mPc, left <- mLeft

ASSUME CreatingAssumption == M!MachSpawnAssumption

(* MachSpawn: a creator gets the kernel's reply to its own request.        *)
OwnReply == M!OwnReply

MachInv == M!TypeOK /\ M!OneCreator /\ (~cut => M!OneRequest)

LEMMA MachInitInv == ASSUME M!MachSpawnAssumption PROVE M!Init => MachInv
<1> SUFFICES ASSUME M!Init PROVE MachInv
  OBVIOUS
<1>1. cut \in BOOLEAN
  BY Zenon DEF M!Init
<1>2. M!TypeOK
  BY <1>1 DEF M!Init, M!TypeOK, M!MachSpawnAssumption
<1>3. M!OneCreator /\ M!OneRequest
  BY DEF M!Init, M!OneCreator, M!Inside, M!OneRequest
<1>4. QED
  BY <1>2, <1>3 DEF MachInv

(* The types.                                                              *)
LEMMA MachNextType ==
  ASSUME M!MachSpawnAssumption, M!TypeOK, [M!Next]_(M!vars)
  PROVE  M!TypeOK'
<1> USE DEF M!TypeOK
<1>1. CASE UNCHANGED M!vars
  BY <1>1 DEF M!vars
<1>2. ASSUME NEW t \in Callers, M!SpawnOs(t) PROVE M!TypeOK'
  BY <1>2 DEF M!SpawnOs
<1>3. ASSUME NEW t \in Callers, M!Lock(t) \/ M!Unlock(t) PROVE M!TypeOK'
  BY <1>3 DEF M!Lock, M!Unlock
<1>4. ASSUME NEW t \in Callers, M!SendFails(t) \/ M!ReceiveFails(t) PROVE M!TypeOK'
  BY <1>4 DEF M!SendFails, M!ReceiveFails
<1>5. ASSUME NEW t \in Callers, M!Send(t) PROVE M!TypeOK'
  BY <1>5 DEF M!Send, M!Request
<1>6. ASSUME NEW r \in asked, M!Answer(r) PROVE M!TypeOK'
  BY <1>6 DEF M!Answer
<1>7. ASSUME NEW t \in Callers, M!Receive(t) PROVE M!TypeOK'
  BY <1>7 DEF M!Receive
<1>8. QED
  BY <1>1, <1>2, <1>3, <1>4, <1>5, <1>6, <1>7 DEF M!Next

(* Only the creator between lock and unlock is under way, ...              *)
LEMMA MachNextOne ==
  ASSUME M!MachSpawnAssumption, MachInv, [M!Next]_(M!vars)
  PROVE  M!OneCreator'
<1> USE DEF MachInv, M!TypeOK, M!OneCreator, M!Inside
<1>1. CASE UNCHANGED M!vars
  BY <1>1 DEF M!vars
<1>2. ASSUME NEW t \in Callers, M!SpawnOs(t) PROVE M!OneCreator'
  BY <1>2 DEF M!SpawnOs
<1>3. ASSUME NEW t \in Callers, M!Lock(t) PROVE M!OneCreator'
  BY <1>3 DEF M!Lock
<1>4. ASSUME NEW t \in Callers, M!Unlock(t) PROVE M!OneCreator'
  BY <1>4 DEF M!Unlock
<1>5. ASSUME NEW t \in Callers, M!SendFails(t) \/ M!Send(t) PROVE M!OneCreator'
  BY <1>5 DEF M!SendFails, M!Send
<1>6. ASSUME NEW t \in Callers, M!Receive(t) \/ M!ReceiveFails(t) PROVE M!OneCreator'
  BY <1>6 DEF M!Receive, M!ReceiveFails
<1>7. ASSUME NEW r \in asked, M!Answer(r) PROVE M!OneCreator'
  BY <1>7 DEF M!Answer
<1>8. QED
  BY <1>1, <1>2, <1>3, <1>4, <1>5, <1>6, <1>7 DEF M!Next

(* ... and, unless a receive has failed, so is its request or its reply.   *)
LEMMA MachNextRequest ==
  ASSUME M!MachSpawnAssumption, MachInv, [M!Next]_(M!vars), ~cut'
  PROVE  M!OneRequest'
<1>1. ~cut
  BY DEF M!Next, M!vars, M!SpawnOs, M!Lock, M!SendFails, M!Send, M!Receive, M!ReceiveFails,
         M!Unlock, M!Answer
<1>2. M!TypeOK /\ M!OneCreator /\ M!OneRequest
  BY <1>1 DEF MachInv
<1> USE <1>2 DEF M!TypeOK, M!OneRequest, M!Request
<1>3. CASE UNCHANGED M!vars
  BY <1>3 DEF M!vars
<1>4. ASSUME NEW t \in Callers, M!SpawnOs(t) PROVE M!OneRequest'
  BY <1>4 DEF M!SpawnOs, M!MachSpawnAssumption
<1>5. ASSUME NEW t \in Callers, M!Lock(t) \/ M!Unlock(t) \/ M!SendFails(t) PROVE M!OneRequest'
  BY <1>5 DEF M!Lock, M!Unlock, M!SendFails
<1>6. ASSUME NEW t \in Callers, M!Send(t) PROVE M!OneRequest'
  <2>1. port = <<>> /\ asked = {}
    BY <1>6 DEF M!Send, M!OneCreator, M!Inside
  <2>2. QED
    BY <1>6, <2>1 DEF M!Send
<1>7. ASSUME NEW r \in asked, M!Answer(r) PROVE M!OneRequest'
  <2>1. port = <<>> /\ asked \ {r} = {}
    <3>1. PICK t \in Callers : r = M!Request(t) /\ mPc[t] = "receive"
      OBVIOUS
    <3>2. ASSUME NEW q \in asked PROVE q = r
      <4>1. PICK u \in Callers : q = M!Request(u) /\ mPc[u] = "receive"
        OBVIOUS
      <4>2. t = u
        BY <3>1, <4>1 DEF M!OneCreator, M!Inside
      <4>3. QED
        BY <3>1, <4>1, <4>2
    <3>3. QED
      BY <3>2
  <2>2. port' = <<r>> /\ asked' = {} /\ UNCHANGED <<mPc, reply, kr, mLeft>>
    BY <1>7, <2>1 DEF M!Answer
  <2>3. QED
    BY <2>2
<1>8. ASSUME NEW t \in Callers, M!Receive(t) PROVE M!OneRequest'
  <2>1. port = <<M!Request(t)>> /\ asked = {}
    BY <1>8 DEF M!Receive, M!OneCreator, M!Inside
  <2>2. Head(port) = M!Request(t) /\ Tail(port) = <<>>
    BY <2>1
  <2>3. QED
    BY <1>8, <2>1, <2>2 DEF M!Receive
<1>9. ASSUME NEW t \in Callers, M!ReceiveFails(t) PROVE FALSE
  BY <1>9 DEF M!ReceiveFails
<1>10. QED
  BY <1>3, <1>4, <1>5, <1>6, <1>7, <1>8, <1>9 DEF M!Next

LEMMA MachNextInv ==
  ASSUME M!MachSpawnAssumption, MachInv, [M!Next]_(M!vars)
  PROVE  MachInv'
BY MachNextType, MachNextOne, MachNextRequest DEF MachInv

(* As long as no receive fails, spawn_os on macOS takes neither another    *)
(* creator's reply nor that of an earlier call for its own, and leaves     *)
(* none at the port.                                                       *)
THEOREM OwnReplyHolds ==
  ASSUME M!MachSpawnAssumption
  PROVE  M!Spec => []OwnReply
<1>1. MachInv => OwnReply
  BY DEF MachInv, M!TypeOK, M!OneCreator, M!Inside, M!OneRequest, OwnReply, M!OwnReply
<1>2. QED
  BY <1>1, MachInitInv, MachNextInv, PTL DEF M!Spec
-----------------------------------------------------------------------------
(* thread::scope keeps what its threads borrow, for any number of threads. *)

CONSTANT Scoped                                     \* see Scope

VARIABLES running, wake, frame, waiting, scope, thread, slot, finished, joining

C == INSTANCE Scope WITH Children <- Scoped, asleep <- waiting, parent <- scope,
                         child <- thread

ASSUME ScopingAssumption == C!ScopeAssumption

(* Scope: no scoped closure runs after scope() has returned, and join      *)
(* frees a slot only when its thread is done with it.                      *)
ScopeSafe == C!ScopeSafe

(* Scope's finite sets and cardinalities are the library's.                *)
LEMMA ScopeFinite ==
  ASSUME NEW S
  PROVE  (C!IsFiniteSet(S) <=> IsFiniteSet(S)) /\ C!Cardinality(S) = Cardinality(S)
BY DEF C!IsFiniteSet, IsFiniteSet, C!Cardinality, Cardinality

(* The scoped threads that `running` counts: those whose closure is not    *)
(* over, and those that were never made.                                   *)
Active == {c \in Scoped : thread[c] \in {"run", "sub", "never"}}

(* The inductive strengthening of ScopeSafe: `running` counts the active   *)
(* threads, and only a dead thread has published its packet.               *)
Counted == running = Cardinality(Active)
PublishedDead == \A c \in finished : thread[c] = "dead"
ScopeInv == C!TypeOK /\ Counted /\ PublishedDead /\ C!ScopeSafe

LEMMA ActiveFinite ==
  ASSUME C!ScopeAssumption
  PROVE  /\ IsFiniteSet(Active)
         /\ Cardinality(Active) \in Nat
         /\ Cardinality(Active) <= Cardinality(Scoped)
         /\ Cardinality(Scoped) \in Nat
<1>1. Active \in SUBSET Scoped
  BY DEF Active
<1>2. QED
  BY <1>1, FS_Subset, FS_CardinalityType, ScopeFinite DEF C!ScopeAssumption

LEMMA ScopeInitInv == ASSUME C!ScopeAssumption PROVE C!Init => ScopeInv
<1> SUFFICES ASSUME C!Init PROVE ScopeInv
  OBVIOUS
<1>1. Active = {}
  BY DEF C!Init, Active
<1>2. Counted
  BY <1>1, FS_EmptySet DEF C!Init, Counted
<1>3. C!TypeOK
  BY ActiveFinite, ScopeFinite DEF C!Init, C!TypeOK, C!ParentPC, C!ChildPC, C!Slot
<1>4. QED
  BY <1>2, <1>3 DEF C!Init, ScopeInv, PublishedDead, C!ScopeSafe, C!ClosuresOver, C!SlotUnaliased

(* A spawn adds one active thread, fetch_sub takes one away, and no other  *)
(* step touches either side.                                               *)
LEMMA ScopeNextCounted ==
  ASSUME C!ScopeAssumption, ScopeInv, [C!Next]_(C!vars)
  PROVE  Counted'
<1> USE ActiveFinite DEF ScopeInv, Counted, C!TypeOK, C!Goto
<1>1. ASSUME NEW c \in Scoped, C!Spawn(c) PROVE Counted'
  <2>1. Active' = Active \cup {c} /\ c \notin Active
    BY <1>1 DEF C!Spawn, Active
  <2>2. Cardinality(Active \cup {c}) = Cardinality(Active) + 1
    BY <2>1, FS_AddElement, ZenonT(60)
  <2>3. QED
    BY <1>1, <2>1, <2>2, SMTT(30) DEF C!Spawn
<1>2. ASSUME NEW c \in Scoped, C!FetchSub(c) PROVE Counted'
  <2>1. Active' = Active \ {c} /\ c \in Active
    BY <1>2 DEF C!FetchSub, Active
  <2>2. Cardinality(Active \ {c}) = Cardinality(Active) - 1
    BY <2>1, FS_RemoveElement, Zenon
  <2>3. QED
    BY <1>2, <2>1, <2>2 DEF C!FetchSub
<1>3. ASSUME NEW c \in Scoped,
             C!WriteSlot(c) \/ C!StoreWake(c) \/ C!NotifyScope(c) \/ C!Finish(c)
      PROVE  Counted'
  <2>1. Active' = Active /\ running' = running
    BY <1>3 DEF C!WriteSlot, C!StoreWake, C!NotifyScope, C!Finish, Active
  <2>2. QED
    BY <2>1, SMTT(30)
<1>4. ASSUME UNCHANGED <<running, thread>> PROVE Counted'
  BY <1>4, SMTT(30) DEF Active
<1>5. CASE C!Parent \/ C!Spurious \/ UNCHANGED C!vars
  BY <1>4, <1>5 DEF C!Parent, C!Spurious, C!vars, C!BodyEnds, C!Check, C!ScopeSleeps,
                    C!ScopeWaitReturns, C!Reset, C!JoinReturns
<1>6. ASSUME NEW c \in Scoped, C!Join(c) PROVE Counted'
  BY <1>4, <1>6, SMTT(30) DEF C!Join
<1>7. QED
  BY <1>1, <1>2, <1>3, <1>5, <1>6, SMTT(30) DEF C!Next, C!Child

(* The types; the bound on `running` comes from Counted.                   *)
LEMMA ScopeNextType ==
  ASSUME C!ScopeAssumption, ScopeInv, [C!Next]_(C!vars)
  PROVE  C!TypeOK'
<1>1. running' \in 0 .. Cardinality(Scoped)
  <2>1. /\ Cardinality(Active)' \in Nat
        /\ Cardinality(Active)' <= Cardinality(Scoped)
    <3>1. Active' \in SUBSET Scoped
      BY DEF Active
    <3>2. QED
      BY <3>1, FS_Subset, FS_CardinalityType, ScopeFinite DEF C!ScopeAssumption
  <2>2. QED
    BY <2>1, ScopeNextCounted, ActiveFinite, ScopeFinite DEF Counted
<1> USE <1>1, ScopeFinite DEF ScopeInv, C!TypeOK, C!ParentPC, C!ChildPC, C!Slot, C!Goto
<1>2. ASSUME NEW c \in Scoped, C!Spawn(c) \/ C!WriteSlot(c) \/ C!Finish(c) PROVE C!TypeOK'
  BY <1>2, Zenon DEF C!Spawn, C!WriteSlot, C!Finish
<1>3. ASSUME NEW c \in Scoped, C!FetchSub(c) \/ C!StoreWake(c) PROVE C!TypeOK'
  BY <1>3, Zenon DEF C!FetchSub, C!StoreWake
<1>4. ASSUME NEW c \in Scoped, C!NotifyScope(c) PROVE C!TypeOK'
  <2>1. waiting' \subseteq {"scope"}
    BY <1>4 DEF C!NotifyScope, C!FutexWake
  <2>2. QED
    BY <1>4, <2>1, SMTT(30) DEF C!NotifyScope
<1>5. ASSUME NEW c \in Scoped, C!Join(c) \/ C!JoinReturns(c) PROVE C!TypeOK'
  BY <1>5, Zenon DEF C!Join, C!JoinReturns
<1>6. CASE C!BodyEnds \/ C!Check \/ C!ScopeSleeps \/ C!ScopeWaitReturns \/ C!Reset \/ C!Spurious
  BY <1>6, ZenonT(60) DEF C!BodyEnds, C!Check, C!ScopeSleeps, C!ScopeWaitReturns, C!Reset, C!Spurious
<1>7. CASE UNCHANGED C!vars
  BY <1>7, SMTT(30) DEF C!vars
<1>8. QED
  BY <1>2, <1>3, <1>4, <1>5, <1>6, <1>7, SMTT(30) DEF C!Next, C!Child, C!Parent

(* scope() returns only when nobody is active, and afterwards nobody can   *)
(* spawn; a slot is freed for a published packet only.                     *)
LEMMA ScopeNextSafe ==
  ASSUME C!ScopeAssumption, ScopeInv, [C!Next]_(C!vars)
  PROVE  (PublishedDead /\ C!ScopeSafe)'
<1> USE ScopeNextType DEF ScopeInv, C!TypeOK, C!Goto, PublishedDead, C!ScopeSafe,
                          C!ClosuresOver, C!SlotUnaliased
<1>1. ASSUME NEW c \in Scoped, C!Spawn(c) PROVE (PublishedDead /\ C!ScopeSafe)'
  BY <1>1 DEF C!Spawn
<1>2. ASSUME NEW c \in Scoped, C!WriteSlot(c) PROVE (PublishedDead /\ C!ScopeSafe)'
  BY <1>2 DEF C!WriteSlot
<1>3. ASSUME NEW c \in Scoped, C!FetchSub(c) PROVE (PublishedDead /\ C!ScopeSafe)'
  BY <1>3 DEF C!FetchSub
<1>4. ASSUME NEW c \in Scoped, C!StoreWake(c) \/ C!NotifyScope(c)
      PROVE  (PublishedDead /\ C!ScopeSafe)'
  BY <1>4 DEF C!StoreWake, C!NotifyScope
<1>5. ASSUME NEW c \in Scoped, C!Finish(c) PROVE (PublishedDead /\ C!ScopeSafe)'
  BY <1>5, SMTT(30) DEF C!Finish
<1>6. ASSUME NEW c \in Scoped, C!Join(c) \/ C!JoinReturns(c)
      PROVE  (PublishedDead /\ C!ScopeSafe)'
  BY <1>6, SMTT(30) DEF C!Join, C!JoinReturns
<1>7. CASE C!Check
  <2>1. running = 0 => Active = {}
    BY ActiveFinite, FS_EmptySet, ZenonT(60) DEF Counted
  <2>2. scope' = "returned" => \A c \in Scoped : thread[c] \notin {"run", "sub"}
    BY <1>7, <2>1, SMTT(30) DEF C!Check, Active
  <2>3. QED
    BY <1>7, <2>2 DEF C!Check
<1>8. CASE C!BodyEnds \/ C!ScopeSleeps \/ C!ScopeWaitReturns \/ C!Reset \/ C!Spurious
  BY <1>8 DEF C!BodyEnds, C!ScopeSleeps, C!ScopeWaitReturns, C!Reset, C!Spurious
<1>9. CASE UNCHANGED C!vars
  BY <1>9 DEF C!vars
<1>10. QED
  BY <1>1, <1>2, <1>3, <1>4, <1>5, <1>6, <1>7, <1>8, <1>9, Zenon DEF C!Next, C!Child, C!Parent

LEMMA ScopeInvariance == ASSUME C!ScopeAssumption PROVE C!Spec => []ScopeInv
<1>1. ScopeInv /\ [C!Next]_(C!vars) => ScopeInv'
  BY ScopeNextType, ScopeNextCounted, ScopeNextSafe DEF ScopeInv
<1>2. QED
  BY ScopeInitInv, <1>1, PTL DEF C!Spec

(* For any number of scoped threads, spawned by the closure or by each     *)
(* other: when thread::scope has returned no closure is still running, and *)
(* ScopedJoinHandle::join frees a slot only after its thread is done.      *)
THEOREM ScopeSafeHolds == ASSUME C!ScopeAssumption PROVE C!Spec => []ScopeSafe
<1>1. ScopeInv => ScopeSafe
  BY DEF ScopeInv, ScopeSafe
<1>2. QED
  BY ScopeInvariance, <1>1, PTL
=============================================================================
