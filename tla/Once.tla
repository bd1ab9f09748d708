-------------------------------- MODULE Once --------------------------------
(***************************************************************************)
(* sync::Once and the two cells built on it, OnceLock (get, set,           *)
(* get_or_init) and LazyLock (force).  All their callers go through        *)
(* Once::call_once, which spins while another caller runs the closure.     *)
(* The value a caller stores is the caller itself.                         *)
(***************************************************************************)
EXTENDS Naturals

CONSTANTS Threads,   \* the threads that use the cell
          None,      \* the value of an empty cell
          Ops        \* the operations called: those of OnceLock, or force

OnceAssumption ==
  /\ None \notin Threads
  /\ \/ Ops \subseteq {"get", "set", "get_or_init"}
     \/ Ops = {"force"}

VARIABLES state,     \* Once::state
          value,     \* the cell's value, None before it is written
          init,      \* LazyLock::init: is the closure still there
          op,        \* the operation each thread is in
          pc,        \* where each thread is
          out        \* what each thread's call returned

vars == <<state, value, init, op, pc, out>>

INCOMPLETE == 0
RUNNING == 1
COMPLETE == 2

(* load, cas, run, publish, spin: in call_once;  read: about to read the   *)
(* value;  done: returned;  panic: an unwrap found None.                   *)
PC == {"idle", "load", "cas", "run", "publish", "spin", "read", "done", "panic"}

TypeOK ==
  /\ state \in {INCOMPLETE, RUNNING, COMPLETE}
  /\ value \in Threads \cup {None}
  /\ init \in BOOLEAN
  /\ op \in [Threads -> {"none", "get", "set", "get_or_init", "force"}]
  /\ pc \in [Threads -> PC]
  /\ out \in [Threads -> Threads \cup {None, "Ok", "Err"}]

Init ==
  /\ state = INCOMPLETE
  /\ value = None
  /\ init = TRUE
  /\ op = [t \in Threads |-> "none"]
  /\ pc = [t \in Threads |-> "idle"]
  /\ out = [t \in Threads |-> None]

Goto(t, l) == pc' = [pc EXCEPT ![t] = l]
Return(t, r) == Goto(t, "done") /\ out' = [out EXCEPT ![t] = r]

(* Where a call goes when call_once returns.  set returns Err unless its   *)
(* own closure ran and took the value.                                     *)
AfterOnce(t, ran) ==
  IF op[t] = "set"
  THEN Return(t, IF ran THEN "Ok" ELSE "Err")
  ELSE Goto(t, "read") /\ UNCHANGED out

(* A thread calls an operation; get asks is_completed, which also may      *)
(* answer that there is no value.                                          *)
Call(t) ==
  /\ pc[t] = "idle"
  /\ \E o \in Ops :
       /\ op' = [op EXCEPT ![t] = o]
       /\ \/ o # "get" /\ Goto(t, "load") /\ UNCHANGED out
          \/ o = "get" /\ state = COMPLETE /\ Goto(t, "read") /\ UNCHANGED out
          \/ o = "get" /\ state # COMPLETE /\ Return(t, None)
  /\ UNCHANGED <<state, value, init>>

(* call_once: already complete?                                            *)
Load(t) ==
  /\ pc[t] = "load"
  /\ IF state = COMPLETE
     THEN AfterOnce(t, FALSE)
     ELSE Goto(t, "cas") /\ UNCHANGED out
  /\ UNCHANGED <<state, value, init, op>>

(* call_once: compare_exchange(INCOMPLETE, RUNNING).                       *)
Cas(t) ==
  /\ pc[t] = "cas"
  /\ IF state = INCOMPLETE
     THEN Goto(t, "run") /\ state' = RUNNING
     ELSE Goto(t, "spin") /\ UNCHANGED state
  /\ UNCHANGED <<value, init, op, out>>

(* The closure: LazyLock takes its function out first; then the value is   *)
(* written.                                                                *)
Run(t) ==
  /\ pc[t] = "run"
  /\ IF op[t] = "force" /\ ~init
     THEN Goto(t, "panic") /\ UNCHANGED <<value, init>>
     ELSE /\ value' = t
          /\ init' = (init /\ op[t] # "force")
          /\ Goto(t, "publish")
  /\ UNCHANGED <<state, op, out>>

(* call_once: store(COMPLETE).                                             *)
Publish(t) ==
  /\ pc[t] = "publish"
  /\ state' = COMPLETE
  /\ AfterOnce(t, TRUE)
  /\ UNCHANGED <<value, init, op>>

SpinLeavesEarly(t) ==
  /\ pc[t] = "spin" /\ state # INCOMPLETE
  /\ AfterOnce(t, FALSE)
  /\ UNCHANGED <<state, value, init, op>>

(* call_once: the spin loop sees COMPLETE.                                 *)
Spin(t) ==
  /\ pc[t] = "spin" /\ state = COMPLETE
  /\ AfterOnce(t, FALSE)
  /\ UNCHANGED <<state, value, init, op>>

(* get, get_or_init, force: read the value; the last two unwrap it.        *)
Read(t) ==
  /\ pc[t] = "read"
  /\ IF value = None /\ op[t] # "get"
     THEN Goto(t, "panic") /\ UNCHANGED out
     ELSE Return(t, value)
  /\ UNCHANGED <<state, value, init, op>>

Proceed(t) == Load(t) \/ Cas(t) \/ Run(t) \/ Publish(t) \/ Spin(t) \/ Read(t)

Next == \E t \in Threads : Call(t) \/ Proceed(t)

(* The scheduler runs every thread that is inside a call, and the closure  *)
(* returns.                                                                *)
Spec == Init /\ [][Next]_vars /\ \A t \in Threads : WF_vars(Proceed(t))

-----------------------------------------------------------------------------
(* The plain memory behind the cell is never read or written while another *)
(* thread writes it, and no unwrap of get_or_init, force or LazyLock::init *)
(* panics.                                                                 *)
NoRaceNoPanic ==
  \A t, u \in Threads :
    /\ pc[t] # "panic"
    /\ t # u /\ pc[t] = "run" => pc[u] \notin {"run", "read"}

(* All callers see one value, the value of the one caller whose closure    *)
(* ran: no other set returned Ok, and only get may see an empty cell.      *)
OneValue ==
  \A t \in Threads :
    pc[t] = "done" =>
      \/ out[t] = "Ok" /\ value = t
      \/ out[t] = "Err" /\ value \in Threads \ {t}
      \/ out[t] = value /\ value # None
      \/ out[t] = None /\ op[t] = "get"

(* OnceLock and LazyLock, whoever calls what at the same time: the memory  *)
(* of the cell is not raced for, nothing panics, and all agree on a value. *)
OnceSafe == NoRaceNoPanic /\ OneValue

(* Every call returns.                                                     *)
InCall == \E t \in Threads : pc[t] \notin {"idle", "done"}
CallsReturn == InCall ~> ~InCall
=============================================================================
