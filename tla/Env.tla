-------------------------------- MODULE Env --------------------------------
(***************************************************************************)
(* The environment, and what Command::spawn takes from it.  ENV_MAP is a   *)
(* map behind a Mutex, seeded from the loader's vector by its first user;  *)
(* vars() copies it key by key under the lock; spawn looks the program up  *)
(* in PATH (resolve_program) unless it has a '/', and later copies the map *)
(* (build_env).  A value is the sequence of the parts that ':' separates.  *)
(* The lock is the abstract one that Mutex implements, get_or_init the     *)
(* cell of Once.                                                           *)
(***************************************************************************)
EXTENDS Naturals, Sequences

CONSTANTS Threads, Free,   \* and no thread
          Order,           \* the variables, in the order of the BTreeMap
          Values, Unset,   \* what they may be set to, and none of that
          Keep,            \* a variable the Command does not mention
          Envp,            \* the loader's vector: <<key, value>>, or <<text>> without '='
          Default,         \* the PATH where none is set
          Holding,         \* the directories that hold the program, Itself among them
          Nul,             \* the entries <<key, value>> with a NUL in them
          Requests,        \* the calls a thread may make
          MaxCalls         \* bound: calls of each thread

Itself == "itself"    \* where a program with a '/' is
Keys == {Order[i] : i \in DOMAIN Order}
Requested == [op : {"var", "remove_var"}, key : Keys] \cup [op : {"set_var"}, key : Keys, value : Values]
             \cup [op : {"spawn"}, slash : BOOLEAN, clear : BOOLEAN, env : [Keys -> Values \cup {Unset, Keep}]]

EnvAssumption ==
  /\ Free \notin Threads /\ "PATH" \in Keys /\ Requests \subseteq Requested /\ MaxCalls \in Nat
  /\ Order \in Seq(Keys)
  /\ \A i \in DOMAIN Envp : Len(Envp[i]) = 1 \/ Envp[i] \in Keys \X Values
  /\ Values \cup {Default} \subseteq Seq(STRING) \ {<<>>}    \* split(':') gives at least one part
  /\ Holding \subseteq STRING /\ "NotFound" \notin Holding /\ Itself \in Holding

VARIABLES map, seeded,     \* ENV_MAP: its contents, and whether the OnceLock is set
          owner,           \* who holds its Mutex
          pc, req,         \* where each thread is, and in which call
          at,              \* the key or directory its loop has reached
          copy,            \* the snapshot it takes, then the child's environment
          dirs,            \* the PATH it searches, or <<Itself>>
          out,             \* what its last call returned
          hist,            \* ghost: the environments there have been
          span,            \* ghost: those during the last call of each thread
          calls            \* calls it has left

vars == <<map, seeded, owner, pc, req, at, copy, dirs, out, hist, span, calls>>

Empty == [k \in Keys |-> Unset]
PC == {"idle", "map", "lock", "held", "vars", "search", "env", "ops"}

TypeOK ==
  /\ map \in [Keys -> Values \cup {Unset}] /\ seeded \in BOOLEAN
  /\ owner \in Threads \cup {Free}
  /\ pc \in [Threads -> PC]
  /\ copy \in [Threads -> [Keys -> Values \cup {Unset}]]
  /\ calls \in [Threads -> 0..MaxCalls]

(* env_map's closure: entries without '=' are skipped, the last one of a   *)
(* key stays.                                                              *)
Entries(k) == {i \in DOMAIN Envp : Len(Envp[i]) = 2 /\ Envp[i][1] = k}
Latest(k) == {i \in Entries(k) : \A j \in Entries(k) : j <= i}
Seed ==
  [k \in Keys |-> IF Latest(k) = {} THEN Unset ELSE Envp[CHOOSE i \in Latest(k) : TRUE][2]]

Init ==
  /\ map = Empty /\ seeded = FALSE /\ owner = Free
  /\ pc = [t \in Threads |-> "idle"]
  /\ req = [t \in Threads |-> [op |-> "none"]]
  /\ at = [t \in Threads |-> 1]
  /\ copy = [t \in Threads |-> Empty]
  /\ dirs = [t \in Threads |-> <<>>]
  /\ out = [t \in Threads |-> Unset]
  /\ hist = <<Seed>>
  /\ span = [t \in Threads |-> <<1, 1>>]
  /\ calls = [t \in Threads |-> MaxCalls]

Set(f, t, v) == [f EXCEPT ![t] = v]

Call(t) ==
  /\ pc[t] = "idle" /\ calls[t] > 0
  /\ \E r \in Requests : req' = Set(req, t, r)
  /\ calls' = Set(calls, t, calls[t] - 1)
  /\ span' = Set(span, t, <<Len(hist), Len(hist)>>)
  /\ pc' = Set(pc, t, "map")
  /\ UNCHANGED <<map, seeded, owner, at, copy, dirs, out, hist>>

(* resolve_program: a program with a '/' is taken as it is.                *)
NeedsNoPath(t) == req[t].op = "spawn" /\ req[t].slash /\ dirs[t] = <<>>
TakeProgram(t) ==
  /\ pc[t] = "map" /\ NeedsNoPath(t)
  /\ dirs' = Set(dirs, t, <<Itself>>)
  /\ at' = Set(at, t, 1)
  /\ pc' = Set(pc, t, "env")
  /\ UNCHANGED <<map, seeded, owner, req, copy, out, hist, span, calls>>

(* env_map                                                                 *)
EnvMap(t) ==
  /\ pc[t] = "map" /\ ~NeedsNoPath(t)
  /\ map' = IF seeded THEN map ELSE Seed
  /\ seeded' = TRUE
  /\ pc' = Set(pc, t, "lock")
  /\ UNCHANGED <<owner, req, at, copy, dirs, out, hist, span, calls>>

Copying(t) == req[t].op = "spawn" /\ dirs[t] # <<>>

Lock(t) ==
  /\ pc[t] = "lock" /\ owner = Free
  /\ owner' = t
  /\ pc' = Set(pc, t, IF Copying(t) THEN "vars" ELSE "held")
  /\ UNCHANGED <<map, seeded, req, at, copy, dirs, out, hist, span, calls>>

(* The call returns r; its environments end with the last of h.            *)
Returns(t, r, h) ==
  /\ out' = Set(out, t, r)
  /\ span' = Set(span, t, <<span[t][1], Len(h)>>)
  /\ dirs' = Set(dirs, t, <<>>)
  /\ pc' = Set(pc, t, "idle")

(* var: get and clone.                                                     *)
Var(t) ==
  /\ pc[t] = "held" /\ req[t].op = "var"
  /\ Returns(t, map[req[t].key], hist)
  /\ owner' = Free
  /\ UNCHANGED <<map, seeded, req, at, copy, hist, calls>>

(* set_var, remove_var: insert, remove.                                    *)
Change(t, k, v) ==
  /\ pc[t] = "held"
  /\ map' = [map EXCEPT ![k] = v]
  /\ hist' = Append(hist, map')
  /\ Returns(t, Unset, hist')
  /\ owner' = Free
  /\ UNCHANGED <<seeded, req, at, copy, calls>>
SetVar(t) == req[t].op = "set_var" /\ Change(t, req[t].key, req[t].value)
RemoveVar(t) == req[t].op = "remove_var" /\ Change(t, req[t].key, Unset)

(* resolve_program: PATH, or what stands for it ...                        *)
PathOf(m) == IF m["PATH"] = Unset THEN Default ELSE m["PATH"]
ReadPath(t) ==
  /\ pc[t] = "held" /\ req[t].op = "spawn"
  /\ dirs' = Set(dirs, t, PathOf(map))
  /\ at' = Set(at, t, 1)
  /\ pc' = Set(pc, t, "search")
  /\ owner' = Free
  /\ UNCHANGED <<map, seeded, req, copy, out, hist, span, calls>>

(* ... then one part after the other: an empty one is skipped, the first   *)
(* that holds the program as a regular file is it; there may be none.      *)
Search(t) ==
  /\ pc[t] = "search"
  /\ \/ /\ at[t] > Len(dirs[t]) /\ Returns(t, "NotFound", hist)
        /\ UNCHANGED at
     \/ /\ at[t] <= Len(dirs[t]) /\ dirs[t][at[t]] \notin Holding \ {""}
        /\ at' = Set(at, t, at[t] + 1)
        /\ UNCHANGED <<pc, out, span, dirs>>
     \/ /\ at[t] <= Len(dirs[t]) /\ dirs[t][at[t]] \in Holding \ {""}
        /\ pc' = Set(pc, t, "env")
        /\ UNCHANGED <<at, out, span, dirs>>
  /\ UNCHANGED <<map, seeded, owner, req, copy, hist, calls>>

(* build_env: nothing, or a copy of the environment;                       *)
BuildEnv(t) ==
  /\ pc[t] = "env"
  /\ out' = Set(out, t, dirs[t][at[t]])
  /\ copy' = Set(copy, t, Empty)
  /\ at' = Set(at, t, 1)
  /\ pc' = Set(pc, t, IF req[t].clear THEN "ops" ELSE "map")
  /\ UNCHANGED <<map, seeded, owner, req, dirs, hist, span, calls>>

VarsUnlocks(t) ==
  /\ pc[t] = "vars"
  /\ IF at[t] <= Len(Order)
     THEN /\ copy' = [copy EXCEPT ![t][Order[at[t]]] = map[Order[at[t]]]]
          /\ at' = Set(at, t, at[t] + 1)
          /\ pc' = Set(pc, t, "lock")
     ELSE pc' = Set(pc, t, "ops") /\ UNCHANGED <<copy, at>>
  /\ owner' = Free
  /\ UNCHANGED <<map, seeded, req, dirs, out, hist, span, calls>>

(* vars: iter, clone and collect, one key per step, under the lock;        *)
Vars(t) ==
  /\ pc[t] = "vars"
  /\ IF at[t] <= Len(Order)
     THEN /\ copy' = [copy EXCEPT ![t][Order[at[t]]] = map[Order[at[t]]]]
          /\ at' = Set(at, t, at[t] + 1)
          /\ UNCHANGED <<pc, owner>>
     ELSE pc' = Set(pc, t, "ops") /\ owner' = Free /\ UNCHANGED <<copy, at>>
  /\ UNCHANGED <<map, seeded, req, dirs, out, hist, span, calls>>

(* build_env: env_ops, an insert or a remove of its key each; an entry     *)
(* that is no C string is left out.                                        *)
Passed(env) == [k \in Keys |-> IF <<k, env[k]>> \in Nul THEN Unset ELSE env[k]]
EnvOps(t) ==
  /\ pc[t] = "ops"
  /\ LET ops == req[t].env
         env == [k \in Keys |-> IF ops[k] = Keep THEN copy[t][k] ELSE ops[k]]
     IN  Returns(t, <<out[t], Passed(env)>>, hist)
  /\ UNCHANGED <<map, seeded, owner, req, at, copy, hist, calls>>

Next ==
  \E t \in Threads :
    \/ Call(t) \/ EnvMap(t) \/ Lock(t) \/ Var(t) \/ SetVar(t) \/ RemoveVar(t)
    \/ TakeProgram(t) \/ ReadPath(t) \/ Search(t) \/ BuildEnv(t) \/ Vars(t) \/ EnvOps(t)

Spec == Init /\ [][Next]_vars

-----------------------------------------------------------------------------
(* What the environment m makes of a spawn: the program found, the child's *)
(* environment.                                                            *)
PathFor(r, m) == IF r.slash THEN <<Itself>> ELSE PathOf(m)
Found(r, m) ==
  LET parts == PathFor(r, m)
      good == {i \in DOMAIN parts : parts[i] \in Holding \ {""}}
  IN  IF good = {} THEN "NotFound" ELSE parts[CHOOSE i \in good : \A j \in good : i <= j]
Inherits(r, m) ==
  [k \in Keys |-> IF r.env[k] # Keep THEN r.env[k] ELSE IF r.clear THEN Unset ELSE m[k]]

(* env::var, resolve_program and build_env each see the environment of one *)
(* moment of the call, whatever other threads set meanwhile: a child never *)
(* starts with a mixture of two environments, and the PATH its program is  *)
(* found in is no later than the environment it gets.                      *)
Sees(t, i, j) ==
  out[t] = IF req[t].op = "var" THEN hist[i][req[t].key]
           ELSE IF Found(req[t], hist[i]) = "NotFound" THEN "NotFound"
           ELSE <<Found(req[t], hist[i]), Passed(Inherits(req[t], hist[j]))>>
OneMoment ==
  \A t \in Threads : pc[t] = "idle" /\ req[t].op \in {"var", "spawn"} =>
    \E i, j \in span[t][1]..span[t][2] : i <= j /\ Sees(t, i, j)
=============================================================================
