----------------------------- MODULE EnvProofs -----------------------------
(***************************************************************************)
(* The environment: what MCSystem checks of it on a small instance, for    *)
(* any number of threads, variables and changes.                           *)
(***************************************************************************)
EXTENDS Integers, Sequences, TLAPS

CONSTANTS Callers, Nobody,   \* the threads, and none of them
          KeyOrder, Bins,    \* Env's Order and Holding
          Values, Unset, Keep, Envp, Default, Nul, Requests, EnvCalls   \* see Env

VARIABLES map, seeded, owner, epc, req, eat, copy, dirs, eout, hist, span, ecalls

E == INSTANCE Env WITH Threads <- Callers, Free <- Nobody, Order <- KeyOrder,
                       Holding <- Bins, MaxCalls <- EnvCalls,
                       pc <- epc, at <- eat, out <- eout, calls <- ecalls

(* Env: what var and spawn see was the environment at one moment of the    *)
(* call.                                                                   *)
OneMoment == E!OneMoment

(* What an environment is.                                                 *)
Env == [E!Keys -> Values \cup {Unset}]

(* The invariant of Env.  The types;                                       *)
EnvTypes ==
  /\ map \in Env /\ hist \in Seq(Env) /\ Len(hist) > 0
  /\ seeded \in BOOLEAN
  /\ epc \in [Callers -> E!PC]
  /\ eat \in [Callers -> Nat]
  /\ copy \in [Callers -> Env]
  /\ dirs \in [Callers -> Seq(STRING)]
  /\ span \in [Callers -> Nat \X Nat]
  /\ DOMAIN req = Callers /\ DOMAIN eout = Callers

(* the last environment there has been is the one to be read, seeded or    *)
(* not yet;                                                                *)
History == hist[Len(hist)] = IF seeded THEN map ELSE E!Seed

(* a thread that works on the map has seeded it and holds its Mutex, and a *)
(* call spans environments there have been;                                *)
Held(t) ==
  /\ epc[t] # "idle" => req[t] \in Requests
  /\ epc[t] \in {"lock", "held", "vars"} => seeded
  /\ epc[t] \in {"held", "vars"} => owner = t
  /\ 1 <= span[t][1] /\ span[t][1] <= span[t][2] /\ span[t][2] <= Len(hist)

(* a thread has a PATH from resolve_program until its spawn returns, and   *)
(* reads it only for a program without a '/';                              *)
Spawns(t) ==
  /\ epc[t] \in {"idle", "held"} => dirs[t] = <<>>
  /\ epc[t] \in {"search", "env", "vars", "ops"} => dirs[t] # <<>>
  /\ dirs[t] # <<>> => req[t].op = "spawn"
  /\ epc[t] \in {"lock", "held"} /\ dirs[t] = <<>> /\ req[t].op = "spawn" => ~req[t].slash

(* that PATH was one during the call, the parts before the one reached do  *)
(* not hold the program, and what was found is the first part that does;   *)
Good(d, n) == d[n] \in Bins \ {""}
Skipped(t, n) == \A m \in 1..n - 1 : ~Good(dirs[t], m)
PathAt(t, i) == i \in span[t][1]..Len(hist) /\ dirs[t] = E!PathFor(req[t], hist[i])
Program(t) ==
  \E n \in DOMAIN dirs[t] : Good(dirs[t], n) /\ Skipped(t, n) /\ eout[t] = dirs[t][n]

(* a copy agrees with the map as far as it has got, and, once it is whole, *)
(* with an environment no earlier than the PATH;                           *)
Inherited(t) ==
  [k \in E!Keys |-> IF req[t].env[k] = Keep THEN copy[t][k] ELSE req[t].env[k]]

Resolving(t) ==
  /\ dirs[t] # <<>> => \E i \in 1..Len(hist) : PathAt(t, i)
  /\ epc[t] = "search" => eat[t] \in 1..Len(dirs[t]) + 1 /\ Skipped(t, eat[t])
  /\ epc[t] = "env" => eat[t] \in DOMAIN dirs[t] /\ Good(dirs[t], eat[t]) /\ Skipped(t, eat[t])
  /\ epc[t] \in {"map", "lock", "vars", "ops"} /\ dirs[t] # <<>> => Program(t)

Copies(t) ==
  /\ epc[t] \in {"map", "lock"} /\ dirs[t] # <<>> => ~req[t].clear /\ eat[t] = 1
  /\ epc[t] = "vars" =>
       /\ ~req[t].clear /\ eat[t] \in 1..Len(KeyOrder) + 1
       /\ \A n \in 1..eat[t] - 1 : copy[t][KeyOrder[n]] = map[KeyOrder[n]]
  /\ epc[t] = "ops" =>
       \E i, j \in 1..Len(hist) : /\ i <= j /\ PathAt(t, i)
                         /\ Inherited(t) = E!Inherits(req[t], hist[j])

(* and a call that has returned saw one moment of its span.                *)
Seen(t) ==
  epc[t] = "idle" /\ req[t].op \in {"var", "spawn"} =>
    \E i, j \in span[t][1]..span[t][2] : i <= j /\ E!Sees(t, i, j)

Stage(t) == Held(t) /\ Spawns(t) /\ Resolving(t) /\ Copies(t) /\ Seen(t)

EnvInv == EnvTypes /\ History /\ \A t \in Callers : Stage(t)

(* The closure of env_map makes an environment.                            *)
LEMMA SeedType ==
  ASSUME E!EnvAssumption
  PROVE  E!Seed \in Env
<1>1. ASSUME NEW k \in E!Keys, NEW i \in E!Latest(k)
      PROVE  Envp[i][2] \in Values
  <2>1. i \in DOMAIN Envp /\ Len(Envp[i]) = 2
    BY <1>1 DEF E!Latest, E!Entries
  <2>2. Len(Envp[i]) = 1 \/ Envp[i] \in E!Keys \X Values
    BY <2>1, Zenon DEF E!EnvAssumption
  <2>3. QED
    BY <2>1, <2>2
<1>2. QED
  BY <1>1, Zenon DEF E!Seed, Env

(* A PATH has at least one part.                                           *)
LEMMA PathOfType ==
  ASSUME E!EnvAssumption, NEW m \in Env
  PROVE  E!PathOf(m) \in Seq(STRING) \ {<<>>}
<1>1. m["PATH"] \in Values \cup {Unset}
  BY DEF Env, E!EnvAssumption
<1>2. QED
  BY <1>1 DEF E!PathOf, E!EnvAssumption

(* The first part that holds the program is what Found says.               *)
LEMMA FoundFirst ==
  ASSUME E!EnvAssumption, NEW r, NEW m, NEW parts \in Seq(STRING), parts = E!PathFor(r, m),
         NEW n \in DOMAIN parts, Good(parts, n), \A k \in 1..n - 1 : ~Good(parts, k)
  PROVE  E!Found(r, m) = parts[n] /\ E!Found(r, m) # "NotFound"
<1> DEFINE good == {i \in DOMAIN parts : parts[i] \in Bins \ {""}}
<1>1. n \in 1..Len(parts) /\ DOMAIN parts = 1..Len(parts) /\ Len(parts) \in Nat
  OBVIOUS
<1>2. n \in good /\ \A j \in good : j \in 1..Len(parts) /\ Good(parts, j)
  BY <1>1, Zenon DEF Good
<1> HIDE DEF good
<1>3. ASSUME NEW j \in good PROVE j \in Nat /\ n <= j
  <2>1. j \in 1..Len(parts) /\ Good(parts, j)
    BY <1>2, <1>3, Zenon
  <2>2. j \notin 1..n - 1
    BY <2>1, Zenon
  <2>3. QED
    BY ONLY <1>1, <2>1, <2>2
<1>4. ASSUME NEW c \in good, \A j \in good : c <= j PROVE c = n
  BY <1>1, <1>2, <1>3, <1>4
<1>5. (CHOOSE i \in good : \A j \in good : i <= j) = n
  BY <1>2, <1>3, <1>4
<1>6. E!Found(r, m) = parts[n]
  BY <1>2, <1>5, Zenon DEF E!Found, good
<1>7. QED
  BY <1>6, Zenon DEF Good, E!EnvAssumption

(* Without such a part there is no program.                                *)
LEMMA FoundNone ==
  ASSUME NEW r, NEW m, \A k \in DOMAIN E!PathFor(r, m) : ~Good(E!PathFor(r, m), k)
  PROVE  E!Found(r, m) = "NotFound"
BY Zenon DEF E!Found, Good

(* Thread t does nothing, and no environment there has been is forgotten.  *)
Same(t) ==
  /\ epc'[t] = epc[t] /\ req'[t] = req[t] /\ eat'[t] = eat[t] /\ copy'[t] = copy[t]
  /\ dirs'[t] = dirs[t] /\ eout'[t] = eout[t] /\ span'[t] = span[t]
Grows == Len(hist) <= Len(hist') /\ \A i \in 1..Len(hist) : hist'[i] = hist[i]

(* The invariant holds at first.                                           *)
LEMMA EnvInitInv ==
  ASSUME E!EnvAssumption, E!Init
  PROVE  EnvInv
<1>1. E!Empty \in Env /\ E!Seed \in Env
  BY SeedType DEF E!Empty, Env
<1>2. EnvTypes
  <2>1. map \in Env /\ copy \in [Callers -> Env] /\ hist \in Seq(Env) /\ Len(hist) = 1
    <3> HIDE DEF E!Empty, E!Seed
    <3>1. QED
      BY <1>1 DEF E!Init
  <2>2. epc \in [Callers -> E!PC] /\ eat \in [Callers -> Nat] /\ seeded \in BOOLEAN
    BY Zenon DEF E!Init, E!PC
  <2>3. dirs \in [Callers -> Seq(STRING)] /\ span \in [Callers -> Nat \X Nat]
    BY DEF E!Init
  <2>4. DOMAIN req = Callers /\ DOMAIN eout = Callers
    BY DEF E!Init
  <2>5. QED
    BY <2>1, <2>2, <2>3, <2>4 DEF EnvTypes
<1>3. History
  BY DEF E!Init, History
<1>4. ASSUME NEW t \in Callers PROVE Stage(t)
  <2>1. Held(t) /\ Spawns(t)
    BY DEF E!Init, Held, Spawns
  <2>2. Resolving(t) /\ Copies(t) /\ Seen(t)
    BY DEF E!Init, Resolving, Copies, Seen
  <2>3. QED
    BY <2>1, <2>2 DEF Stage
<1>5. QED
  BY <1>2, <1>3, <1>4 DEF EnvInv

(* A PATH there has been stays one.                                        *)
LEMMA PathAtKept ==
  ASSUME EnvTypes, EnvTypes', NEW t \in Callers, Grows,
         dirs'[t] = dirs[t], req'[t] = req[t], span'[t] = span[t], Held(t),
         NEW i \in 1..Len(hist), PathAt(t, i)
  PROVE  i \in 1..Len(hist') /\ PathAt(t, i)'
<1>1. Len(hist) \in Nat /\ Len(hist') \in Nat /\ span[t] \in Nat \X Nat
  BY DEF EnvTypes
<1>2. hist'[i] = hist[i] /\ E!PathFor(req[t], hist[i]) = dirs[t] /\ i \in span[t][1]..Len(hist)
  BY DEF Grows, PathAt
<1>3. dirs'[t] = E!PathFor(req'[t], hist'[i])
  BY <1>2
<1>4. i \in 1..Len(hist') /\ i \in span'[t][1]..Len(hist')
  BY <1>1, <1>2 DEF Grows
<1>5. QED
  BY <1>3, <1>4 DEF PathAt, E!PathFor, E!PathOf

(* A thread that does nothing keeps its part of the invariant, if its lock *)
(* is left to it and the map unchanged under it.                           *)
LEMMA SameStage ==
  ASSUME E!EnvAssumption, EnvTypes, EnvTypes', NEW t \in Callers, Stage(t), Same(t), Grows,
         seeded => seeded',
         epc[t] \in {"held", "vars"} => owner' = owner,
         epc[t] = "vars" => map' = map
  PROVE  Stage(t)'
<1>0. Len(hist) \in Nat /\ Len(hist') \in Nat /\ span[t] \in Nat \X Nat
  BY SMTT(30) DEF EnvTypes
<1>1. Held(t)'
  BY <1>0 DEF Stage, Held, Same, Grows
<1>2. Spawns(t)'
  BY SMTT(30) DEF Stage, Spawns, Same
<1>3. Resolving(t)'
  <2>1. Program(t) => Program(t)'
    BY SMTT(30) DEF Program, Skipped, Same
  <2>2. dirs[t] # <<>> => \E i \in 1..Len(hist') : PathAt(t, i)'
    BY PathAtKept DEF Stage, Resolving, Same
  <2>3. QED
    BY <2>1, <2>2, SMTT(30) DEF Stage, Resolving, Same, Skipped
<1>4. Copies(t)'
  <2>1. CASE epc[t] = "ops"
    <3>1. PICK i \in 1..Len(hist), j \in 1..Len(hist) :
            i <= j /\ PathAt(t, i) /\ Inherited(t) = E!Inherits(req[t], hist[j])
      BY <2>1 DEF Stage, Copies
    <3>2. i \in 1..Len(hist') /\ PathAt(t, i)'
      BY <3>1, PathAtKept DEF Stage, Same
    <3>3. j \in 1..Len(hist') /\ hist'[j] = hist[j]
      BY <1>0, <3>1, SMTT(30) DEF Grows
    <3>4. Inherited(t)' = Inherited(t)
      BY DEF Inherited, Same
    <3>5. E!Inherits(req'[t], hist'[j]) = E!Inherits(req[t], hist[j])
      BY <3>3 DEF Same
    <3>6. \E k, l \in 1..Len(hist') :
             k <= l /\ PathAt(t, k)' /\ Inherited(t)' = E!Inherits(req'[t], hist'[l])
      BY <3>1, <3>2, <3>3, <3>4, <3>5, ZenonT(60)
    <3>7. QED
      BY <2>1, <3>6, SMTT(30) DEF Copies, Same
  <2>2. CASE epc[t] # "ops"
    BY <2>2, SMTT(30) DEF Stage, Copies, Same
  <2>3. QED
    BY <2>1, <2>2, SMTT(30)
<1>5. Seen(t)'
  <2>1. SUFFICES ASSUME epc[t] = "idle", req[t].op \in {"var", "spawn"} PROVE Seen(t)'
    BY SMTT(30) DEF Seen, Same
  <2>2. PICK i \in span[t][1]..span[t][2], j \in span[t][1]..span[t][2] :
          i <= j /\ E!Sees(t, i, j)
    BY <2>1 DEF Stage, Seen
  <2>3. hist'[i] = hist[i] /\ hist'[j] = hist[j]
    BY <1>0, <2>2 DEF Grows, Stage, Held
  <2>4. E!Sees(t, i, j)'
    BY <2>2, <2>3, ZenonT(60) DEF E!Sees, E!Found, E!Inherits, E!Passed, E!PathFor, E!PathOf, Same
  <2>5. QED
    BY <2>2, <2>4, SMTT(30) DEF Seen, Same
<1>6. QED
  BY <1>1, <1>2, <1>3, <1>4, <1>5 DEF Stage

(* A step of thread u keeps the invariant if it keeps u's part.            *)
LEMMA EnvStep ==
  ASSUME E!EnvAssumption, EnvInv, EnvTypes', History', NEW u \in Callers,
         Held(u)', Spawns(u)', Resolving(u)', Copies(u)', Seen(u)',
         Grows, seeded => seeded', \A t \in Callers \ {u} : Same(t),
         owner' = owner \/ owner \in {u, Nobody},
         map' = map \/ owner = u \/ ~seeded
  PROVE  EnvInv'
<1>1. ASSUME NEW t \in Callers, t # u PROVE Stage(t)'
  <2>1. Stage(t) /\ Same(t)
    BY <1>1 DEF EnvInv
  <2>2. epc[t] \in {"held", "vars"} => owner = t /\ seeded
    BY <2>1 DEF Stage, Held
  <2>3. t # Nobody
    BY DEF E!EnvAssumption
  <2>4. /\ epc[t] \in {"held", "vars"} => owner' = owner
        /\ epc[t] = "vars" => map' = map
    BY <1>1, <2>2, <2>3, SMTT(30)
  <2>5. QED
    BY <2>1, <2>4, SameStage DEF EnvInv
<1>2. Stage(u)'
  BY DEF Stage
<1>3. QED
  BY <1>1, <1>2 DEF EnvInv

(* What the invariant says where thread u takes a step,                    *)
LEMMA EnvFacts ==
  ASSUME E!EnvAssumption, EnvInv, NEW u \in Callers
  PROVE  /\ EnvTypes /\ History /\ Held(u) /\ Spawns(u) /\ Resolving(u) /\ Copies(u)
         /\ Seen(u) /\ map \in Env /\ hist \in Seq(Env) /\ Len(hist) \in Nat
         /\ Len(hist) > 0 /\ span[u] \in Nat \X Nat /\ eat[u] \in Nat /\ copy[u] \in Env
         /\ dirs[u] \in Seq(STRING) /\ Len(dirs[u]) \in Nat
         /\ Len(KeyOrder) \in Nat /\ DOMAIN KeyOrder = 1..Len(KeyOrder)
<1>1. EnvTypes /\ History /\ Stage(u)
  BY DEF EnvInv
<1>2. Len(KeyOrder) \in Nat /\ DOMAIN KeyOrder = 1..Len(KeyOrder)
  BY DEF E!EnvAssumption
<1>3. /\ map \in Env /\ hist \in Seq(Env) /\ Len(hist) \in Nat
      /\ Len(hist) > 0 /\ span[u] \in Nat \X Nat /\ eat[u] \in Nat /\ copy[u] \in Env
      /\ dirs[u] \in Seq(STRING) /\ Len(dirs[u]) \in Nat
  BY <1>1 DEF EnvTypes
<1>4. QED
  BY <1>1, <1>2, <1>3, Zenon DEF Stage

(* and where its call returns.                                             *)
LEMMA Returned ==
  ASSUME NEW u \in Callers, epc'[u] = "idle", dirs'[u] = <<>>,
         span[u] \in Nat \X Nat, Len(hist') \in Nat,
         span'[u][1] = span[u][1], span'[u][2] = Len(hist'),
         1 <= span[u][1], span[u][1] <= Len(hist')
  PROVE  Held(u)' /\ Spawns(u)' /\ Resolving(u)' /\ Copies(u)'
<1>1. Held(u)'
  BY DEF Held
<1>2. Spawns(u)' /\ Resolving(u)' /\ Copies(u)'
  BY Zenon DEF Spawns, Resolving, Copies
<1>3. QED
  BY <1>1, <1>2

(* Each step keeps the invariant.                                          *)
LEMMA CallInv ==
  ASSUME E!EnvAssumption, EnvInv, NEW u \in Callers, E!Call(u)
  PROVE  EnvInv'
<1>0. /\ Held(u) /\ Spawns(u) /\ Resolving(u) /\ Copies(u) /\ Seen(u)
      /\ EnvTypes /\ History /\ Len(hist) \in Nat
  BY EnvFacts, Zenon
<1>1. EnvTypes' /\ History' /\ Grows
  BY <1>0, SMTT(30) DEF E!Call, E!Set, EnvTypes, E!PC, History, Grows
<1>2. epc[u] = "idle" /\ epc'[u] = "map" /\ dirs'[u] = <<>>
  BY <1>0, SMTT(30) DEF E!Call, E!Set, EnvTypes, Spawns
<1>3. Held(u)' /\ Spawns(u)'
  BY <1>0, <1>2, SMTT(30) DEF E!Call, E!Set, EnvTypes, Held, Spawns
<1>4. Resolving(u)' /\ Copies(u)' /\ Seen(u)'
  BY <1>2, SMTT(30) DEF Resolving, Copies, Seen
<1>5. \A t \in Callers \ {u} : Same(t)
  BY <1>0, SMTT(30) DEF E!Call, E!Set, EnvTypes, Same
<1>6. QED
  BY <1>0, <1>1, <1>3, <1>4, <1>5, EnvStep, SMTT(30) DEF E!Call

LEMMA TakeProgramInv ==
  ASSUME E!EnvAssumption, EnvInv, NEW u \in Callers, E!TakeProgram(u)
  PROVE  EnvInv'
<1>0. /\ Held(u) /\ Spawns(u) /\ Resolving(u) /\ Copies(u) /\ Seen(u)
      /\ EnvTypes /\ History /\ Len(hist) \in Nat /\ span[u] \in Nat \X Nat
  BY EnvFacts, Zenon
<1>1. /\ epc[u] = "map" /\ req[u].op = "spawn" /\ req[u].slash
      /\ UNCHANGED <<map, seeded, owner, req, copy, eout, hist, span>>
      /\ dirs' = [dirs EXCEPT ![u] = <<E!Itself>>]
      /\ eat' = [eat EXCEPT ![u] = 1]
      /\ epc' = [epc EXCEPT ![u] = "env"]
  BY Zenon DEF E!TakeProgram, E!NeedsNoPath, E!Set
<1>2. <<E!Itself>> \in Seq(STRING) \ {<<>>} /\ Good(<<E!Itself>>, 1)
  <2>1. <<E!Itself>> \in Seq(STRING) \ {<<>>} /\ <<E!Itself>>[1] = E!Itself
    <3>1. ASSUME NEW S, NEW x \in S PROVE <<x>> \in Seq(S) \ {<<>>} /\ <<x>>[1] = x
      OBVIOUS
    <3>2. E!Itself \in STRING
      BY Zenon DEF E!EnvAssumption
    <3>3. QED
      BY <3>1, <3>2, Zenon
  <2>2. E!Itself \in Bins \ {""}
    BY DEF E!EnvAssumption, E!Itself
  <2>3. QED
    BY <2>1, <2>2, Zenon DEF Good
<1>3. EnvTypes' /\ History' /\ Grows
  <2>1. EnvTypes'
    BY <1>0, <1>1, <1>2 DEF EnvTypes, E!PC
  <2>2. QED
    BY <1>0, <1>1, <2>1 DEF History, Grows
<1>4. epc'[u] = "env" /\ dirs'[u] = <<E!Itself>> /\ eat'[u] = 1
  BY <1>0, <1>1 DEF EnvTypes
<1>5. Held(u)' /\ Spawns(u)' /\ Copies(u)' /\ Seen(u)'
  BY <1>0, <1>1, <1>2, <1>4, Zenon DEF Held, Spawns, Copies, Seen
<1>6. Resolving(u)'
  <2>1. E!PathFor(req[u], hist[Len(hist)])' = <<E!Itself>>
    BY <1>1, Zenon DEF E!PathFor
  <2>2. Len(hist') \in span'[u][1]..Len(hist') /\ Len(hist') \in 1..Len(hist')
    BY <1>0, <1>1 DEF Held
  <2>3. PathAt(u, Len(hist))'
    BY <1>1, <1>4, <2>1, <2>2, Zenon DEF PathAt
  <2>4. 1 \in DOMAIN dirs'[u] /\ Skipped(u, 1)'
    BY <1>4 DEF Skipped
  <2>5. QED
    <3>1. Good(dirs[u], eat[u])' /\ Skipped(u, eat[u])' /\ eat'[u] \in DOMAIN dirs'[u]
      BY <1>2, <1>4, <2>4, Zenon DEF Good, Skipped
    <3>2. \E i \in 1..Len(hist') : PathAt(u, i)'
      BY <2>2, <2>3, Zenon
    <3>3. QED
      BY <1>4, <3>1, <3>2, Zenon DEF Resolving
<1>7. \A t \in Callers \ {u} : Same(t)
  BY <1>0, <1>1 DEF EnvTypes, Same
<1>8. QED
  BY <1>1, <1>3, <1>5, <1>6, <1>7, EnvStep, Zenon

LEMMA EnvMapInv ==
  ASSUME E!EnvAssumption, EnvInv, NEW u \in Callers, E!EnvMap(u)
  PROVE  EnvInv'
<1>0. /\ Held(u) /\ Spawns(u) /\ Resolving(u) /\ Copies(u) /\ Seen(u)
      /\ EnvTypes /\ History /\ Len(hist) \in Nat
  BY EnvFacts, Zenon
<1>1. EnvTypes'
  BY <1>0, SeedType DEF E!EnvMap, E!Set, EnvTypes, E!PC
<1>2. History' /\ Grows
  BY <1>0 DEF E!EnvMap, History, Grows
<1>3. epc[u] = "map" /\ epc'[u] = "lock" /\ seeded'
  BY <1>0 DEF E!EnvMap, E!Set, EnvTypes
<1>4. /\ UNCHANGED <<owner, req, eat, copy, dirs, eout, hist, span>>
      /\ map' = map \/ ~seeded
  BY SMTT(30) DEF E!EnvMap
<1>5. Held(u)' /\ Spawns(u)'
  <2>1. dirs[u] = <<>> /\ req[u].op = "spawn" => ~req[u].slash
    BY Zenon DEF E!EnvMap, E!NeedsNoPath
  <2>2. Held(u)'
    BY <1>0, <1>3, <1>4, SMTT(30) DEF Held
  <2>3. QED
    BY <1>0, <1>3, <1>4, <2>1, <2>2, Zenon DEF Spawns
<1>6. Resolving(u)'
  BY <1>0, <1>3, <1>4, SMTT(30) DEF Resolving, Program, Skipped, PathAt, E!PathFor, E!PathOf
<1>7. Copies(u)' /\ Seen(u)'
  BY <1>0, <1>3, <1>4, SMTT(30) DEF Copies, Seen
<1>8. \A t \in Callers \ {u} : Same(t)
  BY <1>0, SMTT(30) DEF E!EnvMap, E!Set, EnvTypes, Same
<1>9. QED
  BY <1>1, <1>2, <1>3, <1>4, <1>5, <1>6, <1>7, <1>8, EnvStep, SMTT(30)

LEMMA LockInv ==
  ASSUME E!EnvAssumption, EnvInv, NEW u \in Callers, E!Lock(u)
  PROVE  EnvInv'
<1>0. /\ Held(u) /\ Spawns(u) /\ Resolving(u) /\ Copies(u) /\ Seen(u)
      /\ EnvTypes /\ History /\ Len(hist) \in Nat
  BY EnvFacts, Zenon
<1>1. EnvTypes'
  BY <1>0 DEF E!Lock, E!Set, EnvTypes, E!PC
<1>2. History' /\ Grows
  BY <1>0, SMTT(30) DEF E!Lock, History, Grows
<1>3. /\ epc[u] = "lock" /\ owner = Nobody /\ owner' = u
      /\ UNCHANGED <<map, seeded, req, eat, copy, dirs, eout, hist, span>>
      /\ epc'[u] = IF dirs[u] # <<>> THEN "vars" ELSE "held"
  <2>1. epc'[u] = IF E!Copying(u) THEN "vars" ELSE "held"
    BY <1>0 DEF E!Lock, E!Set, EnvTypes
  <2>2. E!Copying(u) <=> dirs[u] # <<>>
    BY <1>0, SMTT(30) DEF E!Copying, Spawns
  <2>3. QED
    BY <2>1, <2>2 DEF E!Lock
<1>4. Held(u)' /\ Spawns(u)'
  BY <1>0, <1>3, SMTT(30) DEF Held, Spawns
<1>5. Resolving(u)'
  BY <1>0, <1>3, SMTT(30) DEF Resolving, Program, Skipped, PathAt, E!PathFor, E!PathOf
<1>6. Copies(u)' /\ Seen(u)'
  <2>1. Len(KeyOrder) \in Nat
    BY SMTT(30) DEF E!EnvAssumption
  <2>2. QED
    <3>1. CASE dirs[u] = <<>>
      BY <1>3, <3>1, Zenon DEF Copies, Seen
    <3>2. CASE dirs[u] # <<>>
      <4>1. epc'[u] = "vars" /\ eat'[u] = 1 /\ ~req'[u].clear
        BY <1>0, <1>3, <3>2, Zenon DEF Copies
      <4>2. 1 \in 1..Len(KeyOrder) + 1 /\ 1..eat'[u] - 1 = {}
        BY <2>1, <4>1
      <4>3. QED
        BY <4>1, <4>2, Zenon DEF Copies, Seen
    <3>3. QED
      BY <3>1, <3>2, Zenon
<1>7. \A t \in Callers \ {u} : Same(t)
  BY <1>0, SMTT(30) DEF E!Lock, E!Set, EnvTypes, Same
<1>8. QED
  BY <1>1, <1>2, <1>3, <1>4, <1>5, <1>6, <1>7, EnvStep, SMTT(30)

(* What a request has for arguments.                                       *)
LEMMA RequestFields ==
  ASSUME E!EnvAssumption, NEW r \in Requests
  PROVE  /\ r.op = "set_var" => r.key \in E!Keys /\ r.value \in Values
         /\ r.op = "remove_var" => r.key \in E!Keys
         /\ r.op = "spawn" => r.clear \in BOOLEAN /\ r.slash \in BOOLEAN
<1>1. r \in E!Requested
  BY DEF E!EnvAssumption
<1>2. CASE r \in [op : {"var", "remove_var"}, key : E!Keys]
  BY <1>2
<1>3. CASE r \in [op : {"set_var"}, key : E!Keys, value : Values]
  BY <1>3
<1>4. CASE r \in [op : {"spawn"}, slash : BOOLEAN, clear : BOOLEAN,
                env : [E!Keys -> Values \cup {Unset, Keep}]]
  BY <1>4
<1>5. QED
  BY <1>1, <1>2, <1>3, <1>4, SMTT(30) DEF E!Requested

LEMMA VarInv ==
  ASSUME E!EnvAssumption, EnvInv, NEW u \in Callers, E!Var(u)
  PROVE  EnvInv'
<1>0. /\ Held(u) /\ Spawns(u) /\ Resolving(u) /\ Copies(u) /\ Seen(u)
      /\ EnvTypes /\ History /\ Len(hist) \in Nat /\ span[u] \in Nat \X Nat
  BY EnvFacts, Zenon
<1>1. /\ epc[u] = "held" /\ req[u].op = "var"
      /\ UNCHANGED <<map, seeded, req, eat, copy, hist>>
      /\ owner' = Nobody
      /\ eout' = [eout EXCEPT ![u] = map[req[u].key]]
      /\ span' = [span EXCEPT ![u] = <<span[u][1], Len(hist)>>]
      /\ dirs' = [dirs EXCEPT ![u] = <<>>]
      /\ epc' = [epc EXCEPT ![u] = "idle"]
  BY DEF E!Var, E!Returns, E!Set
<1>2. EnvTypes' /\ History' /\ Grows
  <2>1. EnvTypes'
    BY <1>0, <1>1, SMTT(30) DEF EnvTypes, E!PC
  <2>2. QED
    BY <1>0, <1>1, <2>1, SMTT(30) DEF History, Grows
<1>3. /\ epc'[u] = "idle" /\ dirs'[u] = <<>> /\ eout'[u] = map[req[u].key]
      /\ span'[u][1] = span[u][1] /\ span'[u][2] = Len(hist) /\ owner = u
      /\ hist[Len(hist)] = map /\ 1 <= span[u][1] /\ span[u][1] <= Len(hist)
  BY <1>0, <1>1, SMTT(30) DEF EnvTypes, Held, History
<1>4. Held(u)' /\ Spawns(u)' /\ Resolving(u)' /\ Copies(u)'
  <2>1. Len(hist') = Len(hist)
    BY <1>1
  <2>2. QED
    BY <1>0, <1>3, <2>1, Returned, Zenon
<1>5. Seen(u)'
  <2>1. E!Sees(u, Len(hist), Len(hist))'
    BY <1>1, <1>3, SMTT(30) DEF E!Sees
  <2>2. Len(hist) \in span'[u][1]..span'[u][2]
    BY <1>0, <1>3, SMTT(30)
  <2>3. QED
    BY <1>0, <1>1, <2>1, <2>2, SMTT(30) DEF Seen
<1>6. \A t \in Callers \ {u} : Same(t)
  BY <1>0, <1>1, SMTT(30) DEF EnvTypes, Same
<1>7. QED
  BY <1>1, <1>2, <1>3, <1>4, <1>5, <1>6, EnvStep, SMTT(30)

LEMMA ChangeInv ==
  ASSUME E!EnvAssumption, EnvInv, NEW u \in Callers, req[u].op \notin {"var", "spawn"},
         NEW k \in E!Keys, NEW v \in Values \cup {Unset}, E!Change(u, k, v)
  PROVE  EnvInv'
<1>0. /\ Held(u) /\ Spawns(u) /\ Resolving(u) /\ Copies(u) /\ Seen(u)
      /\ EnvTypes /\ History /\ span[u] \in Nat \X Nat
      /\ hist \in Seq(Env) /\ Len(hist) \in Nat
  BY EnvFacts, Zenon
<1>1. /\ epc[u] = "held"
      /\ UNCHANGED <<seeded, req, eat, copy>>
      /\ map' = [map EXCEPT ![k] = v] /\ hist' = Append(hist, map')
      /\ owner' = Nobody
      /\ eout' = [eout EXCEPT ![u] = Unset]
      /\ span' = [span EXCEPT ![u] = <<span[u][1], Len(hist')>>]
      /\ dirs' = [dirs EXCEPT ![u] = <<>>]
      /\ epc' = [epc EXCEPT ![u] = "idle"]
  BY SMTT(30) DEF E!Change, E!Returns, E!Set
<1>2. map' \in Env
  BY <1>0, <1>1 DEF EnvTypes, Env
<1>3. /\ hist' \in Seq(Env) /\ Len(hist') = Len(hist) + 1 /\ hist'[Len(hist')] = map'
      /\ Grows
  BY <1>0, <1>1, <1>2 DEF Grows
<1>4. EnvTypes' /\ History'
  <2>1. EnvTypes'
    BY <1>0, <1>1, <1>2, <1>3, SMTT(30) DEF EnvTypes, E!PC
  <2>2. seeded'
    BY <1>0, <1>1, SMTT(30) DEF Held
  <2>3. QED
    BY <1>3, <2>1, <2>2, SMTT(30) DEF History
<1>5. /\ epc'[u] = "idle" /\ dirs'[u] = <<>> /\ owner = u
      /\ span'[u][1] = span[u][1] /\ span'[u][2] = Len(hist')
      /\ 1 <= span[u][1] /\ span[u][1] <= Len(hist)
  BY <1>0, <1>1, <1>3, SMTT(30) DEF EnvTypes, Held
<1>6. Held(u)' /\ Spawns(u)' /\ Resolving(u)' /\ Copies(u)' /\ Seen(u)'
  <2>1. span[u][1] <= Len(hist') /\ Len(hist') \in Nat
    BY <1>0, <1>3, <1>5
  <2>2. Held(u)' /\ Spawns(u)' /\ Resolving(u)' /\ Copies(u)'
    BY <1>0, <1>5, <2>1, Returned, Zenon
  <2>3. req'[u].op \notin {"var", "spawn"}
    BY <1>1
  <2>4. QED
    BY <2>2, <2>3, Zenon DEF Seen
<1>7. \A t \in Callers \ {u} : Same(t)
  BY <1>0, <1>1 DEF EnvTypes, Same
<1>8. QED
  BY <1>1, <1>3, <1>4, <1>5, <1>6, <1>7, EnvStep, SMTT(30)

LEMMA ReadPathInv ==
  ASSUME E!EnvAssumption, EnvInv, NEW u \in Callers, E!ReadPath(u)
  PROVE  EnvInv'
<1>0. /\ Held(u) /\ Spawns(u) /\ Resolving(u) /\ Copies(u) /\ Seen(u)
      /\ EnvTypes /\ History /\ Len(hist) \in Nat /\ span[u] \in Nat \X Nat
  BY EnvFacts, Zenon
<1>1. /\ epc[u] = "held" /\ req[u].op = "spawn" /\ owner' = Nobody
      /\ UNCHANGED <<map, seeded, req, copy, eout, hist, span>>
      /\ dirs' = [dirs EXCEPT ![u] = E!PathOf(map)]
      /\ eat' = [eat EXCEPT ![u] = 1]
      /\ epc' = [epc EXCEPT ![u] = "search"]
  BY DEF E!ReadPath, E!Set
<1>2. E!PathOf(map) \in Seq(STRING) \ {<<>>} /\ E!PathFor(req[u], map) = E!PathOf(map)
  <2>1. E!PathOf(map) \in Seq(STRING) \ {<<>>}
    BY <1>0, PathOfType, SMTT(30) DEF EnvTypes
  <2>2. ~req[u].slash
    BY <1>0, <1>1, Zenon DEF Spawns
  <2>3. QED
    BY <2>1, <2>2, Zenon DEF E!PathFor
<1>3. EnvTypes' /\ History' /\ Grows
  <2>1. EnvTypes'
    BY <1>0, <1>1, <1>2, SMTT(30) DEF EnvTypes, E!PC
  <2>2. QED
    BY <1>0, <1>1, <2>1, SMTT(30) DEF History, Grows
<1>4. /\ epc'[u] = "search" /\ dirs'[u] = E!PathOf(map) /\ eat'[u] = 1 /\ owner = u
      /\ hist[Len(hist)] = map /\ 1 <= span[u][1] /\ span[u][1] <= Len(hist)
  BY <1>0, <1>1 DEF EnvTypes, Held, History
<1>5. Held(u)' /\ Spawns(u)' /\ Copies(u)' /\ Seen(u)'
  BY <1>0, <1>1, <1>2, <1>4, Zenon DEF Held, Spawns, Copies, Seen
<1>6. Resolving(u)'
  <2>1. PathAt(u, Len(hist))' /\ Len(hist) \in 1..Len(hist')
    BY <1>0, <1>1, <1>2, <1>4 DEF PathAt, E!PathFor
  <2>2. Skipped(u, 1)' /\ 1 \in 1..Len(dirs'[u]) + 1
    BY <1>2, <1>4, SMTT(30) DEF Skipped
  <2>3. QED
    BY <1>1, <1>4, <2>1, <2>2, ZenonT(60) DEF Resolving
<1>7. \A t \in Callers \ {u} : Same(t)
  BY <1>0, <1>1 DEF EnvTypes, Same
<1>8. QED
  BY <1>1, <1>3, <1>4, <1>5, <1>6, <1>7, EnvStep, ZenonT(60)

LEMMA SearchInv ==
  ASSUME E!EnvAssumption, EnvInv, NEW u \in Callers, E!Search(u)
  PROVE  EnvInv'
<1>0. /\ Held(u) /\ Spawns(u) /\ Resolving(u) /\ Copies(u) /\ Seen(u)
      /\ EnvTypes /\ History /\ Len(hist) \in Nat /\ span[u] \in Nat \X Nat
      /\ dirs[u] \in Seq(STRING) /\ Len(dirs[u]) \in Nat /\ eat[u] \in Nat
  BY EnvFacts, Zenon
<1>1. epc[u] = "search" /\ UNCHANGED <<map, seeded, owner, req, copy, hist>>
  BY Zenon DEF E!Search
<1>2. /\ dirs[u] # <<>> /\ req[u].op = "spawn"
      /\ eat[u] \in 1..Len(dirs[u]) + 1 /\ Skipped(u, eat[u])
  BY <1>0, <1>1, SMTT(30) DEF Spawns, Resolving
<1>3. PICK i \in 1..Len(hist) : PathAt(u, i)
  BY <1>0, <1>2, SMTT(30) DEF Resolving
<1>4. Grows /\ (EnvTypes' => History')
  BY <1>0, <1>1 DEF Grows, History
<1>5. CASE eat[u] > Len(dirs[u]) /\ E!Returns(u, "NotFound", hist) /\ UNCHANGED eat
  <2>1. /\ eout' = [eout EXCEPT ![u] = "NotFound"]
        /\ span' = [span EXCEPT ![u] = <<span[u][1], Len(hist)>>]
        /\ dirs' = [dirs EXCEPT ![u] = <<>>]
        /\ epc' = [epc EXCEPT ![u] = "idle"]
        /\ UNCHANGED eat
    BY <1>5, SMTT(30) DEF E!Returns, E!Set
  <2>2. EnvTypes'
    BY <1>0, <1>1, <2>1, SMTT(30) DEF EnvTypes, E!PC
  <2>3. /\ epc'[u] = "idle" /\ dirs'[u] = <<>> /\ eout'[u] = "NotFound"
        /\ span'[u][1] = span[u][1] /\ span'[u][2] = Len(hist)
        /\ 1 <= span[u][1] /\ span[u][1] <= Len(hist)
    BY <1>0, <2>1, SMTT(30) DEF EnvTypes, Held
  <2>4. Held(u)' /\ Spawns(u)' /\ Resolving(u)' /\ Copies(u)'
    <3>1. Len(hist') = Len(hist)
      BY <1>1
    <3>2. QED
      BY <1>0, <2>3, <3>1, Returned, Zenon
  <2>5. E!Found(req[u], hist[i]) = "NotFound"
    <3>1. eat[u] - 1 = Len(dirs[u])
      BY <1>0, <1>2, <1>5, SMTT(30)
    <3>2. DOMAIN dirs[u] = 1..Len(dirs[u])
      BY <1>0
    <3>3. \A k \in DOMAIN dirs[u] : ~Good(dirs[u], k)
      BY <1>2, <3>1, <3>2, SMTT(30) DEF Skipped
    <3>4. QED
      BY <1>3, <3>3, FoundNone, SMTT(30) DEF PathAt
  <2>6. Seen(u)'
    <3>1. E!Sees(u, i, i)'
      BY <1>1, <1>2, <2>3, <2>5, ZenonT(60) DEF E!Sees, E!Found, E!PathFor, E!PathOf
    <3>2. i \in span'[u][1]..span'[u][2] /\ i <= i
      BY <1>0, <1>3, <2>3 DEF PathAt
    <3>3. QED
      BY <3>1, <3>2 DEF Seen
  <2>7. \A t \in Callers \ {u} : Same(t)
    BY <1>0, <1>1, <2>1, SMTT(30) DEF EnvTypes, Same
  <2>8. QED
    BY <1>1, <1>4, <2>2, <2>4, <2>6, <2>7, EnvStep, SMTT(30)
<1>6. CASE /\ eat[u] <= Len(dirs[u]) /\ dirs[u][eat[u]] \notin Bins \ {""}
           /\ eat' = E!Set(eat, u, eat[u] + 1)
           /\ UNCHANGED <<epc, eout, span, dirs>>
  <2>1. EnvTypes' /\ eat'[u] = eat[u] + 1
    <3>1. eat' = [eat EXCEPT ![u] = eat[u] + 1]
      BY <1>6, ZenonT(60) DEF E!Set
    <3>2. eat' \in [Callers -> Nat] /\ eat'[u] = eat[u] + 1
      BY <1>0, <3>1 DEF EnvTypes
    <3>3. QED
      BY <1>0, <1>1, <1>6, <3>2, Zenon DEF EnvTypes
  <2>2. Held(u)' /\ Spawns(u)' /\ Copies(u)' /\ Seen(u)'
    BY <1>0, <1>1, <1>6, Zenon DEF Held, Spawns, Copies, Seen
  <2>3. Resolving(u)'
    <3>1. PathAt(u, i)'
      BY <1>1, <1>3, <1>6, Zenon DEF PathAt, E!PathFor, E!PathOf
    <3>2. ASSUME NEW m \in 1..eat'[u] - 1 PROVE ~Good(dirs[u], m)
      <4>1. m \in 1..eat[u] - 1 \/ m = eat[u]
        BY <1>0, <2>1, <3>2
      <4>2. QED
        BY <1>2, <1>6, <4>1, ZenonT(60) DEF Skipped, Good
    <3>3. Skipped(u, eat[u])'
      BY <1>6, <3>2, ZenonT(60) DEF Skipped
    <3>4. eat'[u] \in 1..Len(dirs'[u]) + 1
      <4>1. /\ Len(dirs[u]) \in Nat /\ eat[u] \in Nat /\ eat[u] <= Len(dirs[u])
            /\ eat'[u] = eat[u] + 1 /\ dirs'[u] = dirs[u]
        BY <1>0, <1>6, <2>1, Zenon
      <4>2. QED
        BY ONLY <4>1, SMTT(30)
    <3>5. i \in 1..Len(hist')
      BY <1>1
    <3>6. QED
      BY <1>1, <1>6, <3>1, <3>3, <3>4, <3>5, ZenonT(60) DEF Resolving
  <2>4. \A t \in Callers \ {u} : Same(t)
    BY <1>0, <1>1, <1>6, ZenonT(60) DEF EnvTypes, Same, E!Set
  <2>5. QED
    BY <1>1, <1>4, <2>1, <2>2, <2>3, <2>4, EnvStep
<1>7. CASE /\ eat[u] <= Len(dirs[u]) /\ dirs[u][eat[u]] \in Bins \ {""}
           /\ epc' = E!Set(epc, u, "env")
           /\ UNCHANGED <<eat, eout, span, dirs>>
  <2>1. EnvTypes' /\ epc'[u] = "env"
    BY <1>0, <1>1, <1>7, Zenon DEF EnvTypes, E!Set, E!PC
  <2>2. Held(u)' /\ Spawns(u)' /\ Copies(u)' /\ Seen(u)'
    BY <1>0, <1>1, <1>2, <1>7, <2>1, Zenon DEF Held, Spawns, Copies, Seen
  <2>3. Resolving(u)'
    <3>1. PathAt(u, i)'
      BY <1>1, <1>3, <1>7, Zenon DEF PathAt, E!PathFor, E!PathOf
    <3>2. eat[u] \in DOMAIN dirs[u] /\ Good(dirs[u], eat[u])
      <4>1. /\ eat[u] \in 1..Len(dirs[u]) + 1 /\ eat[u] <= Len(dirs[u])
            /\ Len(dirs[u]) \in Nat
        BY <1>0, <1>2, <1>7, Zenon
      <4>2. eat[u] \in 1..Len(dirs[u])
        BY ONLY <4>1
      <4>3. DOMAIN dirs[u] = 1..Len(dirs[u])
        BY <1>0
      <4>4. QED
        BY <1>7, <4>2, <4>3, Zenon DEF Good
    <3>3. QED
      BY <1>1, <1>2, <1>7, <2>1, <3>1, <3>2, Zenon DEF Resolving, Skipped, Good
  <2>4. \A t \in Callers \ {u} : Same(t)
    BY <1>0, <1>1, <1>7, Zenon DEF EnvTypes, Same, E!Set
  <2>5. QED
    BY <1>1, <1>4, <2>1, <2>2, <2>3, <2>4, EnvStep, SMTT(30)
<1>8. QED
  BY <1>5, <1>6, <1>7, ZenonT(60) DEF E!Search

LEMMA BuildEnvInv ==
  ASSUME E!EnvAssumption, EnvInv, NEW u \in Callers, E!BuildEnv(u)
  PROVE  EnvInv'
<1>0. /\ Held(u) /\ Spawns(u) /\ Resolving(u) /\ Copies(u) /\ Seen(u)
      /\ EnvTypes /\ History /\ Len(hist) \in Nat /\ Len(hist) > 0
      /\ span[u] \in Nat \X Nat
  BY EnvFacts, Zenon
<1>1. epc[u] = "env" /\ UNCHANGED <<map, seeded, owner, req, dirs, hist, span>>
  BY DEF E!BuildEnv
<1>2. /\ eout' = [eout EXCEPT ![u] = dirs[u][eat[u]]]
      /\ copy' = [copy EXCEPT ![u] = E!Empty]
      /\ eat' = [eat EXCEPT ![u] = 1]
      /\ epc' = [epc EXCEPT ![u] = IF req[u].clear THEN "ops" ELSE "map"]
  BY DEF E!BuildEnv, E!Set
<1>3. EnvTypes' /\ \A t \in Callers \ {u} : Same(t)
  <2>1. E!Empty \in Env
    BY SMTT(30) DEF E!Empty, Env
  <2>2. EnvTypes'
    BY <1>0, <1>1, <1>2, <2>1, SMTT(30) DEF EnvTypes, E!PC
  <2>3. QED
    BY <1>0, <1>1, <1>2, <2>2, SMTT(30) DEF EnvTypes, Same
<1>4. Grows /\ History'
  BY <1>0, <1>1, SMTT(30) DEF Grows, History
<1>5. /\ dirs[u] # <<>> /\ req[u].op = "spawn" /\ req[u] \in Requests
      /\ eat[u] \in DOMAIN dirs[u] /\ Good(dirs[u], eat[u]) /\ Skipped(u, eat[u])
  BY <1>0, <1>1, SMTT(30) DEF Held, Spawns, Resolving
<1>6. req[u].clear \in BOOLEAN
  BY <1>5, RequestFields, SMTT(30)
<1>7. /\ epc'[u] = IF req[u].clear THEN "ops" ELSE "map"
      /\ eout'[u] = dirs[u][eat[u]] /\ copy'[u] = E!Empty /\ eat'[u] = 1
  BY <1>0, <1>2, SMTT(30) DEF EnvTypes
<1>8. epc'[u] \in {"ops", "map"}
  BY <1>6, <1>7
<1>9. Held(u)' /\ Spawns(u)' /\ Seen(u)'
  <2>1. Held(u)'
    BY <1>0, <1>1, <1>5, <1>8, SMTT(30) DEF Held
  <2>2. QED
    BY <1>1, <1>5, <1>8, <2>1, ZenonT(60) DEF Spawns, Seen
<1>10. PICK i \in 1..Len(hist) : PathAt(u, i)
  BY <1>0, <1>5, ZenonT(60) DEF Resolving
<1>11. i \in 1..Len(hist') /\ PathAt(u, i)'
  BY <1>1, <1>10, ZenonT(60) DEF PathAt, E!PathFor, E!PathOf
<1>12. Resolving(u)'
  <2>1. Program(u)'
    BY <1>1, <1>5, <1>7, ZenonT(60) DEF Program, Skipped, Good
  <2>2. QED
    BY <1>8, <1>11, <2>1, ZenonT(60) DEF Resolving
<1>13. Copies(u)'
  <2>1. CASE req[u].clear
    <3>1. Inherited(u)' = E!Inherits(req[u], hist[Len(hist)])'
      <4>1. req'[u] = req[u] /\ copy'[u] = E!Empty
        BY <1>1, <1>7
      <4>2. \A k \in E!Keys : E!Empty[k] = Unset
        BY DEF E!Empty
      <4>3. QED
        BY <2>1, <4>1, <4>2, ZenonT(60) DEF Inherited, E!Inherits
    <3>2. hist' = hist /\ Len(hist) \in 1..Len(hist) /\ i <= Len(hist)
      <4>1. hist' = hist
        BY <1>1
      <4>2. QED
        BY <1>0, <1>10, <4>1, SMTT(30)
    <3>3. epc'[u] = "ops" /\ req'[u] = req[u]
      BY <1>1, <1>7, <2>1
    <3>4. QED
      BY <1>11, <3>1, <3>2, <3>3, ZenonT(60) DEF Copies
  <2>2. CASE ~req[u].clear
    BY <1>1, <1>7, <2>2, SMTT(30) DEF Copies
  <2>3. QED
    BY <1>6, <2>1, <2>2
<1>14. QED
  BY <1>1, <1>3, <1>4, <1>9, <1>12, <1>13, EnvStep, ZenonT(60)

LEMMA VarsInv ==
  ASSUME E!EnvAssumption, EnvInv, NEW u \in Callers, E!Vars(u)
  PROVE  EnvInv'
<1>0. /\ Held(u) /\ Spawns(u) /\ Resolving(u) /\ Copies(u) /\ Seen(u)
      /\ EnvTypes /\ History /\ Len(hist) \in Nat /\ Len(hist) > 0
      /\ span[u] \in Nat \X Nat /\ eat[u] \in Nat /\ copy[u] \in Env /\ map \in Env
      /\ Len(KeyOrder) \in Nat /\ DOMAIN KeyOrder = 1..Len(KeyOrder)
  BY EnvFacts, Zenon
<1>1. epc[u] = "vars" /\ UNCHANGED <<map, seeded, req, dirs, eout, hist, span>>
  BY DEF E!Vars
<1>2. /\ owner = u /\ seeded /\ hist[Len(hist)] = map
      /\ dirs[u] # <<>> /\ req[u].op = "spawn" /\ Program(u)
      /\ ~req[u].clear /\ eat[u] \in 1..Len(KeyOrder) + 1
      /\ \A n \in 1..eat[u] - 1 : copy[u][KeyOrder[n]] = map[KeyOrder[n]]
  <2>1. owner = u /\ seeded
    BY <1>0, <1>1, Zenon DEF Held
  <2>2. hist[Len(hist)] = map
    BY <1>0, <2>1, Zenon DEF History
  <2>3. dirs[u] # <<>> /\ req[u].op = "spawn"
    BY <1>0, <1>1, Zenon DEF Spawns
  <2>4. Program(u)
    BY <1>0, <1>1, <2>3, Zenon DEF Resolving
  <2>5. /\ ~req[u].clear /\ eat[u] \in 1..Len(KeyOrder) + 1
        /\ \A n \in 1..eat[u] - 1 : copy[u][KeyOrder[n]] = map[KeyOrder[n]]
    BY <1>0, <1>1, Zenon DEF Copies
  <2>6. QED
    BY <2>1, <2>2, <2>3, <2>4, <2>5
<1>3. PICK i \in 1..Len(hist) : PathAt(u, i)
  BY <1>0, <1>2, Zenon DEF Resolving
<1>4. i \in 1..Len(hist') /\ PathAt(u, i)'
  BY <1>1, <1>3, SMTT(30) DEF PathAt, E!PathFor, E!PathOf
<1>5. Grows /\ History'
  BY <1>0, <1>1, SMTT(30) DEF Grows, History
<1>6. CASE eat[u] <= Len(KeyOrder)
  <2> DEFINE k == KeyOrder[eat[u]]
  <2>1. eat[u] \in DOMAIN KeyOrder /\ k \in E!Keys
    BY <1>0, <1>2, <1>6, SMTT(30) DEF E!Keys
  <2>2. /\ copy' = [copy EXCEPT ![u][k] = map[k]]
        /\ eat' = [eat EXCEPT ![u] = eat[u] + 1]
        /\ UNCHANGED <<epc, owner>>
    BY <1>6, SMTT(30) DEF E!Vars, E!Set
  <2> HIDE DEF k
  <2>3. /\ copy'[u] = [copy[u] EXCEPT ![k] = map[k]] /\ copy'[u] \in Env
        /\ copy' \in [Callers -> Env]
    BY <1>0, <2>1, <2>2, SMTT(30) DEF EnvTypes, Env
  <2>4. eat'[u] = eat[u] + 1 /\ eat' \in [Callers -> Nat]
    BY <1>0, <2>2, SMTT(30) DEF EnvTypes
  <2>5. EnvTypes'
    BY <1>0, <1>1, <2>2, <2>3, <2>4, SMTT(30) DEF EnvTypes
  <2>6. Held(u)' /\ Spawns(u)' /\ Seen(u)'
    BY <1>0, <1>1, <2>2, SMTT(30) DEF Held, Spawns, Seen
  <2>7. Resolving(u)'
    <3>1. Program(u)'
      BY <1>1, <1>2, <2>2, ZenonT(60) DEF Program, Skipped, Good
    <3>2. QED
      BY <1>1, <1>4, <2>2, <3>1 DEF Resolving
  <2>8. Copies(u)'
    <3>1. ASSUME NEW n \in 1..eat'[u] - 1 PROVE copy'[u][KeyOrder[n]] = map[KeyOrder[n]]
      <4>0. eat[u] \in Nat /\ eat'[u] = eat[u] + 1
        BY <1>0, <2>4, Zenon
      <4>1. n \in 1..eat[u] - 1 \/ n = eat[u]
        BY ONLY <3>1, <4>0
      <4>2. KeyOrder[n] \in E!Keys /\ (n = eat[u] => KeyOrder[n] = k)
        <5>1. n \in DOMAIN KeyOrder
          BY <1>0, <1>6, <4>1, SMTT(30)
        <5>2. QED
          BY <5>1, SMTT(30) DEF E!Keys, k
      <4>3. KeyOrder[n] = k \/ copy[u][KeyOrder[n]] = map[KeyOrder[n]]
        BY <1>2, <4>1, <4>2, SMTT(30)
      <4>4. copy[u] \in [E!Keys -> Values \cup {Unset}]
        BY <1>0, Zenon DEF Env
      <4>5. QED
        BY ONLY <2>3, <4>2, <4>3, <4>4
    <3>2. eat'[u] \in 1..Len(KeyOrder) + 1
      BY <1>0, <1>6, <2>4, SMTT(30)
    <3>3. QED
      BY <1>1, <1>2, <2>2, <3>1, <3>2, SMTT(30) DEF Copies
  <2>9. \A t \in Callers \ {u} : Same(t)
    BY <1>0, <1>1, <2>2 DEF EnvTypes, Same
  <2>10. QED
    BY <1>1, <1>2, <1>5, <2>2, <2>5, <2>6, <2>7, <2>8, <2>9, EnvStep, SMTT(30)
<1>7. CASE ~(eat[u] <= Len(KeyOrder))
  <2>1. /\ epc' = [epc EXCEPT ![u] = "ops"] /\ owner' = Nobody
        /\ UNCHANGED <<copy, eat>>
    BY <1>7, SMTT(30) DEF E!Vars, E!Set
  <2>2. EnvTypes' /\ epc'[u] = "ops"
    BY <1>0, <1>1, <2>1, SMTT(30) DEF EnvTypes, E!PC
  <2>3. Held(u)' /\ Spawns(u)' /\ Seen(u)'
    BY <1>0, <1>1, <1>2, <2>1, <2>2, SMTT(30) DEF Held, Spawns, Seen
  <2>4. Resolving(u)'
    <3>1. Program(u)'
      BY <1>1, <1>2, <2>1, ZenonT(60) DEF Program, Skipped, Good
    <3>2. QED
      BY <1>1, <1>4, <2>2, <3>1 DEF Resolving
  <2>5. Copies(u)'
    <3>1. eat[u] - 1 = Len(KeyOrder)
      BY <1>0, <1>2, <1>7, SMTT(30)
    <3>2. \A k \in E!Keys : copy[u][k] = map[k]
      BY <1>0, <1>2, <3>1, SMTT(30) DEF E!Keys
    <3>3. Inherited(u)' = E!Inherits(req[u], hist[Len(hist)])'
      BY <1>1, <1>2, <2>1, <3>2, SMTT(30) DEF Inherited, E!Inherits
    <3>4. Len(hist) \in 1..Len(hist') /\ i <= Len(hist)
      BY <1>0, <1>1, <1>3, SMTT(30)
    <3>5. i \in 1..Len(hist')
      BY <1>4, Zenon
    <3>6. \E k, l \in 1..Len(hist') :
            k <= l /\ PathAt(u, k)' /\ Inherited(u)' = E!Inherits(req[u], hist[l])'
      BY <1>1, <1>4, <3>3, <3>4, <3>5, ZenonT(60)
    <3>7. QED
      BY <2>2, <3>6, Zenon DEF Copies
  <2>6. \A t \in Callers \ {u} : Same(t)
    BY <1>0, <1>1, <2>1, SMTT(30) DEF EnvTypes, Same
  <2>7. QED
    BY <1>1, <1>2, <1>5, <2>2, <2>3, <2>4, <2>5, <2>6, EnvStep, ZenonT(60)
<1>8. QED
  BY <1>6, <1>7, SMTT(30)

LEMMA EnvOpsInv ==
  ASSUME E!EnvAssumption, EnvInv, NEW u \in Callers, E!EnvOps(u)
  PROVE  EnvInv'
<1>0. /\ Held(u) /\ Spawns(u) /\ Resolving(u) /\ Copies(u) /\ Seen(u)
      /\ EnvTypes /\ History /\ Len(hist) \in Nat
      /\ span[u] \in Nat \X Nat /\ dirs[u] \in Seq(STRING)
  BY EnvFacts, Zenon
<1>1. /\ epc[u] = "ops" /\ UNCHANGED <<map, seeded, owner, req, eat, copy, hist>>
      /\ eout' = [eout EXCEPT ![u] = <<eout[u], E!Passed(Inherited(u))>>]
      /\ span' = [span EXCEPT ![u] = <<span[u][1], Len(hist)>>]
      /\ dirs' = [dirs EXCEPT ![u] = <<>>]
      /\ epc' = [epc EXCEPT ![u] = "idle"]
  BY SMTT(30) DEF E!EnvOps, E!Returns, E!Set, Inherited
<1>2. EnvTypes'
  BY <1>0, <1>1, SMTT(30) DEF EnvTypes, E!PC
<1>3. Grows /\ History'
  BY <1>0, <1>1, SMTT(30) DEF Grows, History
<1>4. /\ epc'[u] = "idle" /\ dirs'[u] = <<>> /\ eout'[u] = <<eout[u], E!Passed(Inherited(u))>>
      /\ span'[u][1] = span[u][1] /\ span'[u][2] = Len(hist)
      /\ 1 <= span[u][1] /\ span[u][1] <= Len(hist)
  BY <1>0, <1>1, SMTT(30) DEF EnvTypes, Held
<1>5. dirs[u] # <<>> /\ req[u].op = "spawn" /\ Program(u)
  BY <1>0, <1>1, SMTT(30) DEF Spawns, Resolving
<1>6. Held(u)' /\ Spawns(u)' /\ Resolving(u)' /\ Copies(u)'
  <2>1. Len(hist') = Len(hist)
    BY <1>1
  <2>2. QED
    BY <1>0, <1>4, <2>1, Returned, Zenon
<1>7. PICK i \in 1..Len(hist), j \in 1..Len(hist) :
        i <= j /\ PathAt(u, i) /\ Inherited(u) = E!Inherits(req[u], hist[j])
  BY <1>0, <1>1, ZenonT(60) DEF Copies
<1>8. Seen(u)'
  <2>1. PICK n \in DOMAIN dirs[u] : Good(dirs[u], n) /\ Skipped(u, n) /\ eout[u] = dirs[u][n]
    BY <1>5 DEF Program
  <2>2. E!Found(req[u], hist[i]) = eout[u] /\ E!Found(req[u], hist[i]) # "NotFound"
    <3>1. dirs[u] = E!PathFor(req[u], hist[i]) /\ \A k \in 1..n - 1 : ~Good(dirs[u], k)
      BY <1>7, <2>1, ZenonT(60) DEF PathAt, Skipped
    <3>2. QED
      BY <1>0, <2>1, <3>1, FoundFirst, ZenonT(60)
  <2>3. E!Sees(u, i, j)'
    <3>1. /\ E!Found(req[u], hist[i])' = eout[u]
          /\ E!Passed(E!Inherits(req[u], hist[j]))' = E!Passed(Inherited(u))
      BY <1>1, <1>7, <2>2, ZenonT(60) DEF E!Found, E!Inherits, E!Passed, E!PathFor, E!PathOf
    <3>2. req'[u].op = "spawn"
      BY <1>1, <1>5
    <3>3. E!Sees(u, i, j)' <=>
            eout'[u] = <<E!Found(req[u], hist[i])', E!Passed(E!Inherits(req[u], hist[j]))'>>
      BY <1>1, <2>2, <3>1, <3>2 DEF E!Sees
    <3>4. QED
      BY <1>4, <3>1, <3>3
  <2>4. i \in span'[u][1]..span'[u][2] /\ j \in span'[u][1]..span'[u][2]
    BY <1>0, <1>4, <1>7, SMTT(30) DEF PathAt
  <2>5. QED
    BY <1>7, <2>3, <2>4, ZenonT(60) DEF Seen
<1>9. \A t \in Callers \ {u} : Same(t)
  BY <1>0, <1>1, SMTT(30) DEF EnvTypes, Same
<1>10. QED
  BY <1>1, <1>2, <1>3, <1>6, <1>8, <1>9, EnvStep, SMTT(30)

(* So does every step.                                                     *)
LEMMA EnvNextInv ==
  ASSUME E!EnvAssumption, EnvInv, [E!Next]_E!vars
  PROVE  EnvInv'
<1>1. CASE UNCHANGED E!vars
  <2>1. UNCHANGED <<map, seeded, owner, epc, req, eat, copy, dirs, eout, hist, span>>
    BY <1>1, SMTT(30) DEF E!vars
  <2>2. EnvTypes' /\ History' /\ Grows
    BY <2>1 DEF EnvInv, EnvTypes, History, Grows
  <2>3. ASSUME NEW t \in Callers PROVE Stage(t)'
    <3>1. Same(t)
      BY <2>1 DEF Same
    <3>2. QED
      BY <2>1, <2>2, <3>1, SameStage, ZenonT(60) DEF EnvInv
  <2>4. QED
    BY <2>2, <2>3 DEF EnvInv
<1>2. ASSUME NEW t \in Callers, E!SetVar(t) \/ E!RemoveVar(t) PROVE EnvInv'
  <2>1. req[t] \in Requests
    <3>1. epc[t] = "held"
      BY <1>2, Zenon DEF E!SetVar, E!RemoveVar, E!Change
    <3>2. QED
      BY <1>2, <3>1, EnvFacts, Zenon DEF Held
  <2>2. CASE E!SetVar(t)
    BY <2>1, <2>2, RequestFields, ChangeInv, SMTT(30) DEF E!SetVar
  <2>3. CASE E!RemoveVar(t)
    BY <2>1, <2>3, RequestFields, ChangeInv DEF E!RemoveVar
  <2>4. QED
    BY <1>2, <2>2, <2>3, Zenon
<1>3. QED
  BY <1>1, <1>2, CallInv, TakeProgramInv, EnvMapInv, LockInv, VarInv, ReadPathInv, SearchInv, BuildEnvInv,
     VarsInv, EnvOpsInv DEF E!Next

(* env::var and Command::spawn each see the environment of one moment of   *)
(* the call, and a child's environment is no older than the PATH its       *)
(* program was found in, for any number of threads, variables and changes. *)
THEOREM OneMomentHolds ==
  ASSUME E!EnvAssumption
  PROVE  E!Spec => []OneMoment
<1>1. EnvInv => OneMoment
  BY DEF EnvInv, Stage, Seen, OneMoment, E!OneMoment
<1>2. QED
  BY <1>1, EnvInitInv, EnvNextInv, PTL DEF E!Spec
=============================================================================
