-------------------------------- MODULE Map --------------------------------
(***************************************************************************)
(* What HashMap promises: a partial function from keys to values, and what *)
(* each call, with its arguments, does to it and returns.                  *)
(***************************************************************************)
CONSTANTS Keys, Values,
          None        \* no value, no call

VARIABLES map,        \* the value of each key, or None
          call,       \* the call that was made, and its arguments
          out         \* what it returned

mapVars == <<map, call, out>>

MapInit ==
  /\ map = [k \in Keys |-> None]
  /\ call = None /\ out = None

(* A call, made when the one before has returned.                          *)
MapCalls(c) == call = None /\ call' = c

MapReturn == call # None /\ call' = None /\ out' = None /\ UNCHANGED map

(* insert(k, v) returns the value it replaces.                             *)
MapInsert(k, v) ==
  /\ MapCalls(<<"insert", k, v>>)
  /\ map' = [map EXCEPT ![k] = v]
  /\ out' = map[k]

(* get(k)                                                                  *)
MapGet(k) ==
  /\ MapCalls(<<"get", k>>)
  /\ out' = map[k]
  /\ UNCHANGED map

(* remove(k) returns the value it removes.                                 *)
MapRemove(k) ==
  /\ MapCalls(<<"remove", k>>)
  /\ map' = [map EXCEPT ![k] = None]
  /\ out' = map[k]

(* Writing v through get_mut(k), or in entry(k).and_modify.                *)
MapModify(k, v) ==
  /\ \E op \in {"get_mut", "and_modify"} : MapCalls(<<op, k, v>>)
  /\ map' = [map EXCEPT ![k] = IF @ = None THEN None ELSE v]
  /\ out' = map[k]

(* entry(k).or_insert(v) returns a reference to the value that is there.   *)
MapOrInsert(k, v) ==
  /\ MapCalls(<<"or_insert", k, v>>)
  /\ map' = [map EXCEPT ![k] = IF @ = None THEN v ELSE @]
  /\ out' = map'[k]

(* retain keeps the keys of `keep`; clear keeps none.                      *)
MapRetain(keep) ==
  /\ MapCalls(<<"retain", keep>>) \/ (keep = {} /\ MapCalls(<<"clear">>))
  /\ map' = [k \in Keys |-> IF k \in keep THEN map[k] ELSE None]
  /\ out' = None

MapNext ==
  \/ \E k \in Keys : MapGet(k) \/ MapRemove(k)
  \/ \E k \in Keys, v \in Values : MapInsert(k, v) \/ MapModify(k, v) \/ MapOrInsert(k, v)
  \/ \E keep \in SUBSET Keys : MapRetain(keep)
  \/ MapReturn

MapSpec == MapInit /\ [][MapNext]_mapVars
=============================================================================
