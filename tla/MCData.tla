------------------------------- MODULE MCData -------------------------------
(***************************************************************************)
(* The data structures, side by side: HashMap, HashSet, the hasher they    *)
(* use, and Allocator.  A behaviour is a behaviour of the one that `unit`  *)
(* names, while the others rest in an initial state.                       *)
(***************************************************************************)
EXTENDS Naturals

CONSTANTS Keys, Values, None, Hashes, MinCap, MaxCap,         \* see HashMap
          SetCap,                                             \* MaxCap of HashSet
          Threads, Null, Junk, NumClasses, GRAN, ARENA,       \* see Allocator
          MemSize, MaxLive,
          Nobody, B, LEN, KEYS, MaxMsg                        \* see SipHasher

VARIABLES unit,
          hash, slots, len, used, call, out, other,
          lock, free, mem, mapped, pc, layout, blk, live,
          keys, filler, off, msg, spc, key, v, slen, tail, ntail, at, digest

(* A block of each small class (the larger one for its alignment), and a   *)
(* large layout.                                                           *)
Layouts == {<<1, 1>>, <<1, 2>>, <<3, 1>>}

H == INSTANCE HashMap
MapOnly == INSTANCE HashMap WITH slots <- IF unit = "map" THEN slots ELSE <<>>,
                                call <- IF unit = "map" THEN call ELSE None,
                                out <- IF unit = "map" THEN out ELSE None
E == INSTANCE HashSet WITH Values <- {Null}, MaxCap <- SetCap
A == INSTANCE Allocator
S == INSTANCE SipHasher WITH pc <- spc, len <- slen, out <- digest

ASSUME DataAssumption ==
  H!HashMapAssumption /\ E!HashMapAssumption /\ A!AllocatorAssumption /\ S!SipHasherAssumption

mapVars == <<hash, slots, len, used, call, out, other>>
allocVars == <<lock, free, mem, mapped, pc, layout, blk, live>>
sipVars == <<keys, filler, off, msg, spc, key, v, slen, tail, ntail, at, digest>>
vars == <<unit, mapVars, allocVars, sipVars>>

Init ==
  /\ unit \in {"map", "set", "hasher", "allocator"}
  /\ unit # "map" => slots = <<>>
  /\ unit \notin {"map", "set"} => hash = CHOOSE h \in [Keys -> Hashes] : TRUE
  /\ unit # "hasher" => msg = <<>>
  /\ H!Init /\ E!SetInit /\ A!Init /\ S!Init

Next ==
  /\ \/ unit = "map" /\ H!Next /\ UNCHANGED <<other, allocVars, sipVars>>
     \/ unit = "set" /\ E!SetNext /\ UNCHANGED <<allocVars, sipVars>>
     \/ unit = "allocator" /\ A!Next /\ UNCHANGED <<mapVars, sipVars>>
     \/ unit = "hasher" /\ S!Next /\ UNCHANGED <<mapVars, allocVars>>
  /\ UNCHANGED unit

Spec == Init /\ [][Next]_vars

-----------------------------------------------------------------------------
(* HashMap, HashSet: every probe ends at an Empty slot, the counters       *)
(* count, and the operations on two sets list each element once.           *)
TablesSound == H!RoomToProbe /\ (unit = "set" => E!SetAlgebra)

(* HashMap: each call changes and returns what the abstract map says.      *)
ImplementsMap == MapOnly!ImplementsMap

(* Allocator: memory is handed out once, fits its layout, and none gets    *)
(* lost.                                                                   *)
BlocksSound == A!BlocksSound

(* SipHasher: one hash for a key, however it is cut into writes and        *)
(* whichever thread hashes it.                                             *)
OneHash == S!OneHash
=============================================================================
