------------------------------ MODULE HashSet ------------------------------
(***************************************************************************)
(* collections::HashSet, a HashMap from its elements to (), and what it    *)
(* computes from two of them: the set at hand and `other`, which the       *)
(* program may swap.                                                       *)
(***************************************************************************)
EXTENDS HashMap, Functions

VARIABLE other       \* another set of the same hasher: [slots, len, used]

setVars == <<hash, slots, len, used, call, out, other>>

Unit == CHOOSE v \in Values : TRUE

SetInit ==
  /\ Init
  /\ other = [slots |-> <<>>, len |-> 0, used |-> 0]

Swap ==
  /\ call = None
  /\ slots' = other.slots /\ len' = other.len /\ used' = other.used
  /\ other' = [slots |-> slots, len |-> len, used |-> used]
  /\ UNCHANGED <<hash, call, out>>

(* insert, contains, remove, retain and clear are those of the map.        *)
SetNext ==
  \/ \E k \in Keys : (Insert(k, Unit) \/ Get(k) \/ Remove(k)) /\ UNCHANGED other
  \/ \E keep \in SUBSET Keys : Retain(keep) /\ UNCHANGED other
  \/ (Clear \/ Return) /\ UNCHANGED other
  \/ Swap

SetSpec == SetInit /\ [][SetNext]_setVars

-----------------------------------------------------------------------------
(* Iter::next until it returns None; Keys::next the same.                  *)
Iter(s) == SelectSeq(s, LAMBDA slot : slot.tag = "Full")
KeysOf(s) == LET full == Iter(s) IN [i \in DOMAIN full |-> full[i].key]

Member(s, k) == Value(s, k) # None

(* get: the element that iteration finds, if contains says that there is   *)
(* one.                                                                    *)
ElementOf(s, k) ==
  IF Member(s, k) /\ k \in Range(KeysOf(s)) THEN k ELSE None

IsDisjoint(s, t) == \A k \in Range(KeysOf(s)) : ~Member(t, k)
IsSubset(s, t) == \A k \in Range(KeysOf(s)) : Member(t, k)
IsSuperset(s, t) == IsSubset(t, s)
Intersection(s, t) == SelectSeq(KeysOf(s), LAMBDA k : Member(t, k))
Difference(s, t) == SelectSeq(KeysOf(s), LAMBDA k : ~Member(t, k))
Union(s, t) == KeysOf(s) \o Difference(t, s)

-----------------------------------------------------------------------------
(* The elements e, each exactly once.                                      *)
Lists(seq, e) == Range(seq) = e /\ Len(seq) = Cardinality(e)

(* What iteration yields and what a probe finds are the same set, through  *)
(* collisions, tombstones and growth, so that the operations that mix the  *)
(* two compute what their names say, each element once.                    *)
SetAlgebra ==
  LET s == slots
      t == other.slots
      a == Range(KeysOf(s))
      b == Range(KeysOf(t))
  IN  /\ Lists(KeysOf(s), a) /\ len = Cardinality(a)
      /\ \A k \in Keys : ElementOf(s, k) = IF k \in a THEN k ELSE None
      /\ Lists(Intersection(s, t), a \cap b)
      /\ Lists(Difference(s, t), a \ b)
      /\ Lists(Union(s, t), a \cup b)
      /\ IsDisjoint(s, t) <=> a \cap b = {}
      /\ IsSubset(s, t) <=> a \subseteq b
      /\ IsSuperset(s, t) <=> b \subseteq a
=============================================================================
