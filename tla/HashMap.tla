------------------------------ MODULE HashMap ------------------------------
(***************************************************************************)
(* collections::HashMap: open addressing with linear probing and           *)
(* tombstones.  Slot i of the code is slots[i + 1].  The hasher is any     *)
(* function from keys to Hashes, drawn once; a Full slot stores its key    *)
(* and value (the stored hash is hash[key]).                               *)
(***************************************************************************)
EXTENDS Naturals, Sequences, FiniteSets, FiniteSetsExt
LOCAL S == INSTANCE SequencesExt

CONSTANTS Keys, Values,
          None,        \* no value, no call
          Hashes,      \* the hash values that occur
          MinCap,      \* the smallest table (8)
          MaxCap       \* bound: the largest table

(* Tables have a power of two of slots, so that `& mask` is `% cap`.       *)
HashMapAssumption ==
  /\ None \notin Values
  /\ Hashes \subseteq Nat
  /\ MinCap \in {2, 4, 8} /\ MaxCap \in {2, 4, 8, 16, 32}

VARIABLES hash,        \* hash_one(hash_builder, key)
          slots,       \* HashMap::slots
          len, used,   \* HashMap::len, used
          call,        \* the call that was made, and its arguments
          out          \* what it returned

vars == <<hash, slots, len, used, call, out>>

Empty == [tag |-> "Empty"]
Tombstone == [tag |-> "Tombstone"]
Full(k, v) == [tag |-> "Full", key |-> k, value |-> v]

Holds(slot, k) == slot.tag = "Full" /\ slot.key = k

EmptySlots(cap) == [i \in 1..cap |-> Empty]

(* capacity_for(items)                                                     *)
CapacityFor(items) ==
  Min({c \in {MinCap * 2^j : j \in 0..items} : items * 8 < c * 7})

TypeOK ==
  /\ hash \in [Keys -> Hashes]
  /\ \A i \in DOMAIN slots :
       slots[i] \in {Empty, Tombstone} \cup {Full(k, v) : k \in Keys, v \in Values}
  /\ len \in Nat /\ used \in Nat
  /\ out \in Values \cup {None}

(* with_hasher, and with_capacity_and_hasher(n).                           *)
Init ==
  /\ hash \in [Keys -> Hashes]
  /\ slots \in {<<>>} \cup
       {EmptySlots(CapacityFor(n)) : n \in {m \in 1..MaxCap : CapacityFor(m) <= MaxCap}}
  /\ len = 0 /\ used = 0
  /\ call = None /\ out = None

-----------------------------------------------------------------------------
(* The n-th slot that a probe for k in table s looks at.                   *)
Nth(s, k, n) == ((hash[k] + n) % Len(s)) + 1

(* How far a probe for k goes: to k itself or to an Empty slot.            *)
Reach(s, k) ==
  Min({n \in 0 .. Len(s) - 1 : Holds(s[Nth(s, k, n)], k) \/ s[Nth(s, k, n)] = Empty})

(* probe: is k there, and where it is or would be inserted (the first      *)
(* Tombstone on the way, else the Empty slot at its end).                  *)
Found(s, k) == Holds(s[Nth(s, k, Reach(s, k))], k)

ProbeIndex(s, k) ==
  LET tombs == {n \in 0 .. Reach(s, k) - 1 : s[Nth(s, k, n)] = Tombstone}
  IN  IF Found(s, k) \/ tombs = {} THEN Nth(s, k, Reach(s, k)) ELSE Nth(s, k, Min(tombs))

(* grow_to: put one old slot into the first Empty slot on its way.         *)
Reinsert(s, slot) ==
  IF slot.tag = "Full"
  THEN LET n == Min({i \in 0 .. Len(s) - 1 : s[Nth(s, slot.key, i)] = Empty})
       IN  [s EXCEPT ![Nth(s, slot.key, n)] = slot]
  ELSE s

GrowTo(cap) == S!FoldLeft(Reinsert, EmptySlots(cap), slots)

GrowsWhenFull ==
  IF Len(slots) = 0 THEN MinCap
  ELSE IF used >= Len(slots) THEN 2 * Len(slots)
  ELSE Len(slots)

(* ensure_capacity: the capacity it leaves ...                             *)
NeededCap ==
  IF Len(slots) = 0 THEN MinCap
  ELSE IF (used + 1) * 8 >= Len(slots) * 7 THEN 2 * Len(slots)
  ELSE Len(slots)

(* ... the table, and `used`, which a new table resets to `len`.           *)
Ensured == IF NeededCap = Len(slots) THEN slots ELSE GrowTo(NeededCap)
EnsuredUsed == IF NeededCap = Len(slots) THEN used ELSE len

Value(s, k) == IF s # <<>> /\ Found(s, k) THEN s[ProbeIndex(s, k)].value ELSE None

(* Fill the slot that probe chose for the absent key k.                    *)
Put(s, u, k, v) ==
  /\ slots' = [s EXCEPT ![ProbeIndex(s, k)] = Full(k, v)]
  /\ used' = IF s[ProbeIndex(s, k)] = Empty THEN u + 1 ELSE u
  /\ len' = len + 1

-----------------------------------------------------------------------------
(* A call is made when the one before has returned.                        *)
Calls(c) == call = None /\ call' = c

Return ==
  /\ call # None /\ call' = None /\ out' = None
  /\ UNCHANGED <<hash, slots, len, used>>

(* insert: replace the value, or fill the slot.                            *)
Insert(k, v) ==
  LET s == Ensured
  IN  /\ Calls(<<"insert", k, v>>)
      /\ NeededCap <= MaxCap
      /\ IF Found(s, k)
         THEN /\ slots' = [s EXCEPT ![ProbeIndex(s, k)].value = v]
              /\ used' = EnsuredUsed
              /\ UNCHANGED len
         ELSE Put(s, EnsuredUsed, k, v)
      /\ out' = Value(s, k)
      /\ UNCHANGED hash

(* entry(k).or_insert(v)                                                   *)
OrInsert(k, v) ==
  LET s == Ensured
  IN  /\ Calls(<<"or_insert", k, v>>)
      /\ NeededCap <= MaxCap
      /\ IF Found(s, k)
         THEN slots' = s /\ used' = EnsuredUsed /\ UNCHANGED len
         ELSE Put(s, EnsuredUsed, k, v)
      /\ out' = IF Found(s, k) THEN Value(s, k) ELSE v
      /\ UNCHANGED hash

(* entry(k).and_modify(|x| *x = v), the entry dropped.                     *)
AndModify(k, v) ==
  LET s == Ensured
  IN  /\ Calls(<<"and_modify", k, v>>)
      /\ NeededCap <= MaxCap
      /\ slots' = IF Found(s, k) THEN [s EXCEPT ![ProbeIndex(s, k)].value = v] ELSE s
      /\ used' = EnsuredUsed
      /\ out' = Value(s, k)
      /\ UNCHANGED <<hash, len>>

(* get, contains_key, index                                                *)
Get(k) ==
  /\ Calls(<<"get", k>>)
  /\ out' = Value(slots, k)
  /\ UNCHANGED <<hash, slots, len, used>>

(* *get_mut(k) = v                                                         *)
GetMut(k, v) ==
  /\ Calls(<<"get_mut", k, v>>)
  /\ out' = Value(slots, k)
  /\ slots' = IF Value(slots, k) = None
              THEN slots ELSE [slots EXCEPT ![ProbeIndex(slots, k)].value = v]
  /\ UNCHANGED <<hash, len, used>>

RemoveEmpties(k) ==
  /\ Calls(<<"remove", k>>)
  /\ out' = Value(slots, k)
  /\ IF Value(slots, k) = None
     THEN UNCHANGED <<slots, len, used>>
     ELSE /\ slots' = [slots EXCEPT ![ProbeIndex(slots, k)] = Empty]
          /\ len' = len - 1 /\ used' = used - 1
  /\ UNCHANGED hash

(* remove: leave a tombstone; `used` stays.                                *)
Remove(k) ==
  /\ Calls(<<"remove", k>>)
  /\ out' = Value(slots, k)
  /\ IF Value(slots, k) = None
     THEN UNCHANGED <<slots, len>>
     ELSE /\ slots' = [slots EXCEPT ![ProbeIndex(slots, k)] = Tombstone]
          /\ len' = len - 1
  /\ UNCHANGED <<hash, used>>

(* retain: a tombstone for every key that is not kept.                     *)
Retain(keep) ==
  LET gone == {i \in DOMAIN slots : slots[i].tag = "Full" /\ slots[i].key \notin keep}
  IN  /\ Calls(<<"retain", keep>>)
      /\ slots' = [i \in DOMAIN slots |-> IF i \in gone THEN Tombstone ELSE slots[i]]
      /\ len' = len - Cardinality(gone)
      /\ out' = None
      /\ UNCHANGED <<hash, used>>

(* clear                                                                   *)
Clear ==
  /\ Calls(<<"clear">>)
  /\ slots' = EmptySlots(Len(slots))
  /\ len' = 0 /\ used' = 0
  /\ out' = None
  /\ UNCHANGED hash

Next ==
  \/ \E k \in Keys : Get(k) \/ Remove(k)
  \/ \E k \in Keys, v \in Values :
       Insert(k, v) \/ OrInsert(k, v) \/ AndModify(k, v) \/ GetMut(k, v)
  \/ \E keep \in SUBSET Keys : Retain(keep)
  \/ Clear \/ Return

Spec == Init /\ [][Next]_vars

-----------------------------------------------------------------------------
FullSlots == {i \in DOMAIN slots : slots[i].tag = "Full"}

(* "Keep load factor below 7/8, and never let the table fill": every probe *)
(* of a table ends, because an Empty slot is left, and the two counters    *)
(* that growth relies on count what they say, one slot per key (so that    *)
(* iteration yields each key once).                                        *)
RoomToProbe ==
  /\ len = Cardinality(FullSlots)
  /\ len = Cardinality({slots[i].key : i \in FullSlots})
  /\ used = Cardinality({i \in DOMAIN slots : slots[i] # Empty})
  /\ slots # <<>> => \E i \in DOMAIN slots : slots[i] = Empty

(* The entries that iter() yields, as a function.                          *)
Entries ==
  [k \in Keys |->
     IF \E i \in FullSlots : slots[i].key = k
     THEN slots[CHOOSE i \in FullSlots : slots[i].key = k].value
     ELSE None]

Abstract == INSTANCE Map WITH map <- Entries

(* The table implements the map: whatever collisions, tombstones and       *)
(* growth do to the layout, each call changes and returns what the map     *)
(* says of this call with these arguments.                                 *)
ImplementsMap == Abstract!MapSpec
=============================================================================
