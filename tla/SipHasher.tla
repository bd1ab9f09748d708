----------------------------- MODULE SipHasher -----------------------------
(***************************************************************************)
(* SipHasher13 as HashMap uses it: threads take a RandomState, build a     *)
(* hasher, write one message in chunks of any size, and finish.  The       *)
(* compression (sipround) is left open: v0..v3 are the keys and the words  *)
(* absorbed so far.  A byte is 0 or 1, a word the set of the indices of    *)
(* its bytes that are 1, so that | is \cup and << (8 * n) adds n.          *)
(***************************************************************************)
EXTENDS Naturals, Sequences

CONSTANTS Threads, Nobody,   \* and no thread
          B,                 \* bytes of a word (8 in the code)
          LEN,               \* the length that fits into its byte (256)
          KEYS,              \* bytes of the keys (16)
          MaxMsg             \* bound: the length of the message

SipHasherAssumption ==
  /\ Nobody \notin Threads
  /\ B \in Nat \ {0, 1} /\ LEN = 2 /\ KEYS \in Nat \ {0} /\ MaxMsg \in Nat

Fixed == 0         \* the keys used when getrandom fails

VARIABLES keys,              \* KEYS: how many random bytes they have; Nobody: not set
          filler, off,       \* who runs the closure, and what getrandom has filled
          msg,               \* what every thread hashes
          pc,
          key,               \* the RandomState of each thread
          v, len, tail, ntail, \* its hasher (v: the words absorbed)
          at,                \* how much of msg it has written
          out                \* what finish returned

vars == <<keys, filler, off, msg, pc, key, v, len, tail, ntail, at, out>>

TypeOK ==
  /\ keys \in 0..KEYS \cup {Nobody}
  /\ filler \in Threads \cup {Nobody} /\ off \in 0..KEYS
  /\ pc \in [Threads -> {"new", "keys", "hash", "done"}]
  /\ v \in [Threads -> Seq(SUBSET (0..B - 1))]
  /\ tail \in [Threads -> SUBSET (0..B - 1)] /\ ntail \in [Threads -> 0..B - 1]
  /\ at \in [Threads -> 0..Len(msg)] /\ len \in [Threads -> 0..Len(msg)]

Init ==
  /\ keys = Nobody /\ filler = Nobody /\ off = 0
  /\ msg \in UNION {[1..n -> {0, 1}] : n \in 0..MaxMsg}
  /\ pc = [t \in Threads |-> "new"]
  /\ key = [t \in Threads |-> Nobody]
  /\ v = [t \in Threads |-> <<>>]
  /\ len = [t \in Threads |-> 0]
  /\ tail = [t \in Threads |-> {}]
  /\ ntail = [t \in Threads |-> 0]
  /\ at = [t \in Threads |-> 0]
  /\ out = [t \in Threads |-> <<>>]

hasher == <<v, len, tail, ntail, at, out>>

-----------------------------------------------------------------------------
(* RandomState::new, process_keys: the first caller runs the closure.      *)
New(t) ==
  /\ pc[t] = "new"
  /\ pc' = [pc EXCEPT ![t] = "keys"]
  /\ filler' = IF filler = Nobody THEN t ELSE filler
  /\ UNCHANGED <<keys, off, msg, key, hasher>>

(* getrandom: the kernel fills a part of what is missing, ...              *)
Fill(t) ==
  /\ filler = t /\ keys = Nobody /\ off < KEYS
  /\ \E n \in 1..KEYS - off : off' = off + n /\ keys' = IF off + n = KEYS THEN KEYS ELSE Nobody
  /\ UNCHANGED <<filler, msg, pc, key, hasher>>

(* ... or fails, or fills nothing: fixed keys.                             *)
FillFails(t) ==
  /\ filler = t /\ keys = Nobody /\ off < KEYS
  /\ keys' = Fixed
  /\ UNCHANGED <<filler, off, msg, pc, key, hasher>>

(* RandomState::build_hasher, SipHasher13::new_with_keys.                  *)
BuildHasher(t) ==
  /\ pc[t] = "keys" /\ keys # Nobody
  /\ key' = [key EXCEPT ![t] = keys]
  /\ pc' = [pc EXCEPT ![t] = "hash"]
  /\ UNCHANGED <<keys, filler, off, msg, hasher>>

-----------------------------------------------------------------------------
(* u8to64_le, load_u64_le: n bytes of m from index i (from 0) on.          *)
Load(m, i, n) == {k \in 0..n - 1 : m[i + k + 1] = 1}
Shift(w, n) == {k + n : k \in w} \cap (0..B - 1)
Smaller(a, b) == IF a < b THEN a ELSE b

(* write, the part after the tail: whole words, and a new tail.            *)
Words(m, i, n) == [k \in 1..(n - i) \div B |-> Load(m, i + (k - 1) * B, B)]

WriteKeepsTail(t, m) ==
  LET n == Len(m)
      needed == IF ntail[t] # 0 THEN B - ntail[t] ELSE 0
      filled == tail[t] \cup Shift(Load(m, 0, Smaller(n, needed)), ntail[t])
      left == (n - needed) % B
  IN  IF n < needed
      THEN /\ tail' = [tail EXCEPT ![t] = filled]
           /\ ntail' = [ntail EXCEPT ![t] = @ + n]
           /\ UNCHANGED v
      ELSE /\ v' = [v EXCEPT ![t] = @ \o (IF needed > 0 THEN <<filled>> ELSE <<>>) \o Words(m, needed, n)]
           /\ tail' = [tail EXCEPT ![t] = IF left = 0 THEN @ ELSE Load(m, n - left, left)]
           /\ ntail' = [ntail EXCEPT ![t] = left]

(* SipHasher13::write: complete the tail if the chunk reaches that far,    *)
(* then whole words, then the new tail.                                    *)
Absorb(t, m) ==
  LET n == Len(m)
      needed == IF ntail[t] # 0 THEN B - ntail[t] ELSE 0
      filled == tail[t] \cup Shift(Load(m, 0, Smaller(n, needed)), ntail[t])
      left == (n - needed) % B
  IN  IF n < needed
      THEN /\ tail' = [tail EXCEPT ![t] = filled]
           /\ ntail' = [ntail EXCEPT ![t] = @ + n]
           /\ UNCHANGED v
      ELSE /\ v' = [v EXCEPT ![t] = @ \o (IF needed > 0 THEN <<filled>> ELSE <<>>) \o Words(m, needed, n)]
           /\ tail' = [tail EXCEPT ![t] = Load(m, n - left, left)]
           /\ ntail' = [ntail EXCEPT ![t] = left]

Write(t) ==
  /\ pc[t] = "hash"
  /\ \E n \in 0..Len(msg) - at[t] :
       /\ Absorb(t, SubSeq(msg, at[t] + 1, at[t] + n))
       /\ len' = [len EXCEPT ![t] = @ + n]
       /\ at' = [at EXCEPT ![t] = @ + n]
  /\ UNCHANGED <<keys, filler, off, msg, pc, key, out>>

(* finish: the length goes into the last byte of the last word.            *)
Last(t) == tail[t] \cup IF len[t] % LEN = 1 THEN {B - 1} ELSE {}
Finish(t) ==
  /\ pc[t] = "hash" /\ at[t] = Len(msg)
  /\ out' = [out EXCEPT ![t] = <<key[t], Append(v[t], Last(t))>>]
  /\ pc' = [pc EXCEPT ![t] = "done"]
  /\ UNCHANGED <<keys, filler, off, msg, key, v, len, tail, ntail, at>>

Next ==
  \E t \in Threads :
    New(t) \/ Fill(t) \/ FillFails(t) \/ BuildHasher(t) \/ Write(t) \/ Finish(t)

Spec == Init /\ [][Next]_vars

-----------------------------------------------------------------------------
(* The words of SipHash: the message in words, the last one filled up with *)
(* zeros and the length.                                                   *)
Blocks(m) ==
  LET n == Len(m) \div B
  IN  [i \in 1..n + 1 |->
        {k \in 0..B - 1 : LET j == (i - 1) * B + k + 1
                          IN  IF j <= Len(m) THEN m[j] = 1 ELSE k = B - 1 /\ Len(m) % LEN = 1}]

(* "Streaming, so it handles arbitrary write chunk boundaries" (the doc of *)
(* SipHasher13): however a key is cut into writes, and whichever thread's  *)
(* RandomState it is hashed with, finish returns the one hash of SipHash   *)
(* under the one pair of process keys, which is random in every byte or    *)
(* the fixed one.                                                          *)
OneHash ==
  /\ keys \in {Nobody, Fixed, KEYS}
  /\ \A t \in Threads : pc[t] = "done" => out[t] = <<keys, Blocks(msg)>>
=============================================================================
