--------------------------- MODULE StreamsProofs ---------------------------
(***************************************************************************)
(* Byte streams, for every value of the constants: a BufWriter passes on   *)
(* in order what it accepted, a print macro's units stay in one piece, a   *)
(* Cursor does what a file does, and io::copy and the vectored calls move  *)
(* every byte once and in order.                                           *)
(***************************************************************************)
EXTENDS Integers, Sequences, TLAPS

(* Concatenation: lengths, elements, the empty sequence, associativity.    *)
LEMMA Appended ==
  ASSUME NEW M, NEW s \in Seq(M), NEW e \in Seq(M)
  PROVE  /\ s \o e \in Seq(M) /\ Len(s \o e) = Len(s) + Len(e)
         /\ Len(s) \in Nat /\ Len(e) \in Nat
         /\ \A i \in 1..Len(s) : (s \o e)[i] = s[i]
         /\ \A i \in (Len(s) + 1)..(Len(s) + Len(e)) : (s \o e)[i] = e[i - Len(s)]
OBVIOUS

LEMMA AppendedEmpty ==
  ASSUME NEW M, NEW s \in Seq(M)
  PROVE  s \o <<>> = s /\ <<>> \o s = s /\ <<>> \in Seq(M)
OBVIOUS

Reassociated(r, s, e) == r \o (s \o e) = (r \o s) \o e

LEMMA AppendedTwice ==
  ASSUME NEW M, NEW r \in Seq(M), NEW s \in Seq(M), NEW e \in Seq(M)
  PROVE  Reassociated(r, s, e)
<1> DEFINE a == r \o (s \o e)
           b == (r \o s) \o e
           n == Len(r) + Len(s) + Len(e)
<1>1. /\ a \in Seq(M) /\ b \in Seq(M) /\ Len(a) = n /\ Len(b) = n
      /\ Len(r) \in Nat /\ Len(s) \in Nat /\ Len(e) \in Nat
  OBVIOUS
<1>2. ASSUME NEW i \in 1..n PROVE a[i] = b[i]
  <2>1. CASE i <= Len(r)
    BY <1>1, <2>1
  <2>2. CASE i > Len(r) /\ i <= Len(r) + Len(s)
    BY <1>1, <2>2
  <2>3. CASE i > Len(r) + Len(s)
    BY <1>1, <2>3
  <2>4. QED
    BY <1>1, <2>1, <2>2, <2>3
<1> HIDE DEF a, b
<1>3. a = b
  BY <1>1, <1>2
<1>4. QED
  BY <1>3 DEF a, b, Reassociated


(* The elements of a slice, and sequences with the same elements.          *)
LEMMA SliceIs ==
  ASSUME NEW M, NEW s \in Seq(M), NEW a \in Nat, NEW b \in Nat, a <= b, b <= Len(s)
  PROVE  /\ SubSeq(s, a + 1, b) \in Seq(M) /\ Len(SubSeq(s, a + 1, b)) = b - a
         /\ \A i \in 1..(b - a) : SubSeq(s, a + 1, b)[i] = s[a + i]
OBVIOUS

LEMMA SameSequence ==
  ASSUME NEW M, NEW x \in Seq(M), NEW y \in Seq(M), Len(x) = Len(y),
         \A i \in 1..Len(x) : x[i] = y[i]
  PROVE  x = y
OBVIOUS

-----------------------------------------------------------------------------
(* BufWriter passes everything on in order, for any capacity, any slices   *)
(* and any failures.                                                       *)

CONSTANTS WriterCaps, WriteSizes, MaxBytes, MaxFailures   \* see BufWriter

VARIABLES cap, buf, out, accepted, resent, errors, state

W == INSTANCE BufWriter WITH Caps <- WriterCaps, Sizes <- WriteSizes,
                             MaxErrors <- MaxFailures

ASSUME WriterAssumption == W!BufWriterAssumption

(* BufWriter: accepted bytes arrive in order, twice only after a failure.  *)
WriterExact == W!WriterExact

(* s[1] to s[l] are the bytes 1..n, each for the first time after the one  *)
(* before it.                                                              *)
Ordered(s, l, n) ==
  /\ \A i \in 1..l : s[i] \in 1..n
  /\ \A v \in 1..n : \E i \in 1..l : s[i] = v
  /\ \A i \in 1..l : s[i] # 1 => \E j \in 1..l : j < i /\ s[j] = s[i] - 1

(* It stays so with the next k bytes at the end ...                        *)
LEMMA OrderedGrows ==
  ASSUME NEW n \in Nat, NEW l \in Nat, NEW k \in Nat, NEW s, NEW t, Ordered(s, l, n),
         \A i \in 1..l : t[i] = s[i],
         \A i \in (l + 1)..(l + k) : t[i] = n + (i - l)
  PROVE  Ordered(t, l + k, n + k)
<1>1. ASSUME NEW i \in 1..(l + k)
      PROVE  t[i] \in 1..(n + k) /\ (t[i] # 1 => \E j \in 1..(l + k) : j < i /\ t[j] = t[i] - 1)
  <2>1. CASE i <= l
    <3>1. i \in 1..l /\ t[i] = s[i] /\ s[i] \in 1..n
      BY <2>1 DEF Ordered
    <3>2. ASSUME t[i] # 1 PROVE \E j \in 1..(l + k) : j < i /\ t[j] = t[i] - 1
      <4>1. PICK j \in 1..l : j < i /\ s[j] = s[i] - 1
        BY <3>1, <3>2 DEF Ordered
      <4>2. j \in 1..(l + k) /\ t[j] = s[j]
        BY <4>1
      <4>3. QED
        BY <3>1, <4>1, <4>2
    <3>3. QED
      BY <3>1, <3>2
  <2>2. CASE i = l + 1
    <3>1. t[i] = n + 1 /\ t[i] \in 1..(n + k)
      BY <2>2
    <3>2. ASSUME t[i] # 1 PROVE \E j \in 1..(l + k) : j < i /\ t[j] = t[i] - 1
      <4>1. n \in 1..n
        BY <3>1, <3>2
      <4>2. PICK j \in 1..l : s[j] = n
        BY <4>1 DEF Ordered
      <4>3. j \in 1..(l + k) /\ j < i /\ t[j] = n
        BY <2>2, <4>2
      <4>4. QED
        BY <3>1, <4>3
    <3>3. QED
      BY <3>1, <3>2
  <2>3. CASE i > l + 1
    <3>1. /\ i \in (l + 1)..(l + k) /\ i - 1 \in (l + 1)..(l + k)
          /\ i - 1 \in 1..(l + k) /\ i - 1 < i
      BY <2>3
    <3>2. t[i] = n + (i - l) /\ t[i - 1] = n + (i - 1 - l)
      BY <3>1
    <3>3. QED
      BY <2>3, <3>1, <3>2
  <2>4. QED
    BY <2>1, <2>2, <2>3
<1>2. ASSUME NEW v \in 1..(n + k) PROVE \E i \in 1..(l + k) : t[i] = v
  <2>1. CASE v <= n
    <3>1. PICK i \in 1..l : s[i] = v
      BY <2>1 DEF Ordered
    <3>2. i \in 1..(l + k) /\ t[i] = v
      BY <3>1
    <3>3. QED
      BY <3>2
  <2>2. CASE v > n
    <3>1. l + (v - n) \in (l + 1)..(l + k) /\ l + (v - n) \in 1..(l + k)
      BY <2>2
    <3>2. t[l + (v - n)] = v
      BY <3>1
    <3>3. QED
      BY <3>1, <3>2
  <2>3. QED
    BY <2>1, <2>2
<1>3. QED
  BY <1>1, <1>2 DEF Ordered

(* ... and with k of the last b bytes once more before these.              *)
LEMMA OrderedRepeats ==
  ASSUME NEW n \in Nat, NEW o \in Nat, NEW b \in Nat, NEW k \in 0..b, NEW s, NEW t,
         Ordered(s, o + b, n),
         \A i \in 1..(o + k) : t[i] = s[i],
         \A i \in (o + 1)..(o + b) : t[i + k] = s[i]
  PROVE  Ordered(t, o + k + b, n)
<1>1. ASSUME NEW i \in (o + 1)..(o + b), s[i] # 1
      PROVE  \E j \in 1..(o + k + b) : j < i + k /\ t[j] = s[i] - 1
  <2>0. i \in 1..(o + b)
    OBVIOUS
  <2>1. PICK j \in 1..(o + b) : j < i /\ s[j] = s[i] - 1
    BY <1>1, <2>0 DEF Ordered
  <2>2. CASE j <= o
    <3>1. j \in 1..(o + k) /\ j \in 1..(o + k + b) /\ j < i + k
      BY <2>2, <2>1
    <3>2. QED
      BY <2>1, <3>1
  <2>3. CASE j > o
    <3>1. j \in (o + 1)..(o + b) /\ j + k \in 1..(o + k + b) /\ j + k < i + k
      BY <2>3, <2>1
    <3>2. t[j + k] = s[j]
      BY <3>1
    <3>3. QED
      BY <2>1, <3>1, <3>2
  <2>4. QED
    BY <2>2, <2>3
<1>2. ASSUME NEW i \in 1..(o + k), s[i] # 1
      PROVE  \E j \in 1..(o + k + b) : j < i /\ t[j] = s[i] - 1
  <2>0. i \in 1..(o + b)
    OBVIOUS
  <2>1. PICK j \in 1..(o + b) : j < i /\ s[j] = s[i] - 1
    BY <1>2, <2>0 DEF Ordered
  <2>2. j \in 1..(o + k) /\ j \in 1..(o + k + b)
    BY <2>1
  <2>3. QED
    BY <2>1, <2>2
<1>3. ASSUME NEW i \in 1..(o + k + b)
      PROVE  t[i] \in 1..n /\ (t[i] # 1 => \E j \in 1..(o + k + b) : j < i /\ t[j] = t[i] - 1)
  <2>1. CASE i <= o + k
    <3>1. i \in 1..(o + k) /\ i \in 1..(o + b) /\ t[i] = s[i]
      BY <2>1
    <3>2. QED
      BY <1>2, <3>1 DEF Ordered
  <2>2. CASE i > o + k
    <3>1. /\ i - k \in (o + 1)..(o + b) /\ i - k \in 1..(o + b) /\ (i - k) + k = i
          /\ t[(i - k) + k] = s[i - k]
      BY <2>2
    <3>2. s[i - k] \in 1..n
      BY <3>1 DEF Ordered
    <3>3. QED
      BY <1>1, <3>1, <3>2
  <2>3. QED
    BY <2>1, <2>2
<1>4. ASSUME NEW v \in 1..n PROVE \E i \in 1..(o + k + b) : t[i] = v
  <2>1. PICK i \in 1..(o + b) : s[i] = v
    BY DEF Ordered
  <2>2. CASE i <= o
    <3>1. i \in 1..(o + k) /\ i \in 1..(o + k + b)
      BY <2>2
    <3>2. QED
      BY <2>1, <3>1
  <2>3. CASE i > o
    <3>1. i \in (o + 1)..(o + b) /\ i + k \in 1..(o + k + b)
      BY <2>3
    <3>2. QED
      BY <2>1, <3>1
  <2>4. QED
    BY <2>2, <2>3
<1>5. QED
  BY <1>3, <1>4 DEF Ordered

(* The inductive strengthening of WriterExact.                             *)
WriterInv ==
  /\ out \in Seq(Nat) /\ buf \in Seq(Nat)
  /\ cap \in Nat /\ accepted \in Nat /\ resent \in Nat
  /\ Ordered(W!Written, Len(W!Written), accepted)
  /\ Len(out) + Len(buf) = accepted + resent
  /\ state = "clean" => buf = <<>>
  /\ Len(buf) <= cap

(* A flush that succeeds passes all of the buffer on.                      *)
LEMMA WriterFlushes ==
  ASSUME WriterInv, out' = W!Flushed, buf' = <<>>, UNCHANGED <<cap, accepted, resent>>
  PROVE  WriterInv'
<1>1. /\ out' \in Seq(Nat) /\ buf' \in Seq(Nat) /\ W!Written' = W!Written
      /\ Len(out') + Len(buf') = Len(out) + Len(buf) /\ Len(buf') = 0
  <2>1. out \o buf \in Seq(Nat) /\ Len(out \o buf) = Len(out) + Len(buf)
    BY Appended DEF WriterInv
  <2>2. (out \o buf) \o <<>> = out \o buf
    BY <2>1, AppendedEmpty
  <2>3. Len(<<>>) = 0 /\ <<>> \in Seq(Nat)
    OBVIOUS
  <2>4. QED
    BY <2>1, <2>2, <2>3 DEF W!Flushed, W!Written, WriterInv
<1>2. QED
  BY <1>1 DEF WriterInv

(* A flush that fails has passed on a part of the buffer that stays in it. *)
LEMMA WriterFlushFails ==
  ASSUME WriterInv, W!FlushFails, UNCHANGED cap, state' # "clean"
  PROVE  WriterInv'
<1>1. PICK k \in 0..Len(buf) - 1 :
        out' = out \o SubSeq(buf, 1, k) /\ resent' = resent + k /\ UNCHANGED <<buf, accepted>>
  BY DEF W!FlushFails
<1>2. k \in 0..Len(buf) /\ Len(buf) \in Nat /\ Len(out) \in Nat
  BY DEF WriterInv
<1> DEFINE e == SubSeq(buf, 1, k)
<1>3. e \in Seq(Nat) /\ Len(e) = k /\ \A i \in 1..k : e[i] = buf[i]
  BY <1>2, SMTT(30) DEF WriterInv
<1> HIDE DEF e
<1>4. /\ out' \in Seq(Nat) /\ Len(out') = Len(out) + k
      /\ \A i \in 1..Len(out) : out'[i] = out[i]
      /\ \A i \in (Len(out) + 1)..(Len(out) + k) : out'[i] = e[i - Len(out)]
  <2>1. out' = out \o e
    BY <1>1 DEF e
  <2>2. QED
    BY <1>3, <2>1, Appended, ZenonT(60) DEF WriterInv
<1> DEFINE s == out \o buf
           t == out' \o buf
<1>5. /\ Len(s) = Len(out) + Len(buf)
      /\ \A i \in 1..Len(out) : s[i] = out[i]
      /\ \A i \in (Len(out) + 1)..(Len(out) + Len(buf)) : s[i] = buf[i - Len(out)]
  BY Appended DEF WriterInv
<1>6. /\ t \in Seq(Nat) /\ Len(t) = Len(out) + k + Len(buf)
      /\ \A i \in 1..(Len(out) + k) : t[i] = out'[i]
      /\ \A i \in (Len(out) + k + 1)..(Len(out) + k + Len(buf)) : t[i] = buf[i - (Len(out) + k)]
  <2>1. PICK p \in Seq(Nat) : p = out'
    BY <1>4
  <2>2. PICK l \in Nat : l = Len(p) /\ l = Len(out) + k
    BY <1>2, <1>4, <2>1
  <2>3. /\ p \o buf \in Seq(Nat) /\ Len(p \o buf) = Len(p) + Len(buf)
        /\ \A i \in 1..Len(p) : (p \o buf)[i] = p[i]
        /\ \A i \in (Len(p) + 1)..(Len(p) + Len(buf)) : (p \o buf)[i] = buf[i - Len(p)]
    <3>1. p \in Seq(Nat) /\ buf \in Seq(Nat)
      BY <2>1 DEF WriterInv
    <3>2. QED
      BY ONLY <3>1, Appended, ZenonT(60)
  <2>4. t = p \o buf
    BY <2>1
  <2> HIDE DEF t
  <2>5. QED
    BY <2>1, <2>2, <2>3, <2>4, Zenon
<1>7. s = W!Written /\ t = W!Written'
  BY <1>1 DEF W!Written
<1> HIDE DEF s, t
<1>8. PICK l \in Nat, m \in Nat : l = Len(out) /\ m = Len(buf)
  BY <1>2
<1>9. /\ \A i \in 1..(l + k) : t[i] = s[i]
      /\ \A i \in (l + 1)..(l + m) : t[i + k] = s[i]
  <2>1. /\ \A i \in 1..l : out'[i] = out[i] /\ s[i] = out[i]
        /\ \A i \in (l + 1)..(l + k) : out'[i] = e[i - l]
        /\ \A i \in (l + 1)..(l + m) : s[i] = buf[i - l]
        /\ \A i \in 1..(l + k) : t[i] = out'[i]
        /\ \A i \in (l + k + 1)..(l + k + m) : t[i] = buf[i - (l + k)]
        /\ \A i \in 1..k : e[i] = buf[i]
        /\ k \in 0..m
    BY <1>2, <1>3, <1>4, <1>5, <1>6, <1>8
  <2>2. ASSUME NEW i \in 1..(l + k) PROVE t[i] = s[i]
    <3>1. CASE i <= l
      BY <2>1, <3>1
    <3>2. CASE i > l
      <4>1. t[i] = e[i - l] /\ s[i] = buf[i - l] /\ i - l \in 1..k
        BY <2>1, <3>2
      <4>2. QED
        BY <2>1, <4>1
    <3>3. QED
      BY <3>1, <3>2
  <2>3. ASSUME NEW i \in (l + 1)..(l + m) PROVE t[i + k] = s[i]
    <3>1. i + k \in (l + k + 1)..(l + k + m) /\ (i + k) - (l + k) = i - l
      OBVIOUS
    <3>2. t[i + k] = buf[(i + k) - (l + k)]
      BY <2>1, <3>1
    <3>3. QED
      BY <2>1, <3>1, <3>2
  <2>4. QED
    BY <2>2, <2>3
<1>10. Ordered(t, Len(out) + k + Len(buf), accepted)
  <2>1. Ordered(s, l + m, accepted) /\ k \in 0..m /\ accepted \in Nat
    BY <1>2, <1>5, <1>7, <1>8, Zenon DEF WriterInv
  <2>2. Ordered(t, l + k + m, accepted)
    BY <1>9, <2>1, OrderedRepeats, Zenon
  <2>3. QED
    BY <1>8, <2>2
<1>11. /\ out' \in Seq(Nat) /\ buf' = buf /\ accepted' = accepted /\ resent' = resent + k
       /\ Len(W!Written') = Len(out) + k + Len(buf)
  BY <1>1, <1>4, <1>6, <1>7
<1>12. resent' \in Nat /\ Len(out') + Len(buf') = accepted' + resent'
  <2>1. Len(out) + Len(buf) = accepted + resent /\ accepted \in Nat /\ resent \in Nat
    BY DEF WriterInv
  <2>2. Len(out') = Len(out) + k /\ k \in Nat /\ buf' = buf
    BY <1>1, <1>2, <1>4
  <2>3. QED
    <3>1. resent' = resent + k /\ accepted' = accepted
      BY <1>1
    <3>2. QED
      BY ONLY <1>2, <2>1, <2>2, <3>1
<1>13. Ordered(W!Written', Len(W!Written'), accepted')
  BY <1>7, <1>10, <1>11
<1>14. QED
  BY <1>11, <1>12, <1>13 DEF WriterInv

(* k more bytes are accepted.                                              *)
LEMMA WriterAccepts ==
  ASSUME WriterInv, NEW k \in Nat, accepted' = accepted + k,
         W!Written' = W!Written \o [i \in 1..k |-> accepted + i],
         out' \in Seq(Nat), buf' \in Seq(Nat), Len(buf') <= cap, buf' # <<>> => state # "clean",
         UNCHANGED <<cap, resent, state>>
  PROVE  WriterInv'
<1> DEFINE e == [i \in 1..k |-> accepted + i]
           s == out \o buf
           t == s \o e
<1>1. e \in Seq(Nat) /\ Len(e) = k /\ \A i \in 1..k : e[i] = accepted + i
  BY DEF WriterInv
<1>2. s = W!Written /\ t = W!Written' /\ t = out' \o buf'
  BY DEF W!Written
<1> HIDE DEF e
<1>3. s \in Seq(Nat) /\ Len(s) = Len(out) + Len(buf) /\ Len(s) \in Nat
  BY Appended DEF WriterInv
<1> HIDE DEF s
<1>4. /\ Len(t) = Len(s) + k
      /\ \A i \in 1..Len(s) : t[i] = s[i]
      /\ \A i \in (Len(s) + 1)..(Len(s) + k) : t[i] = e[i - Len(s)]
  <2>1. /\ Len(s \o e) = Len(s) + Len(e)
        /\ \A i \in 1..Len(s) : (s \o e)[i] = s[i]
        /\ \A i \in (Len(s) + 1)..(Len(s) + Len(e)) : (s \o e)[i] = e[i - Len(s)]
    <3>1. s \in Seq(Nat) /\ e \in Seq(Nat)
      BY <1>1, <1>3
    <3>2. QED
      BY ONLY <3>1, Appended, ZenonT(60)
  <2>2. QED
    BY <1>1, <2>1, Zenon
<1>5. Len(t) = Len(out') + Len(buf')
  BY <1>2, Appended
<1> HIDE DEF t
<1>6. \A i \in (Len(s) + 1)..(Len(s) + k) : t[i] = accepted + (i - Len(s))
  BY <1>1, <1>3, <1>4
<1>7. Ordered(t, Len(s) + k, accepted + k)
  BY <1>2, <1>3, <1>4, <1>6, OrderedGrows, Zenon DEF WriterInv
<1>8. accepted' \in Nat /\ Len(out') + Len(buf') = accepted' + resent'
  <2>1. Len(out) + Len(buf) = accepted + resent /\ accepted \in Nat /\ resent \in Nat
    BY DEF WriterInv
  <2>2. Len(out') + Len(buf') = (accepted + resent) + k
    BY <1>3, <1>4, <1>5, <2>1
  <2>3. QED
    BY <2>1, <2>2
<1>9. Ordered(W!Written', Len(W!Written'), accepted')
  BY <1>2, <1>4, <1>7
<1>10. QED
  BY <1>8, <1>9 DEF WriterInv

(* write: into the buffer, or past it when it is empty and the slice is    *)
(* large.                                                                  *)
LEMMA WriterWrites ==
  ASSUME W!BufWriterAssumption, WriterInv, NEW n \in WriteSizes, W!Write(n)
  PROVE  WriterInv'
<1> DEFINE o == IF W!FullFor(n) THEN W!Flushed ELSE out
           b == IF W!FullFor(n) THEN <<>> ELSE buf
           E(k) == [i \in 1..k |-> accepted + i]
<1>1. n \in Nat /\ state = "open" /\ Len(out) \in Nat /\ Len(buf) \in Nat /\ cap \in Nat
  BY SMTT(30) DEF W!BufWriterAssumption, W!Write, WriterInv
<1>2. /\ o \in Seq(Nat) /\ b \in Seq(Nat) /\ o \o b = W!Written
      /\ Len(b) <= cap /\ (n < cap => Len(b) + n <= cap) /\ (n >= cap => b = <<>>)
  <2>0. out \in Seq(Nat) /\ buf \in Seq(Nat) /\ out \o buf \in Seq(Nat) /\ Len(buf) <= cap
    BY Appended DEF WriterInv
  <2>1. CASE W!FullFor(n)
    <3>1. o = out \o buf /\ b = <<>>
      BY <2>1 DEF W!Flushed
    <3>2. (out \o buf) \o <<>> = out \o buf /\ <<>> \in Seq(Nat) /\ Len(<<>>) = 0
      BY <2>0, AppendedEmpty
    <3>3. o \in Seq(Nat) /\ b \in Seq(Nat) /\ o \o b = W!Written
      BY <2>0, <3>1, <3>2, Zenon DEF W!Written
    <3>4. Len(b) = 0
      BY <3>1
    <3>5. QED
      BY <1>1, <3>1, <3>3, <3>4
  <2>2. CASE ~W!FullFor(n)
    <3>1. o = out /\ b = buf /\ Len(buf) + n <= cap
      BY <1>1, <2>2 DEF W!FullFor
    <3>2. n >= cap => buf = <<>>
      BY <1>1, <2>0, <3>1
    <3>3. QED
      BY <1>1, <2>0, <3>1, <3>2, Zenon DEF W!Written
  <2>3. QED
    BY <2>1, <2>2
<1>3. ASSUME NEW k \in Nat PROVE E(k) \in Seq(Nat) /\ Len(E(k)) = k
  BY DEF WriterInv
<1> HIDE DEF o, b
<1>4. CASE n >= cap
  <2>1. PICK k \in 1..n : /\ out' = o \o SubSeq(W!Slice(n), 1, k) /\ buf' = b
                          /\ accepted' = accepted + k
    BY <1>4 DEF W!Write, o, b
  <2>2. SubSeq(W!Slice(n), 1, k) = E(k)
    BY <1>1, <2>1 DEF W!Slice, WriterInv
  <2>3. k \in Nat /\ b = <<>> /\ o = W!Written /\ o \o E(k) \in Seq(Nat)
    <3>1. k \in Nat /\ b = <<>>
      BY <1>1, <1>2, <1>4, <2>1
    <3>2. o = W!Written
      BY <1>2, <3>1, AppendedEmpty
    <3>3. o \o E(k) \in Seq(Nat)
      BY <1>2, <1>3, <3>1, Appended
    <3>4. QED
      BY <3>1, <3>2, <3>3
  <2>4. W!Written' = W!Written \o E(k) /\ out' \in Seq(Nat) /\ buf' = <<>>
    BY <2>1, <2>2, <2>3, AppendedEmpty, Zenon DEF W!Written
  <2>5. UNCHANGED <<cap, resent, state>>
    BY DEF W!Write
  <2>6. Len(buf') <= cap /\ buf' \in Seq(Nat)
    BY <1>2, <2>1
  <2>7. QED
    BY <1>1, <2>1, <2>3, <2>4, <2>5, <2>6, WriterAccepts, Zenon
<1>5. CASE ~(n >= cap)
  <2>1. out' = o /\ buf' = b \o W!Slice(n) /\ accepted' = accepted + n
    BY <1>5 DEF W!Write, o, b
  <2>2. W!Slice(n) = E(n)
    BY DEF W!Slice
  <2>3. /\ b \o E(n) \in Seq(Nat) /\ Len(b \o E(n)) = Len(b) + n
        /\ o \o (b \o E(n)) = (o \o b) \o E(n)
    <3>1. E(n) \in Seq(Nat) /\ Len(E(n)) = n
      BY <1>1, <1>3
    <3> HIDE DEF E
    <3>2. b \o E(n) \in Seq(Nat) /\ Len(b \o E(n)) = Len(b) + Len(E(n))
      BY <1>2, <3>1, Appended, Zenon
    <3>3. o \o (b \o E(n)) = (o \o b) \o E(n)
      <4>1. o \in Seq(Nat) /\ b \in Seq(Nat) /\ E(n) \in Seq(Nat)
        BY <1>2, <3>1
      <4>2. Reassociated(o, b, E(n))
        BY ONLY <4>1, AppendedTwice, Zenon
      <4>3. QED
        BY <4>2 DEF Reassociated
    <3>4. QED
      BY <3>1, <3>2, <3>3
  <2>4. W!Written' = W!Written \o E(n) /\ out' \in Seq(Nat) /\ buf' \in Seq(Nat) /\ Len(buf') <= cap
    <3> HIDE DEF E
    <3>1. out' = o /\ buf' = b \o E(n)
      BY <2>1, <2>2
    <3>2. out' \o buf' = W!Written \o E(n)
      BY <1>2, <2>3, <3>1, Zenon
    <3>3. Len(b \o E(n)) <= cap
      BY <1>1, <1>2, <1>5, <2>3
    <3>4. QED
      BY <1>2, <2>3, <3>1, <3>2, <3>3, Zenon DEF W!Written
  <2>5. UNCHANGED <<cap, resent, state>>
    BY DEF W!Write
  <2>6. QED
    BY <1>1, <2>1, <2>4, <2>5, WriterAccepts, Zenon
<1>6. QED
  BY <1>4, <1>5

(* A BufWriter of any capacity, with any slices and failures: what write   *)
(* accepted is passed on or buffered in order, is repeated only where a    *)
(* flush had failed, and is all passed on by a close that succeeds.        *)
THEOREM WriterExactHolds ==
  ASSUME W!BufWriterAssumption
  PROVE  W!Spec => []WriterExact
<1>1. W!Init => WriterInv
  <2> SUFFICES ASSUME W!Init PROVE WriterInv
    OBVIOUS
  <2>1. out = <<>> /\ buf = <<>> /\ accepted = 0 /\ resent = 0 /\ cap \in Nat /\ state = "open"
    BY DEF W!Init, W!BufWriterAssumption
  <2>2. W!Written = <<>> /\ Len(W!Written) = 0
    BY <2>1 DEF W!Written
  <2>3. Ordered(W!Written, 0, 0)
    BY DEF Ordered
  <2>4. QED
    BY <2>1, <2>2, <2>3 DEF WriterInv
<1>2. WriterInv /\ UNCHANGED W!vars => WriterInv'
  BY DEF W!vars, WriterInv, W!Written
<1>3. ASSUME WriterInv, NEW n \in WriteSizes, W!WriteFails(n) PROVE WriterInv'
  <2>1. UNCHANGED <<cap, state>> /\ state = "open"
    BY <1>3 DEF W!WriteFails
  <2>2. CASE W!FlushFails
    BY <1>3, <2>1, <2>2, WriterFlushFails
  <2>3. CASE ~W!FlushFails
    BY <1>3, <2>1, <2>3, WriterFlushes DEF W!WriteFails
  <2>4. QED
    BY <2>2, <2>3
<1>4. ASSUME WriterInv, W!Flush \/ W!FlushReturnsError \/ W!Close PROVE WriterInv'
  <2>1. CASE W!FlushFails /\ state' # "clean"
    BY <1>4, <2>1, WriterFlushFails DEF W!Flush, W!FlushReturnsError, W!Close
  <2>2. CASE ~(W!FlushFails /\ state' # "clean")
    BY <1>4, <2>2, WriterFlushes DEF W!Flush, W!FlushReturnsError, W!Close
  <2>3. QED
    BY <2>1, <2>2
<1>5. WriterInv /\ [W!Next]_(W!vars) => WriterInv'
  BY <1>2, <1>3, <1>4, WriterWrites DEF W!Next
<1>6. WriterInv => WriterExact
  <2> SUFFICES ASSUME WriterInv PROVE W!InOrder
    BY DEF WriterInv, WriterExact, W!WriterExact
  <2>1. PICK l \in Nat : l = Len(W!Written)
    BY Appended DEF WriterInv, W!Written
  <2>2. Ordered(W!Written, l, accepted) /\ accepted \in Nat
    BY <2>1 DEF WriterInv
  <2>3. {W!Written[i] : i \in 1..l} = 1..accepted
    BY <2>2 DEF Ordered
  <2>4. ASSUME NEW i \in 1..l, W!Written[i] # 1
        PROVE  \E j \in 1..i - 1 : W!Written[j] = W!Written[i] - 1
    <3>1. PICK j \in 1..l : j < i /\ W!Written[j] = W!Written[i] - 1
      BY <2>2, <2>4 DEF Ordered
    <3>2. j \in 1..i - 1
      BY <2>1, <3>1
    <3>3. QED
      BY <3>1, <3>2
  <2>5. QED
    BY <2>1, <2>3, <2>4 DEF W!InOrder
<1>7. QED
  BY <1>1, <1>5, <1>6, PTL DEF W!Spec

-----------------------------------------------------------------------------
(* What a print macro prints is in one piece, for any number of threads,   *)
(* calls and units.                                                        *)

CONSTANTS Printers, Free, Length, MaxCalls                \* see Stdio

VARIABLES owner, stream, step, how, left, calls

S == INSTANCE Stdio WITH Threads <- Printers

ASSUME PrintingAssumption == S!StdioAssumption

(* _print: what a macro prints is in one piece.                            *)
PrintsWhole == S!PrintsWhole

(* The inductive strengthening of PrintsWhole: a thread writes only while  *)
(* it owns the lock, no unit is of a call to come, and a macro that writes *)
(* has its units, if any, at the end of the stream.                        *)
StdioTypes ==
  /\ stream \in Seq(Printers \X Nat)
  /\ step \in [Printers -> {"idle", "lock", "write"}]
  /\ how \in [Printers -> {"macro", "handle"}]
  /\ left \in [Printers -> Nat] /\ calls \in [Printers -> Nat]
Writing ==
  /\ \A t \in Printers : step[t] = "write" => owner = t
  /\ \A i \in DOMAIN stream : stream[i][2] <= calls[stream[i][1]]
AtEnd ==
  \A t \in Printers : how[t] = "macro" =>
    /\ step[t] = "lock" => S!Units(t) = {}
    /\ step[t] = "write" => S!Units(t) = {} \/ Len(stream) \in S!Units(t)

StdioInv == StdioTypes /\ Writing /\ AtEnd /\ PrintsWhole

(* The stream after k more units of call c of thread t.                    *)
LEMMA UnitsWritten ==
  ASSUME NEW M, NEW s \in Seq(M), NEW m \in M, NEW k \in Nat
  PROVE  LET n == s \o [i \in 1..k |-> m]
         IN  /\ n \in Seq(M) /\ Len(n) = Len(s) + k /\ DOMAIN n = 1..(Len(s) + k)
             /\ \A i \in 1..Len(s) : n[i] = s[i]
             /\ \A i \in (Len(s) + 1)..(Len(s) + k) : n[i] = m
<1> DEFINE e == [i \in 1..k |-> m]
<1>1. e \in Seq(M) /\ Len(e) = k /\ \A i \in 1..k : e[i] = m
  OBVIOUS
<1> HIDE DEF e
<1>2. QED
  BY <1>1

(* The invariant gives the property.                                       *)
LEMMA StdioRests ==
  ASSUME StdioInv, UNCHANGED <<owner, stream, step, how, left, calls>>
  PROVE  StdioInv'
BY ZenonT(60) DEF StdioInv, StdioTypes, Writing, AtEnd, PrintsWhole, S!PrintsWhole, S!Units

(* A thread begins a call.                                                 *)
LEMMA StdioBegin ==
  ASSUME S!StdioAssumption, StdioInv, NEW t \in Printers, NEW h \in {"macro", "handle"}, S!Begin(t, h)
  PROVE  StdioInv'
<1> USE DEF StdioInv
<1>1. /\ step[t] = "idle" /\ step' = [step EXCEPT ![t] = "lock"] /\ how' = [how EXCEPT ![t] = h]
      /\ calls' = [calls EXCEPT ![t] = calls[t] + 1] /\ UNCHANGED <<owner, stream>>
  BY DEF S!Begin
<1>2. StdioTypes'
  <2>1. left' = [left EXCEPT ![t] = Length] /\ Length \in Nat
    BY DEF S!Begin, S!StdioAssumption
  <2>2. QED
    BY <1>1, <2>1 DEF StdioTypes
<1>3. Writing'
  BY <1>1, SMTT(30) DEF StdioTypes, Writing
<1>4. S!Units(t)' = {} /\ \A u \in Printers \ {t} : S!Units(u)' = S!Units(u)
  BY <1>1 DEF StdioTypes, Writing, S!Units
<1>5. AtEnd'
  BY <1>1, <1>4 DEF StdioTypes, AtEnd
<1>6. PrintsWhole'
  BY <1>1, <1>4 DEF StdioTypes, PrintsWhole, S!PrintsWhole
<1>7. QED
  BY <1>2, <1>3, <1>5, <1>6

(* A thread takes the lock, or a write of it fails.                        *)
LEMMA StdioLock ==
  ASSUME S!StdioAssumption, StdioInv, NEW t \in Printers, S!LockStdout(t) \/ S!WriteFails(t)
  PROVE  StdioInv'
<1> USE DEF StdioInv
<1>1. /\ \/ /\ step[t] = "lock" /\ owner = Free /\ owner' = t /\ left' = left
            /\ step' = [step EXCEPT ![t] = "write"]
         \/ /\ step[t] = "write" /\ owner' = Free /\ left' = [left EXCEPT ![t] = 0]
            /\ step' = [step EXCEPT ![t] = "idle"]
      /\ UNCHANGED <<stream, how, calls>>
  BY DEF S!LockStdout, S!WriteFails
<1>2. StdioTypes'
  <2>1. left' \in [Printers -> Nat]
    BY <1>1 DEF StdioTypes
  <2>2. step' \in [Printers -> {"idle", "lock", "write"}]
    BY <1>1 DEF StdioTypes
  <2>3. QED
    BY <1>1, <2>1, <2>2 DEF StdioTypes
<1>3. \A u \in Printers : S!Units(u)' = S!Units(u)
  BY <1>1 DEF S!Units
<1>4. Writing'
  <2>1. \A u \in Printers \ {t} : step[u] # "write"
    BY <1>1 DEF Writing, S!StdioAssumption
  <2>2. QED
    BY <1>1, <2>1 DEF StdioTypes, Writing
<1>5. AtEnd'
  BY <1>1, <1>3, ZenonT(60) DEF StdioTypes, AtEnd
<1>6. PrintsWhole'
  BY <1>1, <1>3 DEF PrintsWhole, S!PrintsWhole
<1>7. QED
  BY <1>2, <1>4, <1>5, <1>6

(* A thread writes some of the units it has left.                          *)
LEMMA StdioWrite ==
  ASSUME S!StdioAssumption, StdioInv, NEW t \in Printers, S!WriteUnits(t)
  PROVE  StdioInv'
<1> USE DEF StdioInv
<1>1. PICK k \in 1..left[t] :
        /\ stream' = stream \o [i \in 1..k |-> <<t, calls[t]>>]
        /\ left' = [left EXCEPT ![t] = left[t] - k]
        /\ \/ step' = [step EXCEPT ![t] = "idle"] /\ owner' = Free
           \/ how[t] = "handle" /\ step' = [step EXCEPT ![t] = "lock"] /\ owner' = Free
           \/ UNCHANGED <<step, owner>>
        /\ step[t] = "write" /\ UNCHANGED <<how, calls>>
  BY Zenon DEF S!WriteUnits
<1>2. k \in Nat \ {0} /\ left[t] - k \in Nat /\ owner = t /\ left[t] \in Nat
  BY <1>1 DEF StdioTypes, Writing
<1>3. PICK n \in Nat : n = Len(stream)
  BY DEF StdioTypes
<1>4. /\ stream' \in Seq(Printers \X Nat) /\ Len(stream') = n + k /\ DOMAIN stream' = 1..(n + k)
      /\ \A i \in 1..n : stream'[i] = stream[i]
      /\ \A i \in (n + 1)..(n + k) : stream'[i] = <<t, calls[t]>>
  <2>1. <<t, calls[t]>> \in Printers \X Nat
    BY DEF StdioTypes
  <2>2. QED
    BY <1>1, <1>2, <1>3, <2>1, UnitsWritten DEF StdioTypes
<1>5. DOMAIN stream = 1..n
  BY <1>3 DEF StdioTypes
<1>6. StdioTypes'
  <2>1. left' \in [Printers -> Nat]
    BY <1>1, <1>2 DEF StdioTypes
  <2>2. step' \in [Printers -> {"idle", "lock", "write"}]
    BY <1>1, Zenon DEF StdioTypes
  <2>3. QED
    BY <1>1, <1>4, <2>1, <2>2, Zenon DEF StdioTypes
<1>7. Writing'
  <2>1. ASSUME NEW i \in 1..(n + k) PROVE stream'[i][2] <= calls[stream'[i][1]]
    <3>1. CASE i \in 1..n
      BY <1>4, <1>5, <3>1, Zenon DEF Writing
    <3>2. CASE i \in (n + 1)..(n + k)
      BY <1>4, <3>2 DEF StdioTypes
    <3>3. QED
      BY <1>2, <3>1, <3>2
  <2>2. \A u \in Printers : step'[u] = "write" => owner' = u
    BY <1>1, <1>2 DEF StdioTypes, Writing
  <2>3. QED
    BY <1>1, <1>4, <2>1, <2>2, Zenon DEF Writing
<1>8. /\ S!Units(t)' = S!Units(t) \cup (n + 1)..(n + k)
      /\ S!Units(t) \in SUBSET (1..n)
      /\ \A u \in Printers \ {t} : S!Units(u)' = S!Units(u)
  <2>1. ASSUME NEW u \in Printers
        PROVE  /\ S!Units(u) = {i \in 1..n : stream[i] = <<u, calls[u]>>}
               /\ S!Units(u)' = {i \in 1..(n + k) : stream'[i] = <<u, calls[u]>>}
    BY <1>1, <1>4, <1>5, ZenonT(60) DEF S!Units
  <2>2. ASSUME NEW u \in Printers, NEW i \in 1..(n + k)
        PROVE  stream'[i] = <<u, calls[u]>> <=>
                 (i \in 1..n /\ stream[i] = <<u, calls[u]>>) \/ (i \in (n + 1)..(n + k) /\ u = t)
    <3>1. CASE i \in 1..n
      BY <1>2, <1>4, <3>1, ZenonT(60)
    <3>2. CASE i \in (n + 1)..(n + k)
      <4>1. i \notin 1..n /\ stream'[i] = <<t, calls[t]>>
        BY <1>2, <1>4, <3>2, SMTT(30)
      <4>2. QED
        BY <3>2, <4>1
    <3>3. QED
      BY <1>2, <3>1, <3>2
  <2>3. S!Units(t)' = S!Units(t) \cup (n + 1)..(n + k) /\ S!Units(t) \in SUBSET (1..n)
    BY <1>2, <2>1, <2>2
  <2>4. ASSUME NEW u \in Printers \ {t} PROVE S!Units(u)' = S!Units(u)
    <3>1. 1..n \in SUBSET (1..(n + k))
      BY <1>2
    <3>2. ASSUME NEW i \in 1..(n + k)
          PROVE  stream'[i] = <<u, calls[u]>> <=> i \in 1..n /\ stream[i] = <<u, calls[u]>>
      BY <2>2
    <3>3. QED
      BY <2>1, <3>1, <3>2, Zenon
  <2>5. QED
    BY <2>3, <2>4
<1>9. AtEnd'
  <2>1. ASSUME NEW u \in Printers \ {t} PROVE step'[u] = step[u] /\ step[u] # "write"
    BY <1>1, <1>2 DEF StdioTypes, Writing
  <2>2. n + k \in S!Units(t)'
    BY <1>2, <1>8
  <2>3. how[t] = "macro" => step'[t] # "lock"
    BY <1>1 DEF StdioTypes
  <2>4. QED
    BY <1>1, <1>4, <1>8, <2>1, <2>2, <2>3, Zenon DEF AtEnd
<1>10. PrintsWhole'
  <2>1. ASSUME how[t] = "macro", NEW i \in S!Units(t)', NEW j \in S!Units(t)', NEW l \in i..j
        PROVE  l \in S!Units(t)'
    <3>1. S!Units(t) = {} \/ n \in S!Units(t)
      BY <1>1, <1>3, <2>1 DEF AtEnd
    <3>2. i \in 1..(n + k) /\ j \in 1..(n + k) /\ l \in 1..(n + k)
      BY <1>2, <1>8
    <3>3. CASE l > n
      BY <1>2, <1>8, <3>2, <3>3
    <3>4. CASE l <= n
      <4>1. i \in S!Units(t)
        BY <1>2, <1>8, <3>2, <3>4
      <4>2. n \in S!Units(t) /\ l \in i..n
        BY <3>1, <3>2, <3>4, <4>1
      <4>3. QED
        BY <1>8, <2>1, <4>1, <4>2 DEF PrintsWhole, S!PrintsWhole
    <3>5. QED
      BY <1>2, <3>2, <3>3, <3>4
  <2>2. ASSUME NEW u \in Printers \ {t}, how[u] = "macro",
               NEW i \in S!Units(u)', NEW j \in S!Units(u)', NEW l \in i..j
        PROVE  l \in S!Units(u)'
    BY <1>8, <2>2 DEF PrintsWhole, S!PrintsWhole
  <2>3. QED
    BY <1>1, <2>1, <2>2 DEF PrintsWhole, S!PrintsWhole
<1>11. QED
  BY <1>6, <1>7, <1>9, <1>10

(* _print holds STDOUT_LOCK "across the whole format so concurrent prints  *)
(* from multiple threads don't interleave mid-line": for any number of     *)
(* threads that print, through the macros or through a Stdout, and however *)
(* the kernel cuts the writes.                                             *)
THEOREM PrintsWholeHolds ==
  ASSUME S!StdioAssumption
  PROVE  S!Spec => []PrintsWhole
<1>1. S!Init => StdioInv
  BY DEF S!Init, StdioInv, StdioTypes, Writing, AtEnd, PrintsWhole, S!PrintsWhole, S!Units
<1>2. StdioInv /\ [S!Next]_(S!vars) => StdioInv'
  BY StdioRests, StdioBegin, StdioLock, StdioWrite DEF S!Next, S!vars
<1>3. StdioInv => PrintsWhole
  BY DEF StdioInv
<1>4. QED
  BY <1>1, <1>2, <1>3, PTL DEF S!Spec

-----------------------------------------------------------------------------
(* A Cursor does what a file does, for vectors and buffers of any length   *)
(* and any bytes.                                                          *)

CONSTANTS FileBytes, SIGN, Words, MaxLen, MaxIo           \* see Cursor

VARIABLES word, inner, pos, data, offset, cret, fret, apart

C == INSTANCE Cursor WITH Bytes <- FileBytes

ASSUME SeekingAssumption == C!CursorAssumption

(* Cursor: it does what the same calls do to a file.                       *)
CursorIsFile == C!CursorIsFile

(* While the two are compared: the position is an offset.                  *)
Compared ==
  /\ inner \in Seq(FileBytes \cup {0}) /\ Len(inner) <= MaxLen /\ pos \in 0..SIGN - 1
  /\ inner = data /\ pos = offset /\ cret = fret

CursorInv ==
  /\ word \in Words
  /\ apart = "no" => Compared
  /\ apart = "usize" => word < SIGN

(* A slice of a vector is what a read at that offset gives.                *)
LEMMA ReadsSlice ==
  ASSUME NEW M, NEW s \in Seq(M), NEW p \in Nat, NEW k \in Nat, p + k <= Len(s)
  PROVE  SubSeq(s, p + 1, p + k) = [i \in 1..k |-> s[p + i]]
OBVIOUS

(* The same read of both gives the same bytes.                             *)
LEMMA CursorReads ==
  ASSUME C!CursorAssumption, Compared, word \in Nat, NEW n \in 0..MaxIo,
         C!CursorRead(n), pos < word, C!FdRead(n)
  PROVE  Compared'
<1> USE DEF Compared
<1>1. n \in Nat /\ Len(inner) \in Nat /\ MaxLen \in Nat /\ MaxLen < SIGN /\ SIGN \in Nat
  BY DEF C!CursorAssumption
<1> DEFINE from == IF pos < Len(inner) THEN pos ELSE Len(inner)
           k == IF n < Len(inner) - from THEN n ELSE Len(inner) - from
<1>2. /\ pos' = C!WrapU64(pos + k) /\ inner' = inner
      /\ cret' = <<"Read", SubSeq(inner, from + 1, from + k)>>
  <2>1. C!AsUsize(pos) = pos
    BY DEF C!AsUsize
  <2>2. QED
    BY <2>1 DEF C!CursorRead, C!Least
<1>3. /\ offset' = pos + k /\ data' = inner
      /\ fret' = <<"Read", [i \in 1..k |-> inner[pos + i]]>>
  BY <1>1 DEF C!FdRead, C!Least
<1>4. k \in Nat /\ from \in Nat /\ from + k <= Len(inner) /\ (k # 0 => from = pos)
  <2>1. from \in Nat /\ from <= Len(inner) /\ (from # Len(inner) => from = pos)
    BY <1>1
  <2> HIDE DEF from
  <2>2. QED
    BY <1>1, <2>1
<1> HIDE DEF from, k
<1>5. SubSeq(inner, from + 1, from + k) = [i \in 1..k |-> inner[pos + i]]
  <2>1. CASE k = 0
    BY <1>1, <1>4, <2>1
  <2>2. CASE k # 0
    BY <1>1, <1>4, <2>2, ReadsSlice
  <2>3. QED
    BY <2>1, <2>2
<1>6. pos + k \in 0..SIGN - 1 /\ pos' = pos + k
  <2>1. pos + k \in 0..SIGN - 1
    BY <1>1, <1>4
  <2>2. QED
    BY <1>1, <1>2, <2>1 DEF C!WrapU64
<1>7. QED
  BY <1>2, <1>3, <1>5, <1>6

(* The same write to both leaves the same bytes.                           *)
LEMMA CursorWrites ==
  ASSUME C!CursorAssumption, Compared, word \in Nat, NEW n \in 0..MaxIo, NEW bytes \in [1..n -> FileBytes],
         C!CursorWrite(bytes), pos < word, n > 0 \/ pos <= Len(inner), C!FdWrite(bytes)
  PROVE  Compared'
<1> USE DEF Compared
<1>1. C!AsUsize(pos) = pos
  BY DEF C!AsUsize
<1>2. /\ n \in Nat /\ bytes \in Seq(FileBytes) /\ Len(bytes) = n /\ Len(inner) \in Nat
      /\ MaxLen \in Nat /\ MaxLen < SIGN /\ SIGN \in Nat /\ pos \in Nat
  BY DEF C!CursorAssumption
<1> DEFINE end == pos + n
           gap == IF pos > Len(inner) THEN C!Resize(inner, pos) ELSE inner
           room == IF end > Len(gap) THEN C!Resize(gap, end) ELSE gap
           size == IF end > Len(inner) THEN end ELSE Len(inner)
           file == [i \in 1..size |-> IF i > pos /\ i <= end THEN bytes[i - pos]
                                      ELSE IF i <= Len(inner) THEN inner[i] ELSE 0]
<1>3. inner' = C!Splice(room, pos, bytes) /\ pos' = end /\ cret' = <<"Ok", n>> /\ end <= MaxLen
  BY <1>1, <1>2 DEF C!CursorWrite
<1>4. data' = file /\ offset' = end /\ fret' = <<"Ok", n>>
  BY <1>2 DEF C!FdWrite
<1>5. ASSUME NEW s \in Seq(FileBytes \cup {0}), NEW m \in Nat
      PROVE  /\ C!Resize(s, m) \in Seq(FileBytes \cup {0}) /\ Len(C!Resize(s, m)) = m
             /\ \A i \in 1..m : C!Resize(s, m)[i] = IF i <= Len(s) THEN s[i] ELSE 0
  BY DEF C!Resize
<1>6. /\ gap \in Seq(FileBytes \cup {0}) /\ Len(gap) = IF pos > Len(inner) THEN pos ELSE Len(inner)
      /\ \A i \in 1..Len(gap) : gap[i] = IF i <= Len(inner) THEN inner[i] ELSE 0
  <2>1. CASE pos > Len(inner)
    <3>1. gap = C!Resize(inner, pos)
      BY <2>1
    <3>2. /\ C!Resize(inner, pos) \in Seq(FileBytes \cup {0}) /\ Len(C!Resize(inner, pos)) = pos
          /\ \A i \in 1..pos : C!Resize(inner, pos)[i] = IF i <= Len(inner) THEN inner[i] ELSE 0
      <4>1. inner \in Seq(FileBytes \cup {0}) /\ pos \in Nat
        BY <1>2
      <4>2. QED
        BY ONLY <1>5, <4>1, Zenon
    <3> HIDE DEF gap
    <3>3. QED
      BY <2>1, <3>1, <3>2, Zenon
  <2>2. CASE ~(pos > Len(inner))
    BY <1>2, <2>2
  <2>3. QED
    BY <2>1, <2>2
<1>7. /\ room \in Seq(FileBytes \cup {0}) /\ Len(room) = size /\ size \in Nat
      /\ \A i \in 1..size : room[i] = IF i <= Len(inner) THEN inner[i] ELSE 0
  <2> HIDE DEF gap
  <2>1. end \in Nat /\ Len(gap) \in Nat
    BY <1>2, <1>6
  <2>2. CASE end > Len(gap)
    <3>1. room = C!Resize(gap, end) /\ size = end
      BY <1>2, <1>6, <2>1, <2>2
    <3> HIDE DEF room, size, end
    <3>2. /\ room \in Seq(FileBytes \cup {0}) /\ Len(room) = size
          /\ \A i \in 1..size : room[i] = IF i <= Len(gap) THEN gap[i] ELSE 0
      BY <1>5, <1>6, <2>1, <3>1, Zenon
    <3>3. ASSUME NEW i \in 1..size PROVE room[i] = IF i <= Len(inner) THEN inner[i] ELSE 0
      BY <1>2, <1>6, <2>1, <3>1, <3>2, SMTT(30)
    <3>4. QED
      BY <2>1, <3>1, <3>2, <3>3
  <2>3. CASE ~(end > Len(gap))
    BY <1>2, <1>6, <2>1, <2>3
  <2>4. QED
    BY <2>2, <2>3
<1>8. C!Splice(room, pos, bytes) = file
  <2> HIDE DEF room, size
  <2>1. C!Splice(room, pos, bytes) =
          [i \in 1..size |-> IF i \in (pos + 1)..(pos + n) THEN bytes[i - pos] ELSE room[i]]
    BY <1>2, <1>7 DEF C!Splice
  <2>2. ASSUME NEW i \in 1..size
        PROVE  (IF i \in (pos + 1)..(pos + n) THEN bytes[i - pos] ELSE room[i]) =
               (IF i > pos /\ i <= end THEN bytes[i - pos] ELSE IF i <= Len(inner) THEN inner[i] ELSE 0)
    BY <1>2, <1>7
  <2>3. QED
    BY <2>1, <2>2
<1>9. file \in Seq(FileBytes \cup {0}) /\ Len(file) = size
  <2> HIDE DEF size
  <2>1. ASSUME NEW i \in 1..size
        PROVE  (IF i > pos /\ i <= end THEN bytes[i - pos] ELSE IF i <= Len(inner) THEN inner[i] ELSE 0)
                 \in FileBytes \cup {0}
    BY <1>2, <1>7
  <2>2. QED
    BY <1>2, <1>7, <2>1
<1>10. end \in 0..SIGN - 1 /\ size <= MaxLen
  BY <1>2, <1>3
<1> HIDE DEF file, end, size
<1>11. QED
  BY <1>3, <1>4, <1>8, <1>9, <1>10

(* The same seek of both, in range or not, and the same length.            *)
LEMMA CursorSeeks ==
  ASSUME C!CursorAssumption, Compared, NEW from \in {"Start", "End", "Current"}, NEW n \in C!Offsets(from),
         C!CursorSeek(from, n), C!FdSeek(from, n)
  PROVE  Compared'
<1> USE DEF Compared
<1>1. /\ Len(inner) \in Nat /\ SIGN \in Nat /\ MaxLen \in Nat /\ MaxLen < SIGN
      /\ inner' = inner /\ data' = inner
  BY DEF C!CursorAssumption, C!CursorSeek, C!FdSeek
<1>2. CASE from = "Start"
  <2>1. n \in 0..2 * SIGN - 1
    BY <1>2 DEF C!Offsets
  <2>2. QED
    BY <1>1, <1>2, <2>1, SMTT(30) DEF C!CursorSeek, C!FdSeek, C!SeekSum, C!AsI64, C!WrapI64
<1>3. CASE from = "End"
  <2>1. n \in -SIGN..SIGN - 1
    BY <1>3 DEF C!Offsets
  <2>2. QED
    BY <1>1, <1>3, <2>1, SMTT(30) DEF C!CursorSeek, C!FdSeek, C!SeekSum, C!WrapI64
<1>4. CASE from = "Current"
  <2>1. n \in -SIGN..SIGN - 1
    BY <1>4 DEF C!Offsets
  <2>2. QED
    BY <1>1, <1>4, <2>1, SMTT(30) DEF C!CursorSeek, C!FdSeek, C!SeekSum, C!AsI64, C!WrapI64
<1>5. QED
  BY <1>2, <1>3, <1>4

LEMMA CursorResizes ==
  ASSUME C!CursorAssumption, Compared, NEW n \in 0..MaxLen, C!SetLen(n)
  PROVE  Compared'
BY DEF C!CursorAssumption, Compared, C!SetLen, C!Resize

(* A Cursor over a Vec and a File opened for reading and writing return    *)
(* the same and hold the same after the same calls, for every vector,      *)
(* position and offset a u64 or an i64 can hold: beyond the end, after a   *)
(* truncation, around a seek that fails or overflows; until a call that no *)
(* file has a counterpart of, a panic, or, where a usize is shorter than   *)
(* an offset, a read or write at a position that is no usize.              *)
THEOREM CursorIsFileHolds ==
  ASSUME C!CursorAssumption
  PROVE  C!Spec => []CursorIsFile
<1>1. C!Init => CursorInv
  BY DEF C!Init, CursorInv, Compared, C!CursorAssumption
<1>2. CursorInv /\ UNCHANGED C!vars => CursorInv'
  BY DEF C!vars, CursorInv, Compared
<1>3. ASSUME CursorInv, C!Next PROVE CursorInv'
  <2>1. apart = "no" /\ Compared /\ word \in Words /\ word \in Nat /\ SIGN \in Nat
    BY <1>3 DEF C!Next, CursorInv, C!CursorAssumption
  <2>2. ASSUME C!Alike, Compared' PROVE CursorInv'
    BY <2>1, <2>2 DEF C!Alike, CursorInv
  <2>3. ASSUME NEW why \in {"usize", "panic", "empty", "nowhere"}, C!Part(why),
               why = "usize" => pos >= word
        PROVE  CursorInv'
    <3>1. pos \in 0..SIGN - 1
      BY <2>1 DEF Compared
    <3>2. apart' = why /\ word' = word
      BY <2>3 DEF C!Part
    <3>3. QED
      BY <2>1, <2>3, <3>1, <3>2 DEF CursorInv
  <2>4. /\ pos >= word /\ C!Part("usize") => CursorInv'
        /\ C!Part("panic") \/ C!Part("empty") \/ C!Part("nowhere") => CursorInv'
    BY <2>3
  <2>5. CASE C!Reads
    <3>1. PICK n \in 0..MaxIo :
            /\ C!CursorRead(n)
            /\ (pos < word /\ C!FdRead(n) /\ C!Alike) \/ (pos >= word /\ C!Part("usize"))
      BY <2>5, Zenon DEF C!Reads
    <3>2. QED
      BY <2>1, <2>2, <2>4, <3>1, CursorReads, Zenon
  <2>6. CASE C!Writes
    <3>1. PICK n \in 0..MaxIo : \E b \in [1..n -> FileBytes] :
            /\ C!CursorWrite(b)
            /\ \/ pos < word /\ (n > 0 \/ pos <= Len(inner)) /\ C!FdWrite(b) /\ C!Alike
               \/ C!Part("empty") \/ (pos >= word /\ C!Part("usize"))
      BY <2>6, Zenon DEF C!Writes
    <3>2. PICK bytes \in [1..n -> FileBytes] :
            /\ C!CursorWrite(bytes)
            /\ \/ pos < word /\ (n > 0 \/ pos <= Len(inner)) /\ C!FdWrite(bytes) /\ C!Alike
               \/ C!Part("empty") \/ (pos >= word /\ C!Part("usize"))
      BY <3>1, Zenon
    <3>3. QED
      BY <2>1, <2>2, <2>4, <3>2, CursorWrites, Zenon
  <2>7. CASE C!Seeks
    <3>1. PICK from \in {"Start", "End", "Current"} : \E n \in C!Offsets(from) :
            (C!CursorSeek(from, n) /\ C!FdSeek(from, n) /\ C!Alike) \/ C!Part("panic")
      BY <2>7, Zenon DEF C!Seeks
    <3>2. PICK n \in C!Offsets(from) :
            (C!CursorSeek(from, n) /\ C!FdSeek(from, n) /\ C!Alike) \/ C!Part("panic")
      BY <3>1, Zenon
    <3>3. QED
      BY <2>1, <2>2, <2>4, <3>2, CursorSeeks, Zenon
  <2>8. CASE C!Positions
    <3>1. PICK n \in 0..2 * SIGN - 1 :
            /\ C!SetPosition(n)
            /\ (n < SIGN /\ C!FdSeek("Start", n) /\ C!Alike) \/ C!Part("nowhere")
      BY <2>8, Zenon DEF C!Positions
    <3>2. ASSUME n < SIGN, C!FdSeek("Start", n) PROVE Compared'
      <4>1. /\ pos' = n /\ cret' = <<"Ok", n>> /\ inner' = inner
            /\ inner \in Seq(FileBytes \cup {0}) /\ Len(inner) <= MaxLen /\ inner = data
        BY <2>1, <3>1 DEF Compared, C!SetPosition
      <4>2. offset' = n /\ fret' = <<"Ok", n>> /\ data' = data
        BY <2>1, <3>2, SMTT(30) DEF C!FdSeek, C!AsI64, C!WrapI64
      <4>3. QED
        BY <2>1, <3>2, <4>1, <4>2 DEF Compared
    <3>3. QED
      BY <2>2, <2>4, <3>1, <3>2, Zenon
  <2>9. ASSUME NEW n \in 0..MaxLen, C!SetLen(n) PROVE CursorInv'
    BY <2>1, <2>9, CursorResizes DEF CursorInv, C!SetLen
  <2>10. QED
    BY <1>3, <2>5, <2>6, <2>7, <2>8, <2>9, Zenon DEF C!Next
<1>4. CursorInv => CursorIsFile
  BY DEF CursorInv, Compared, CursorIsFile, C!CursorIsFile
<1>5. QED
  BY <1>1, <1>2, <1>3, <1>4, PTL DEF C!Spec

-----------------------------------------------------------------------------
(* io::copy, read_vectored and write_vectored move every byte once and in  *)
(* order, for sources and buffers of any length.                           *)

CONSTANTS Shapes, Total, BUF, MaxInterrupts               \* see Transfer

VARIABLES op, target, shape, source, sink, bufs, at, total, ret, terrors

T == INSTANCE Transfer WITH Ops <- {"copy", "readv", "writev"},
                            Targets <- {"default", "kernel", "wasi"},
                            MaxErrors <- MaxInterrupts, errors <- terrors

ASSUME MovingAssumption == T!TransferAssumption

(* copy, read_vectored, write_vectored: the count they return is what they *)
(* moved, in order.                                                        *)
TransferExact == T!TransferExact

(* The positions from a to b of a stream.                                  *)
Run(a, b) == [i \in 1..(b - a) |-> a + i]

LEMMA RunIs ==
  ASSUME NEW a \in Nat, NEW b \in Nat, a <= b
  PROVE  /\ Run(a, b) \in Seq(Nat) /\ Len(Run(a, b)) = b - a
         /\ \A i \in 1..(b - a) : Run(a, b)[i] = a + i
         /\ (Run(a, b) = <<>> <=> a = b)
BY DEF Run

(* A run is cut, and joined, at any position in it.                        *)
RunCut(a, b, c) ==
  /\ Run(a, b) \o Run(b, c) = Run(a, c)
  /\ SubSeq(Run(a, c), 1, b - a) = Run(a, b)
  /\ SubSeq(Run(a, c), (b - a) + 1, Len(Run(a, c))) = Run(b, c)

LEMMA RunParts ==
  ASSUME NEW a \in Nat, NEW b \in Nat, NEW c \in Nat, a <= b, b <= c
  PROVE  RunCut(a, b, c)
<1> DEFINE x == Run(a, b)
           y == Run(b, c)
           z == Run(a, c)
<1>0. a <= c
  OBVIOUS
<1>1. /\ x \in Seq(Nat) /\ y \in Seq(Nat) /\ z \in Seq(Nat)
      /\ Len(x) = b - a /\ Len(y) = c - b /\ Len(z) = c - a
      /\ \A i \in 1..(b - a) : x[i] = a + i
      /\ \A i \in 1..(c - b) : y[i] = b + i
      /\ \A i \in 1..(c - a) : z[i] = a + i
  BY <1>0, RunIs, Zenon
<1> HIDE DEF x, y, z
<1>2. PICK m \in Nat, n \in Nat : m = b - a /\ n = c - b /\ m + n = c - a
  OBVIOUS
<1>3. x \o y = z
  <2>1. /\ x \o y \in Seq(Nat) /\ Len(x \o y) = Len(x) + Len(y)
        /\ \A i \in 1..Len(x) : (x \o y)[i] = x[i]
        /\ \A i \in (Len(x) + 1)..(Len(x) + Len(y)) : (x \o y)[i] = y[i - Len(x)]
    <3>1. x \in Seq(Nat) /\ y \in Seq(Nat)
      BY <1>1
    <3>2. QED
      BY ONLY <3>1, Appended, ZenonT(60)
  <2> DEFINE d == x \o y
  <2> HIDE DEF d
  <2>2. d \in Seq(Nat) /\ Len(d) = m + n
    BY <1>1, <1>2, <2>1 DEF d
  <2>3. ASSUME NEW i \in 1..(m + n) PROVE d[i] = z[i]
    <3>1. CASE i <= m
      BY <1>1, <1>2, <2>1, <3>1 DEF d
    <3>2. CASE i > m
      <4>1. i - m \in 1..n /\ b + (i - m) = a + i /\ i \in (m + 1)..(m + n)
        BY <1>2, <3>2
      <4>2. Len(x) = m /\ Len(y) = n
        BY <1>1, <1>2
      <4>3. d[i] = y[i - m]
        BY <2>1, <4>1, <4>2, Zenon DEF d
      <4>4. QED
        BY <1>1, <1>2, <4>1, <4>3
    <3>3. QED
      BY <1>2, <3>1, <3>2
  <2>4. d = z
    BY ONLY <1>1, <1>2, <2>2, <2>3, SameSequence, ZenonT(60)
  <2>5. QED
    BY <2>4 DEF d
<1>4. m \in 0..Len(z) /\ Len(z) - m = n
  BY <1>1, <1>2
<1>5. /\ SubSeq(z, 1, m) \in Seq(Nat) /\ Len(SubSeq(z, 1, m)) = m
      /\ SubSeq(z, m + 1, Len(z)) \in Seq(Nat) /\ Len(SubSeq(z, m + 1, Len(z))) = n
      /\ \A i \in 1..m : SubSeq(z, 1, m)[i] = z[i]
      /\ \A i \in 1..n : SubSeq(z, m + 1, Len(z))[i] = z[m + i]
  BY <1>1, <1>4, SMTT(30)
<1>6. SubSeq(z, 1, m) = x
  <2> DEFINE d == SubSeq(z, 1, m)
  <2>1. d \in Seq(Nat) /\ Len(d) = m /\ \A i \in 1..m : d[i] = z[i]
    BY <1>5, Zenon
  <2> HIDE DEF d
  <2>2. \A i \in 1..m : d[i] = x[i]
    BY <1>1, <1>2, <2>1
  <2>3. d = x
    BY ONLY <1>1, <1>2, <2>1, <2>2, SameSequence
  <2>4. QED
    BY <2>3 DEF d
<1>7. SubSeq(z, m + 1, Len(z)) = y
  <2> DEFINE d == SubSeq(z, m + 1, Len(z))
  <2>1. d \in Seq(Nat) /\ Len(d) = n /\ \A i \in 1..n : d[i] = z[m + i]
    BY <1>5, Zenon
  <2> HIDE DEF d
  <2>2. ASSUME NEW i \in 1..n PROVE d[i] = y[i]
    <3>1. m + i \in 1..(c - a) /\ a + (m + i) = b + i
      BY <1>2
    <3>2. QED
      BY <1>1, <1>2, <2>1, <3>1
  <2>3. d = y
    BY ONLY <1>1, <1>2, <2>1, <2>2, SameSequence
  <2>4. QED
    BY <2>3 DEF d
<1>8. QED
  BY <1>2, <1>3, <1>6, <1>7 DEF x, y, z, RunCut
(* Where the three calls are when the reader has given g bytes and the     *)
(* writer has taken w.                                                     *)
CopyAt(g, w) ==
  /\ w <= g /\ bufs = Run(w, g)
  /\ IF w = g THEN total = w ELSE total + at = g
  /\ ret[1] = "Ok" => ret[2] = Total /\ w = Total

NoneRead == Total = 0 \/ T!Sum = 0 \/ (target = "wasi" /\ shape[1] = 0)

ReadvAt(g) ==
  /\ ret[1] = "Ok" => ret[2] = g
  /\ ret[1] = "Ok" \/ target = "wasi" => bufs = T!Scatter(Run(0, g))
  /\ ret[1] = "Ok" /\ g = 0 => NoneRead
  /\ ret[1] = "none" /\ target # "wasi" => g = 0
  /\ ret[1] = "none" /\ target = "wasi" =>
       /\ total = g
       /\ IF at <= Len(shape) THEN g = T!Start(at) ELSE g = 0 => NoneRead

WritevAt(w) ==
  /\ ret[1] = "Ok" => ret[2] = w
  /\ ret[1] = "none" /\ target = "wasi" =>
       total = w /\ (at <= Len(shape) => w = T!Start(at))

Returned == ret = <<"none">> \/ ret = <<"Err">> \/ \E n \in Nat : ret = <<"Ok", n>>

TransferAt(g, w) ==
  /\ source = Run(g, Total) /\ sink = Run(0, w)
  /\ op = "copy" => CopyAt(g, w)
  /\ op = "readv" => ReadvAt(g)
  /\ op = "writev" => WritevAt(w)

TransferTypes ==
  /\ op \in {"copy", "readv", "writev"} /\ target \in {"default", "kernel", "wasi"}
  /\ shape \in Shapes /\ total \in Nat /\ at \in Nat /\ (op # "copy" => at > 0) /\ Returned

TransferInv == TransferTypes /\ \E g \in 0..Total, w \in Nat : TransferAt(g, w)

(* A piece of a run from the start of the stream.                          *)
LEMMA RunPiece ==
  ASSUME NEW a \in Nat, NEW b \in Nat, NEW t \in Nat
  PROVE  /\ a <= b /\ b <= t => SubSeq(Run(0, t), a + 1, b) = Run(a, b)
         /\ b <= a => SubSeq(Run(0, t), a + 1, b) = <<>>
<1> DEFINE z == Run(0, t)
<1>1. z \in Seq(Nat) /\ Len(z) = t /\ \A i \in 1..t : z[i] = i
  BY DEF Run
<1> HIDE DEF z
<1>2. CASE a <= b /\ b <= t
  <2> DEFINE x == SubSeq(z, a + 1, b)
             y == Run(a, b)
  <2>1. x \in Seq(Nat) /\ Len(x) = b - a /\ \A i \in 1..(b - a) : x[i] = z[a + i]
    <3>1. z \in Seq(Nat) /\ a <= b /\ b <= Len(z)
      BY <1>1, <1>2
    <3>2. QED
      BY ONLY <3>1, a \in Nat, b \in Nat, SliceIs
  <2>2. y \in Seq(Nat) /\ Len(y) = b - a /\ \A i \in 1..(b - a) : y[i] = a + i
    BY <1>2, RunIs
  <2> HIDE DEF x, y
  <2>3. PICK m \in Nat : m = b - a
    BY <1>2
  <2>4. ASSUME NEW i \in 1..m PROVE x[i] = y[i]
    <3>1. a + i \in 1..t
      BY <1>2, <2>3
    <3>2. QED
      BY <1>1, <2>1, <2>2, <2>3, <3>1
  <2>5. x = y
    BY ONLY <2>1, <2>2, <2>3, <2>4, SameSequence
  <2>6. QED
    BY <1>2, <2>5 DEF x, y, z
<1>3. b <= a => SubSeq(z, a + 1, b) = <<>>
  BY <1>1
<1>4. QED
  BY <1>2, <1>3 DEF z

(* Buffers laid end to end.                                                *)
LEMMA Laid ==
  ASSUME T!TransferAssumption, shape \in Shapes
  PROVE  /\ Len(shape) \in Nat /\ T!Sum \in Nat
         /\ \A i \in 1..Len(shape) :
              /\ shape[i] \in Nat /\ T!Start(i) \in Nat /\ T!Start(i) <= shape[i] /\ shape[i] <= T!Sum
              /\ T!Size(i) \in Nat /\ T!Start(i) + T!Size(i) = shape[i]
              /\ \A j \in 1..Len(shape) : i < j => shape[i] <= T!Start(j)
<1>1. PICK n \in Nat : n = Len(shape) /\ shape \in [1..n -> Nat]
  BY DEF T!TransferAssumption
<1>2. \A i, j \in 1..n : i <= j => shape[i] <= shape[j]
  BY <1>1 DEF T!TransferAssumption
<1>3. T!Sum \in Nat /\ \A i \in 1..n : shape[i] <= T!Sum
  <2>1. CASE n = 0
    BY <1>1, <2>1 DEF T!Sum
  <2>2. CASE n # 0
    BY <1>1, <1>2, <2>2 DEF T!Sum
  <2>3. QED
    BY <2>1, <2>2
<1>4. ASSUME NEW i \in 1..n
      PROVE  /\ shape[i] \in Nat /\ T!Start(i) \in Nat /\ T!Start(i) <= shape[i]
             /\ \A j \in 1..n : i < j => shape[i] <= T!Start(j)
  BY <1>1, <1>2 DEF T!Start
<1>5. ASSUME NEW i \in 1..n PROVE T!Size(i) \in Nat /\ T!Start(i) + T!Size(i) = shape[i]
  <2>1. PICK s \in Nat, e \in Nat : s = T!Start(i) /\ e = shape[i] /\ s <= e
    BY <1>4
  <2>2. QED
    BY <2>1 DEF T!Size
<1>6. QED
  BY <1>1, <1>3, <1>4, <1>5

(* The next k bytes go into the buffer the bytes before have reached.      *)
LEMMA Scattered ==
  ASSUME T!TransferAssumption, shape \in Shapes, NEW n \in 1..Len(shape),
         NEW g \in Nat, g = T!Start(n), NEW k \in Nat, k <= T!Size(n)
  PROVE  T!Scatter(Run(0, g + k)) = [T!Scatter(Run(0, g)) EXCEPT ![n] = Run(g, g + k)]
<1>1. /\ Len(shape) \in Nat
      /\ \A i \in 1..Len(shape) :
           /\ shape[i] \in Nat /\ T!Start(i) \in Nat /\ T!Start(i) <= shape[i]
           /\ T!Size(i) \in Nat /\ T!Start(i) + T!Size(i) = shape[i]
           /\ \A j \in 1..Len(shape) : i < j => shape[i] <= T!Start(j)
  BY Laid
<1>2. Len(Run(0, g)) = g /\ Len(Run(0, g + k)) = g + k /\ g + k \in Nat
  BY DEF Run
<1> DEFINE Piece(t, i) == SubSeq(Run(0, t), T!Start(i) + 1, IF shape[i] < t THEN shape[i] ELSE t)
<1>3. /\ T!Scatter(Run(0, g)) = [i \in 1..Len(shape) |-> Piece(g, i)]
      /\ T!Scatter(Run(0, g + k)) = [i \in 1..Len(shape) |-> Piece(g + k, i)]
  BY <1>2, Zenon DEF T!Scatter, T!Min2
<1>4. ASSUME NEW i \in 1..Len(shape)
      PROVE  Piece(g + k, i) = IF i = n THEN Run(g, g + k) ELSE Piece(g, i)
  <2>1. PICK s \in Nat, e \in Nat : s = T!Start(i) /\ e = shape[i] /\ s <= e
    BY <1>1, Zenon
  <2>2. CASE i = n
    <3>1. s = g /\ g + k <= e /\ g <= g + k /\ g + k <= g + k /\ g + k \in Nat
      BY <1>1, <2>1, <2>2
    <3>2. SubSeq(Run(0, g + k), g + 1, g + k) = Run(g, g + k)
      BY <3>1, RunPiece, ZenonT(60)
    <3>3. (IF e < g + k THEN e ELSE g + k) = g + k
      BY <3>1
    <3>4. QED
      BY <2>1, <2>2, <3>1, <3>2, <3>3, Zenon
  <2>3. CASE i < n
    <3>1. e <= g /\ e <= g + k /\ g + k \in Nat
      <4>1. shape[i] <= T!Start(n)
        BY <1>1, <2>3
      <4>2. QED
        BY <2>1, <4>1
    <3>2. SubSeq(Run(0, g), s + 1, e) = Run(s, e) /\ SubSeq(Run(0, g + k), s + 1, e) = Run(s, e)
      BY <2>1, <3>1, RunPiece, ZenonT(60)
    <3>3. (IF e < g + k THEN e ELSE g + k) = e /\ (IF e < g THEN e ELSE g) = e
      BY <3>1
    <3>4. i # n
      BY <1>1, <2>3
    <3>5. QED
      BY <2>1, <3>2, <3>3, <3>4, Zenon
  <2>4. CASE i > n
    <3>1. g + k <= s /\ g <= s /\ g + k \in Nat
      <4>1. g + k <= shape[n]
        BY <1>1
      <4>2. shape[n] \in Nat /\ shape[n] <= s
        BY <1>1, <2>1, <2>4
      <4>3. QED
        BY <4>1, <4>2, SMTT(30)
    <3>2. (IF e < g + k THEN e ELSE g + k) = g + k /\ (IF e < g THEN e ELSE g) = g
      BY <2>1, <3>1
    <3>3. SubSeq(Run(0, g), s + 1, g) = <<>> /\ SubSeq(Run(0, g + k), s + 1, g + k) = <<>>
      <4>1. SubSeq(Run(0, g), s + 1, g) = <<>>
        BY <2>1, <3>1, RunPiece, SMTT(30)
      <4>2. SubSeq(Run(0, g + k), s + 1, g + k) = <<>>
        <5>1. PICK h \in Nat : h = g + k
          BY <3>1
        <5>2. SubSeq(Run(0, h), s + 1, h) = <<>>
          <6>1. s \in Nat /\ h <= s
            BY <3>1, <5>1
          <6>2. QED
            BY ONLY <6>1, h \in Nat, RunPiece
        <5>3. QED
          BY <5>1, <5>2
      <4>3. QED
        BY <4>1, <4>2
    <3>4. i # n
      BY <1>1, <2>4
    <3>5. QED
      BY <2>1, <3>2, <3>3, <3>4, Zenon
  <2>5. i = n \/ i < n \/ i > n
    BY <1>1
  <2>6. QED
    BY <2>2, <2>3, <2>4, <2>5, Zenon
<1> HIDE DEF Piece
<1>5. QED
  BY <1>3, <1>4

(* One read gives the bytes that follow.                                   *)
LEMMA Taken ==
  ASSUME T!TransferAssumption, NEW g \in 0..Total, source = Run(g, Total),
         NEW n \in Nat, NEW k \in Nat, T!Gives(n, k), T!Take(k)
  PROVE  /\ k <= n /\ g + k \in 0..Total /\ (k = 0 <=> n = 0 \/ g = Total)
         /\ SubSeq(source, 1, k) = Run(g, g + k) /\ source' = Run(g + k, Total)
<1>1. PICK t \in Nat : t = Total /\ g \in Nat /\ g <= t
  BY DEF T!TransferAssumption
<1>2. Len(source) = t - g /\ (source = <<>> <=> g = t)
  BY <1>1, RunIs, Zenon
<1>3. k <= n /\ g + k <= t /\ (k = 0 <=> n = 0 \/ g = t)
  BY <1>1, <1>2 DEF T!Gives, T!Min2
<1>4. PICK h \in Nat : h = g + k /\ g <= h /\ h <= t /\ k = h - g
  BY <1>1, <1>3
<1>5. RunCut(g, h, t)
  <2>1. g \in Nat /\ g <= h /\ h <= t
    BY <1>1, <1>4
  <2>2. QED
    BY ONLY <2>1, h \in Nat, t \in Nat, RunParts, Zenon
<1>6. QED
  BY <1>1, <1>3, <1>4, <1>5 DEF T!Take, RunCut

(* read_vectored: one read, whose bytes fill the buffers in order.         *)
LEMMA TransferReadVectored ==
  ASSUME T!TransferAssumption, TransferTypes, NEW g \in 0..Total, NEW w \in Nat,
         TransferAt(g, w), T!ReadVectored
  PROVE  TransferInv'
<1>1. /\ ret = <<"none">> /\ op = "readv" /\ target # "wasi" /\ g = 0
      /\ source = Run(g, Total) /\ sink = Run(0, w)
  BY DEF T!ReadVectored, T!Running, TransferAt, ReadvAt
<1>2. PICK n \in 0..T!Sum, k \in 0..Total :
         /\ T!Offers(n) /\ T!Gives(n, k)
         /\ bufs' = T!Scatter(SubSeq(source, 1, k))
         /\ T!Take(k) /\ ret' = <<"Ok", k>>
  BY DEF T!ReadVectored
<1>3. /\ op' = op /\ target' = target /\ shape' = shape /\ sink' = sink /\ at' = at /\ total' = total
  BY DEF T!ReadVectored, T!SameCall
<1>4. n \in Nat /\ k \in Nat /\ T!Sum \in Nat /\ shape \in Shapes
  BY Laid DEF T!TransferAssumption, TransferTypes
<1>5. /\ g + k \in 0..Total /\ (k = 0 <=> n = 0 \/ g = Total)
      /\ SubSeq(source, 1, k) = Run(g, g + k) /\ source' = Run(g + k, Total)
  BY <1>1, <1>2, <1>4, Taken
<1>6. g + k = k
  BY <1>1, <1>4
<1>7. n = 0 => T!Sum = 0
  <2>1. CASE target = "default" /\ n = 0
    <3>1. \A i \in 1..Len(shape) : shape[i] = 0
      BY <1>2, <2>1 DEF T!Offers, T!FirstLen
    <3>2. Len(shape) \in Nat /\ (shape # <<>> => Len(shape) \in 1..Len(shape))
      BY <1>4 DEF T!TransferAssumption
    <3>3. QED
      BY <3>1, <3>2 DEF T!Sum
  <2>2. CASE target # "default" /\ n = 0
    BY <1>2, <2>2 DEF T!Offers
  <2>3. QED
    BY <2>1, <2>2
<1>8. /\ T!Scatter(Run(0, k))' = T!Scatter(Run(0, k)) /\ (T!Sum)' = T!Sum
  BY <1>3 DEF T!Scatter, T!Start, T!Sum, Run
<1>9. ReadvAt(k)'
  <2>1. ret'[1] = "Ok" /\ ret'[2] = k
    BY <1>2
  <2>2. bufs' = T!Scatter(Run(0, k))'
    BY <1>1, <1>2, <1>5, <1>6, <1>8, Zenon
  <2>3. k = 0 => NoneRead'
    BY <1>1, <1>5, <1>7, <1>8, ZenonT(60) DEF NoneRead
  <2>4. QED
    BY <2>1, <2>2, <2>3 DEF ReadvAt
<1>10. TransferAt(k, w)'
  BY <1>1, <1>3, <1>5, <1>6, <1>9 DEF TransferAt, Run
<1>11. TransferTypes'
  BY <1>1, <1>2, <1>3, <1>4 DEF TransferTypes, Returned
<1>12. QED
  BY <1>5, <1>6, <1>10, <1>11, ZenonT(60) DEF TransferInv

(* write_vectored: a prefix of the buffers is written.                     *)
LEMMA TransferWriteVectored ==
  ASSUME T!TransferAssumption, TransferTypes, NEW g \in 0..Total, NEW w \in Nat,
         TransferAt(g, w), T!WriteVectored
  PROVE  TransferInv'
<1>1. op = "writev" /\ target # "wasi" /\ source = Run(g, Total)
  BY DEF T!WriteVectored, T!Running, TransferAt
<1>2. PICK k \in 0..T!Sum : sink' = T!Upto(k) /\ ret' = <<"Ok", k>>
  BY DEF T!WriteVectored
<1>3. /\ op' = op /\ target' = target /\ shape' = shape /\ source' = source /\ at' = at /\ total' = total
  BY DEF T!WriteVectored, T!SameCall
<1>4. k \in Nat
  BY Laid DEF TransferTypes
<1>5. sink' = Run(0, k)
  BY <1>2, <1>4, SMTT(30) DEF T!Upto, Run
<1>6. TransferAt(g, k)'
  BY <1>1, <1>2, <1>3, <1>5 DEF TransferAt, WritevAt, Run
<1>7. TransferTypes'
  BY <1>2, <1>3, <1>4 DEF TransferTypes, Returned
<1>8. QED
  BY <1>4, <1>6, <1>7 DEF TransferInv

(* The WASI loop of read_vectored, one buffer after another.               *)
LEMMA TransferWasiRead ==
  ASSUME T!TransferAssumption, TransferTypes, NEW g \in 0..Total, NEW w \in Nat,
         TransferAt(g, w), T!WasiRead
  PROVE  TransferInv'
<1>1. /\ ret = <<"none">> /\ op = "readv" /\ target = "wasi" /\ at \in 1..Len(shape)
      /\ source = Run(g, Total) /\ sink = Run(0, w) /\ shape \in Shapes
      /\ total = g /\ bufs = T!Scatter(Run(0, g)) /\ g = T!Start(at)
  <2>1. /\ ret = <<"none">> /\ op = "readv" /\ target = "wasi" /\ at <= Len(shape)
    BY DEF T!WasiRead, T!Running
  <2>2. at \in Nat /\ at > 0 /\ shape \in Shapes /\ Len(shape) \in Nat
    BY <2>1, Laid, SMTT(30) DEF TransferTypes
  <2>3. /\ source = Run(g, Total) /\ sink = Run(0, w)
        /\ total = g /\ bufs = T!Scatter(Run(0, g)) /\ g = T!Start(at)
    BY <2>1 DEF TransferAt, ReadvAt
  <2>4. QED
    BY <2>1, <2>2, <2>3
<1>2. PICK k \in 0..T!Size(at) :
         /\ T!Gives(T!Size(at), k)
         /\ bufs' = [bufs EXCEPT ![at] = SubSeq(source, 1, k)]
         /\ T!Take(k)
         /\ total' = total + k
         /\ at' = IF k = 0 \/ k < T!Size(at) THEN Len(shape) + 1 ELSE at + 1
  BY Zenon DEF T!WasiRead
<1>3. /\ op' = op /\ target' = target /\ shape' = shape /\ sink' = sink /\ ret' = ret
  BY DEF T!WasiRead, T!SameCall
<1>4. PICK l \in Nat, n \in Nat : l = T!Size(at) /\ n = Len(shape)
  BY <1>1, Laid
<1>5. k \in Nat /\ k <= l /\ g \in Nat
  BY <1>2, <1>4, SMTT(30) DEF T!TransferAssumption
<1>6. /\ g + k \in 0..Total /\ (k = 0 <=> l = 0 \/ g = Total)
      /\ SubSeq(source, 1, k) = Run(g, g + k) /\ source' = Run(g + k, Total)
  BY <1>1, <1>2, <1>4, <1>5, Taken, SMTT(30)
<1> DEFINE h == g + k
<1>7. h \in 0..Total /\ h \in Nat /\ (h = 0 => g = 0 /\ k = 0)
  BY <1>5, <1>6
<1>8. bufs' = T!Scatter(Run(0, h))
  <2>1. T!Scatter(Run(0, g + k)) = [T!Scatter(Run(0, g)) EXCEPT ![at] = Run(g, g + k)]
    BY <1>1, <1>4, <1>5, Scattered
  <2>2. QED
    BY <1>1, <1>2, <1>6, <2>1, ZenonT(60)
<1>9. /\ T!Scatter(Run(0, h))' = T!Scatter(Run(0, h)) /\ (T!Sum)' = T!Sum
      /\ \A i : T!Start(i)' = IF i = 1 THEN 0 ELSE shape[i - 1]
  BY <1>3 DEF T!Scatter, T!Start, T!Sum, Run
<1>10. k = 0 \/ k < l => (h = 0 => NoneRead)
  <2>1. SUFFICES ASSUME h = 0 PROVE NoneRead
    OBVIOUS
  <2>2. CASE g = Total
    BY <1>7, <2>1, <2>2 DEF NoneRead
  <2>3. CASE l = 0
    <3>1. shape[at] = 0
      <4>1. shape[at] \in Nat /\ T!Start(at) + T!Size(at) = shape[at]
        BY <1>1, Laid
      <4>2. QED
        BY <1>1, <1>4, <1>7, <2>1, <2>3, <4>1, ZenonT(60)
    <3>2. shape[1] = 0
      <4>1. 1 \in 1..Len(shape) /\ 1 <= at /\ shape[1] \in Nat /\ shape \in Shapes
        BY <1>1, <1>4, Laid
      <4>2. shape[1] <= shape[at]
        BY <1>1, <4>1, SMTT(30) DEF T!TransferAssumption
      <4>3. QED
        BY <3>1, <4>1, <4>2
    <3>3. QED
      BY <1>1, <3>2 DEF NoneRead
  <2>4. QED
    BY <1>6, <1>7, <2>1, <2>2, <2>3
<1>11. ~(k = 0 \/ k < l) => h = shape[at] /\ at' = at + 1 /\ h # 0
  <2>1. shape[at] \in Nat /\ T!Start(at) + T!Size(at) = shape[at]
    BY <1>1, Laid
  <2>2. QED
    BY <1>1, <1>2, <1>4, <1>5, <2>1, SMTT(30)
<1>12. k = 0 \/ k < l => at' = n + 1
  BY <1>2, <1>4
<1> HIDE DEF h
<1>13. total' = h
  BY <1>1, <1>2 DEF h
<1>14. IF at' <= Len(shape)' THEN h = T!Start(at') ELSE h = 0 => NoneRead
  <2>1. CASE k = 0 \/ k < l
    BY <1>3, <1>4, <1>10, <1>12, <2>1
  <2>2. CASE ~(k = 0 \/ k < l)
    <3>1. at \in Nat /\ at > 0 /\ at + 1 # 1 /\ (at + 1) - 1 = at
      BY <1>1, <1>4
    <3>2. T!Start(at') = shape[at]
      BY <1>11, <2>2, <3>1 DEF T!Start
    <3>3. QED
      BY <1>11, <2>2, <3>2
  <2>3. QED
    BY <2>1, <2>2
<1>15. NoneRead' <=> NoneRead
  BY <1>3, <1>9 DEF NoneRead
<1>16. T!Start(at)' = T!Start(at')
  BY <1>3, Zenon DEF T!Start
<1>17. ReadvAt(h)'
  BY <1>1, <1>3, <1>8, <1>9, <1>13, <1>14, <1>15, <1>16, Zenon DEF ReadvAt
<1>18. TransferAt(h, w)'
  BY <1>1, <1>3, <1>6, <1>17, ZenonT(60) DEF TransferAt, Run, h
<1>19. TransferTypes'
  <2>1. at' \in Nat /\ at' > 0
    BY <1>1, <1>4, <1>11, <1>12
  <2>2. QED
    BY <1>1, <1>3, <1>7, <1>13, <2>1 DEF TransferTypes, Returned
<1>20. QED
  BY <1>7, <1>18, <1>19 DEF TransferInv

(* The WASI loop of write_vectored.                                        *)
LEMMA TransferWasiWrite ==
  ASSUME T!TransferAssumption, TransferTypes, NEW g \in 0..Total, NEW w \in Nat,
         TransferAt(g, w), T!WasiWrite
  PROVE  TransferInv'
<1>1. /\ ret = <<"none">> /\ op = "writev" /\ target = "wasi" /\ at \in 1..Len(shape)
      /\ source = Run(g, Total) /\ sink = Run(0, w) /\ shape \in Shapes
      /\ total = w /\ w = T!Start(at)
  <2>1. /\ ret = <<"none">> /\ op = "writev" /\ target = "wasi" /\ at <= Len(shape)
    BY DEF T!WasiWrite, T!Running
  <2>2. at \in Nat /\ at > 0 /\ shape \in Shapes /\ Len(shape) \in Nat
    BY <2>1, Laid, Zenon DEF TransferTypes
  <2>3. source = Run(g, Total) /\ sink = Run(0, w) /\ total = w /\ w = T!Start(at)
    BY <2>1 DEF TransferAt, WritevAt
  <2>4. QED
    BY <2>1, <2>2, <2>3
<1>2. PICK k \in 0..T!Size(at) :
         /\ sink' = sink \o [i \in 1..k |-> T!Start(at) + i]
         /\ total' = total + k
         /\ at' = IF k < T!Size(at) THEN Len(shape) + 1 ELSE at + 1
  BY DEF T!WasiWrite
<1>3. /\ op' = op /\ target' = target /\ shape' = shape /\ source' = source /\ ret' = ret
  BY DEF T!WasiWrite, T!SameCall
<1>4. PICK l \in Nat, n \in Nat : l = T!Size(at) /\ n = Len(shape)
  BY <1>1, Laid
<1>5. PICK h \in Nat : k \in Nat /\ k <= l /\ h = w + k /\ w <= h /\ h - w = k
  BY <1>2, <1>4
<1>6. sink' = Run(0, h)
  <2>1. [i \in 1..k |-> T!Start(at) + i] = Run(w, h)
    BY <1>1, <1>5 DEF Run
  <2>2. 0 \in Nat /\ 0 <= w
    OBVIOUS
  <2>3. RunCut(0, w, h)
    BY ONLY <1>5, <2>2, w \in Nat, h \in Nat, RunParts, Zenon
  <2>4. QED
    BY <1>1, <1>2, <2>1, <2>3, Zenon DEF RunCut
<1>7. total' = h
  BY <1>1, <1>2, <1>5
<1>8. at' <= Len(shape)' => h = T!Start(at')
  <2>1. CASE k < l
    BY <1>2, <1>3, <1>4, <2>1
  <2>2. CASE ~(k < l)
    <3>1. at \in Nat /\ at + 1 # 1 /\ (at + 1) - 1 = at /\ at' = at + 1
      BY <1>1, <1>2, <1>4, <2>2
    <3>2. T!Start(at') = shape[at]
      BY <3>1 DEF T!Start
    <3>3. shape[at] \in Nat /\ T!Start(at) + T!Size(at) = shape[at]
      BY <1>1, Laid
    <3>4. QED
      BY <1>1, <1>4, <1>5, <2>2, <3>2, <3>3
  <2>3. QED
    BY <2>1, <2>2
<1>9. T!Start(at)' = T!Start(at')
  BY <1>3 DEF T!Start
<1>10. WritevAt(h)'
  BY <1>1, <1>3, <1>7, <1>8, <1>9, Zenon DEF WritevAt
<1>11. TransferAt(g, h)'
  BY <1>1, <1>3, <1>6, <1>10, Zenon DEF TransferAt, Run
<1>12. TransferTypes'
  <2>1. at' \in Nat /\ at' > 0
    BY <1>1, <1>2, <1>4, SMTT(30)
  <2>2. QED
    BY <1>1, <1>3, <1>7, <2>1 DEF TransferTypes, Returned
<1>13. QED
  BY <1>11, <1>12 DEF TransferInv

(* What returns without moving a byte: an error, the end of a WASI loop;   *)
(* and what does neither.                                                  *)
LEMMA TransferReturns ==
  ASSUME TransferTypes, NEW g \in 0..Total, NEW w \in Nat, TransferAt(g, w),
         T!Interrupted \/ T!Fails \/ T!WasiEnds \/ UNCHANGED T!vars
  PROVE  TransferInv'
<1>1. /\ op' = op /\ target' = target /\ shape' = shape /\ source' = source /\ sink' = sink
      /\ bufs' = bufs /\ at' = at /\ total' = total
      /\ \/ ret' = ret \/ ret' = <<"Err">>
         \/ ret = <<"none">> /\ op # "copy" /\ target = "wasi" /\ at > Len(shape) /\ ret' = <<"Ok", total>>
  BY DEF T!Interrupted, T!Fails, T!WasiEnds, T!vars, T!SameCall
<1>2. total \in Nat
  BY DEF TransferTypes
<1>3. TransferTypes'
  BY <1>1, <1>2 DEF TransferTypes, Returned
<1>4. TransferAt(g, w)'
  <2>1. (T!Sum)' = T!Sum /\ T!Scatter(Run(0, g))' = T!Scatter(Run(0, g)) /\ (T!Start(at))' = T!Start(at)
    BY <1>1 DEF T!Sum, T!Scatter, T!Start, Run
  <2>2. NoneRead' <=> NoneRead
    BY <1>1, <2>1, Zenon DEF NoneRead
  <2>3. CASE ret' = ret
    BY <1>1, <2>1, <2>2, <2>3, ZenonT(60) DEF TransferAt, CopyAt, ReadvAt, WritevAt, Run
  <2>4. CASE ret' = <<"Err">>
    BY <1>1, <2>1, <2>2, <2>4 DEF TransferAt, CopyAt, ReadvAt, WritevAt, Run
  <2>5. CASE /\ ret = <<"none">> /\ op # "copy" /\ target = "wasi" /\ at > Len(shape)
             /\ ret' = <<"Ok", total>>
    <3>1. ~(at <= Len(shape))
      BY <1>2, <2>5 DEF TransferTypes
    <3>2. QED
      BY <1>1, <2>1, <2>2, <2>5, <3>1, Zenon DEF TransferAt, ReadvAt, WritevAt, Run
  <2>6. QED
    BY <1>1, <2>3, <2>4, <2>5
<1>5. QED
  BY <1>3, <1>4 DEF TransferInv

(* io::copy reads into its buffer ...                                      *)
LEMMA TransferCopyRead ==
  ASSUME T!TransferAssumption, TransferTypes, NEW g \in 0..Total, NEW w \in Nat,
         TransferAt(g, w), T!CopyRead
  PROVE  TransferInv'
<1>1. /\ ret = <<"none">> /\ op = "copy" /\ bufs = <<>>
      /\ source = Run(g, Total) /\ sink = Run(0, w) /\ CopyAt(g, w)
  BY DEF T!CopyRead, TransferAt
<1>2. PICK k \in 0..BUF :
         /\ T!Gives(BUF, k)
         /\ bufs' = SubSeq(source, 1, k) /\ T!Take(k)
         /\ at' = k
         /\ ret' = IF k = 0 THEN <<"Ok", total>> ELSE ret
  BY DEF T!CopyRead
<1>3. op' = op /\ target' = target /\ shape' = shape /\ sink' = sink /\ total' = total
  BY DEF T!CopyRead, T!SameCall
<1>4. BUF \in Nat /\ BUF # 0 /\ k \in Nat /\ g \in Nat /\ g <= Total /\ Total \in Nat
  BY DEF T!TransferAssumption
<1>5. w = g /\ total = g
  <2>1. Run(w, g) = <<>> /\ w <= g /\ (w = g => total = w)
    BY <1>1, Zenon DEF CopyAt
  <2>2. QED
    BY <1>4, <2>1, RunIs, Zenon
<1>6. /\ g + k \in 0..Total /\ (k = 0 <=> g = Total)
      /\ SubSeq(source, 1, k) = Run(g, g + k) /\ source' = Run(g + k, Total)
  BY <1>1, <1>2, <1>4, Taken, Zenon
<1>7. CopyAt(g + k, w)'
  <2>1. w <= g + k /\ bufs' = Run(w, g + k)
    BY <1>2, <1>4, <1>5, <1>6
  <2>2. IF w = g + k THEN total' = w ELSE total' + at' = g + k
    BY <1>2, <1>3, <1>4, <1>5
  <2>3. ret'[1] = "Ok" => ret'[2] = Total /\ w = Total
    BY <1>1, <1>2, <1>5, <1>6, Zenon
  <2>4. QED
    BY <2>1, <2>2, <2>3, ZenonT(60) DEF CopyAt, Run
<1>8. TransferAt(g + k, w)'
  BY <1>1, <1>3, <1>6, <1>7, ZenonT(60) DEF TransferAt, Run
<1>9. TransferTypes'
  BY <1>1, <1>2, <1>3, <1>4 DEF TransferTypes, Returned
<1>10. QED
  BY <1>6, <1>8, <1>9 DEF TransferInv

(* ... and write_all writes it, as often as it takes.                      *)
LEMMA TransferCopyWrite ==
  ASSUME T!TransferAssumption, TransferTypes, NEW g \in 0..Total, NEW w \in Nat,
         TransferAt(g, w), T!CopyWrite
  PROVE  TransferInv'
<1>1. /\ ret = <<"none">> /\ op = "copy" /\ bufs # <<>>
      /\ source = Run(g, Total) /\ sink = Run(0, w) /\ CopyAt(g, w)
  BY DEF T!CopyWrite, TransferAt
<1>2. PICK k \in 1..Len(bufs) :
         /\ sink' = sink \o SubSeq(bufs, 1, k) /\ bufs' = SubSeq(bufs, k + 1, Len(bufs))
         /\ total' = IF k = Len(bufs) THEN total + at ELSE total
  BY Zenon DEF T!CopyWrite
<1>3. /\ op' = op /\ target' = target /\ shape' = shape /\ source' = source /\ at' = at /\ ret' = ret
  BY DEF T!CopyWrite, T!SameCall
<1>4. g \in Nat /\ total \in Nat /\ at \in Nat
  BY DEF T!TransferAssumption, TransferTypes
<1>5. bufs = Run(w, g) /\ w <= g
  BY <1>1, Zenon DEF CopyAt
<1>6. Len(bufs) = g - w /\ w # g
  BY <1>1, <1>4, <1>5, RunIs, Zenon
<1>7. total + at = g
  BY <1>1, <1>6, Zenon DEF CopyAt
<1>8. PICK h \in Nat : h = w + k /\ w <= h /\ h <= g /\ h - w = k /\ h # w
  BY <1>4, <1>5, <1>6
<1>9. RunCut(w, h, g)
  BY ONLY <1>4, <1>8, w \in Nat, h \in Nat, RunParts, Zenon
<1>10. RunCut(0, w, h)
  <2>1. 0 \in Nat /\ 0 <= w
    OBVIOUS
  <2>2. QED
    BY ONLY <1>8, <2>1, w \in Nat, h \in Nat, RunParts, Zenon
<1>11. sink' = Run(0, h) /\ bufs' = Run(h, g)
  BY <1>1, <1>2, <1>5, <1>8, <1>9, <1>10, ZenonT(60) DEF RunCut
<1>12. IF h = g THEN total' = h ELSE total' + at' = g
  BY <1>2, <1>3, <1>4, <1>5, <1>6, <1>7, <1>8, SMTT(30)
<1>13. CopyAt(g, h)'
  BY <1>1, <1>3, <1>8, <1>11, <1>12, Zenon DEF CopyAt, Run
<1>14. TransferAt(g, h)'
  BY <1>1, <1>3, <1>11, <1>13, ZenonT(60) DEF TransferAt, Run
<1>15. TransferTypes'
  BY <1>1, <1>2, <1>3, <1>4 DEF TransferTypes, Returned
<1>16. QED
  BY <1>14, <1>15 DEF TransferInv

(* TransferExact, for a source of any length, any buffers of a vectored    *)
(* call and any division of the bytes among the reads and writes of copy,  *)
(* read_vectored and write_vectored.                                       *)
THEOREM TransferExactHolds == ASSUME T!TransferAssumption PROVE T!Spec => []TransferExact
<1>1. T!Init => TransferInv
  <2> SUFFICES ASSUME T!Init PROVE TransferInv
    OBVIOUS
  <2> USE DEF T!Init
  <2>1. Total \in Nat /\ 0 \in 0..Total /\ 0 \in Nat /\ Run(0, 0) = <<>>
    BY DEF T!TransferAssumption, Run
  <2>2. source = Run(0, Total) /\ sink = Run(0, 0)
    BY <2>1 DEF T!Upto, Run
  <2>3. op = "copy" => CopyAt(0, 0)
    BY <2>1 DEF CopyAt
  <2>4. T!Scatter(Run(0, 0)) = [i \in 1..Len(shape) |-> <<>>]
    <3>1. \A i \in 1..Len(shape) : shape[i] \in Nat /\ T!Start(i) \in Nat
      BY Laid
    <3>2. ASSUME NEW i \in 1..Len(shape)
          PROVE  SubSeq(<<>>, T!Start(i) + 1, T!Min2(shape[i], Len(<<>>))) = <<>>
      <4>1. PICK s \in Nat : s = T!Start(i)
        BY <3>1
      <4>2. T!Min2(shape[i], Len(<<>>)) = 0
        BY <3>1, SMTT(30) DEF T!Min2
      <4>3. QED
        BY <4>1, <4>2
    <3>3. QED
      BY <2>1, <3>2, Zenon DEF T!Scatter
  <2>5. op = "readv" => ReadvAt(0)
    <3>1. Len(shape) \in Nat /\ (~(1 <= Len(shape)) => T!Sum = 0)
      <4>1. Len(shape) \in Nat /\ (~(1 <= Len(shape)) => shape = <<>>)
        BY DEF T!TransferAssumption
      <4>2. QED
        BY <4>1 DEF T!Sum
    <3>2. QED
      BY <2>4, <3>1 DEF ReadvAt, NoneRead, T!Start
  <2>6. op = "writev" => WritevAt(0)
    BY DEF WritevAt, T!Start
  <2>7. TransferTypes
    BY DEF TransferTypes, Returned
  <2>8. QED
    BY <2>1, <2>2, <2>3, <2>5, <2>6, <2>7, ZenonT(60) DEF TransferInv, TransferAt
<1>2. TransferInv /\ [T!Next]_(T!vars) => TransferInv'
  <2> SUFFICES ASSUME TransferInv, [T!Next]_(T!vars) PROVE TransferInv'
    OBVIOUS
  <2>1. PICK g \in 0..Total, w \in Nat : TransferAt(g, w)
    BY DEF TransferInv
  <2>2. TransferTypes
    BY ZenonT(60) DEF TransferInv
  <2>3. QED
    BY <2>1, <2>2, TransferReadVectored, TransferWriteVectored, TransferReturns, TransferWasiRead,
       TransferWasiWrite, TransferCopyRead, TransferCopyWrite, Zenon DEF T!Next
<1>3. TransferInv => TransferExact
  <2> SUFFICES ASSUME TransferInv PROVE TransferExact
    OBVIOUS
  <2>1. PICK g \in 0..Total, w \in Nat : TransferAt(g, w)
    BY ZenonT(60) DEF TransferInv
  <2>2. /\ Total \in Nat /\ g \in Nat /\ g <= Total /\ Returned
        /\ source = Run(g, Total) /\ sink = Run(0, w)
    BY <2>1 DEF TransferInv, TransferTypes, TransferAt, T!TransferAssumption
  <2>3. /\ Len(sink) = w /\ Len(source) = Total - g /\ Total - (Total - g) = g
        /\ (source = <<>> <=> g = Total)
    <3>1. Len(sink) = w
      BY <2>2 DEF Run
    <3>2. Len(source) = Total - g /\ (source = <<>> <=> g = Total)
      BY <2>2, RunIs, Zenon
    <3>3. QED
      BY <2>2, <3>1, <3>2
  <2>4. T!Upto(w) = Run(0, w) /\ T!Upto(g) = Run(0, g)
    BY <2>2 DEF T!Upto, Run
  <2>5. op = "writev" /\ ret[1] = "Ok" => ret[2] = Len(sink)
    BY <2>1, <2>3, Zenon DEF TransferAt, WritevAt
  <2>6. op = "copy" /\ ret[1] = "Ok" => ret[2] = Total /\ Len(sink) = Total
    BY <2>1, <2>3, ZenonT(60) DEF TransferAt, CopyAt
  <2>7. op = "readv" /\ ret[1] = "Ok" =>
          /\ ret[2] = Total - Len(source) /\ bufs = T!Scatter(T!Upto(ret[2]))
          /\ ret[2] = 0 => \/ source = <<>> \/ T!Sum = 0 \/ (target = "wasi" /\ shape[1] = 0)
    BY <2>1, <2>2, <2>3, <2>4 DEF TransferAt, ReadvAt, NoneRead
  <2>8. QED
    BY <2>2, <2>3, <2>4, <2>5, <2>6, <2>7 DEF TransferExact, T!TransferExact
<1>4. QED
  BY <1>1, <1>2, <1>3, PTL DEF T!Spec
=============================================================================
