-------------------------- MODULE BufferedProofs ---------------------------
(***************************************************************************)
(* Buffered input: a BufReader hands out the input, and the lines and      *)
(* blocks its calls promise, and threads that share stdin get whole lines: *)
(* for every input, every buffer capacity, every division of the input     *)
(* among the reads, and any number of threads and calls.                   *)
(***************************************************************************)
EXTENDS Naturals, Sequences, TLAPS

(* Concatenation: lengths, elements, the empty sequence, associativity.    *)
LEMMA Joined ==
  ASSUME NEW M, NEW s \in Seq(M), NEW e \in Seq(M)
  PROVE  /\ s \o e \in Seq(M) /\ Len(s \o e) = Len(s) + Len(e)
         /\ Len(s) \in Nat /\ Len(e) \in Nat
         /\ \A i \in 1..Len(s) : (s \o e)[i] = s[i]
         /\ \A i \in (Len(s) + 1)..(Len(s) + Len(e)) : (s \o e)[i] = e[i - Len(s)]
OBVIOUS

LEMMA JoinedEmpty ==
  ASSUME NEW M, NEW s \in Seq(M)
  PROVE  s \o <<>> = s /\ <<>> \o s = s /\ <<>> \in Seq(M)
OBVIOUS

Regrouped(r, s, e) == r \o (s \o e) = (r \o s) \o e

LEMMA JoinedTwice ==
  ASSUME NEW M, NEW r \in Seq(M), NEW s \in Seq(M), NEW e \in Seq(M)
  PROVE  Regrouped(r, s, e)
<1> DEFINE a == r \o (s \o e)
           b == (r \o s) \o e
           n == Len(r) + Len(s) + Len(e)
<1>1. /\ a \in Seq(M) /\ b \in Seq(M) /\ Len(a) = n /\ Len(b) = n
      /\ Len(r) \in Nat /\ Len(s) \in Nat /\ Len(e) \in Nat
  OBVIOUS
<1>2. ASSUME NEW i \in 1..n PROVE a[i] = b[i]
  <2>1. CASE i <= Len(r)
    BY <1>1, <2>1
  <2>2. CASE i > Len(r) /\ i <= Len(r) + Len(s)
    BY <1>1, <2>2
  <2>3. CASE i > Len(r) + Len(s)
    BY <1>1, <2>3
  <2>4. QED
    BY <1>1, <2>1, <2>2, <2>3
<1> HIDE DEF a, b
<1>3. a = b
  BY <1>1, <1>2
<1>4. QED
  BY <1>3 DEF a, b, Regrouped

(* A sequence cut in two.                                                  *)
LEMMA CutInTwo ==
  ASSUME NEW M, NEW s \in Seq(M), NEW n \in 0..Len(s)
  PROVE  /\ SubSeq(s, 1, n) \in Seq(M) /\ Len(SubSeq(s, 1, n)) = n
         /\ SubSeq(s, n + 1, Len(s)) \in Seq(M) /\ Len(SubSeq(s, n + 1, Len(s))) = Len(s) - n
         /\ SubSeq(s, 1, n) \o SubSeq(s, n + 1, Len(s)) = s
         /\ \A i \in 1..n : SubSeq(s, 1, n)[i] = s[i]
         /\ \A i \in 1..(Len(s) - n) : SubSeq(s, n + 1, Len(s))[i] = s[n + i]
<1> DEFINE a == SubSeq(s, 1, n)
           b == SubSeq(s, n + 1, Len(s))
<1>1. /\ a \in Seq(M) /\ Len(a) = n /\ b \in Seq(M) /\ Len(b) = Len(s) - n
      /\ \A i \in 1..n : a[i] = s[i]
      /\ \A i \in 1..(Len(s) - n) : b[i] = s[n + i]
      /\ Len(s) \in Nat
  OBVIOUS
<1> HIDE DEF a, b
<1>2. PICK l \in Nat : l = Len(s)
  BY <1>1
<1>3. /\ a \o b \in Seq(M) /\ Len(a \o b) = l
      /\ \A i \in 1..n : (a \o b)[i] = a[i]
      /\ \A i \in (n + 1)..l : (a \o b)[i] = b[i - n]
  <2>1. a \in Seq(M) /\ b \in Seq(M)
    BY <1>1
  <2>2. /\ a \o b \in Seq(M) /\ Len(a \o b) = Len(a) + Len(b)
        /\ \A i \in 1..Len(a) : (a \o b)[i] = a[i]
        /\ \A i \in (Len(a) + 1)..(Len(a) + Len(b)) : (a \o b)[i] = b[i - Len(a)]
    BY ONLY <2>1, Joined, Zenon
  <2>3. Len(a) = n /\ Len(b) = l - n /\ Len(a) + Len(b) = l
    BY <1>1, <1>2
  <2>4. QED
    BY <2>2, <2>3, Zenon
<1>4. a \o b = s
  <2>1. ASSUME NEW i \in 1..l PROVE (a \o b)[i] = s[i]
    <3>1. CASE i <= n
      BY <1>1, <1>3, <3>1
    <3>2. CASE i > n
      <4>1. (a \o b)[i] = b[i - n] /\ i - n \in 1..(l - n) /\ n + (i - n) = i
        BY <1>2, <1>3, <3>2
      <4>2. b[i - n] = s[n + (i - n)]
        BY <1>1, <1>2, <4>1
      <4>3. QED
        BY <4>1, <4>2
    <3>3. i <= n \/ i > n
      BY <1>2
    <3>4. QED
      BY <3>1, <3>2, <3>3, Zenon
  <2> DEFINE c == a \o b
  <2>2. c \in Seq(M) /\ Len(c) = Len(s) /\ \A i \in 1..Len(s) : c[i] = s[i]
    BY <1>2, <1>3, <2>1
  <2> HIDE DEF c
  <2>3. c = s
    BY <2>2
  <2>4. QED
    BY <2>3 DEF c
<1>5. QED
  BY <1>1, <1>4, Zenon DEF a, b

(* A part of what comes first is taken.                                    *)
LEMMA PartTaken ==
  ASSUME NEW M, NEW a \in Seq(M), NEW b \in Seq(M), NEW m \in 0..Len(a)
  PROVE  /\ SubSeq(a, 1, m) \in Seq(M) /\ SubSeq(a, m + 1, Len(a)) \in Seq(M)
         /\ SubSeq(a, 1, m) \o (SubSeq(a, m + 1, Len(a)) \o b) = a \o b
<1> DEFINE p == SubSeq(a, 1, m)
           q == SubSeq(a, m + 1, Len(a))
<1>1. p \in Seq(M) /\ q \in Seq(M) /\ p \o q = a
  BY CutInTwo, Zenon
<1> HIDE DEF p, q
<1>2. Regrouped(p, q, b)
  <2>1. p \in Seq(M) /\ q \in Seq(M)
    BY <1>1
  <2>2. QED
    BY ONLY <2>1, b \in Seq(M), JoinedTwice, Zenon
<1>3. QED
  BY <1>1, <1>2, Zenon DEF p, q, Regrouped

(* The elements of a slice, and sequences with the same elements.          *)
LEMMA Sliced ==
  ASSUME NEW M, NEW s \in Seq(M), NEW a \in Nat, NEW b \in Nat, a <= b, b <= Len(s)
  PROVE  /\ SubSeq(s, a + 1, b) \in Seq(M) /\ Len(SubSeq(s, a + 1, b)) = b - a
         /\ \A i \in 1..(b - a) : SubSeq(s, a + 1, b)[i] = s[a + i]
OBVIOUS

LEMMA SameElements ==
  ASSUME NEW M, NEW x \in Seq(M), NEW y \in Seq(M), Len(x) = Len(y),
         \A i \in 1..Len(x) : x[i] = y[i]
  PROVE  x = y
OBVIOUS

-----------------------------------------------------------------------------
(* A BufReader hands out the input in order, and each call what it         *)
(* promises.                                                               *)

CONSTANTS Input, NL, CR, Bad, None, ReaderCaps, ReadSizes, TMP,   \* see BufReader
          MaxErrors

VARIABLES rcap, rest, window, taken, call, acc, last, rerrors

R == INSTANCE BufReader WITH Caps <- ReaderCaps, Sizes <- ReadSizes,
                             cap <- rcap, errors <- rerrors

ASSUME ReaderAssumption == R!BufReaderAssumption

(* BufReader: no byte is lost, repeated or out of order, and a call that   *)
(* succeeds returns the line, the rest, or the bytes it was asked for.     *)
ReaderExact == R!ReaderExact

(* Take and Drop cut a sequence in two.                                    *)
LEMMA Cut ==
  ASSUME NEW M, NEW s \in Seq(M), NEW n \in 0..Len(s)
  PROVE  /\ R!Take(s, n) \in Seq(M) /\ Len(R!Take(s, n)) = n
         /\ R!Drop(s, n) \in Seq(M) /\ Len(R!Drop(s, n)) = Len(s) - n
         /\ R!Take(s, n) \o R!Drop(s, n) = s
         /\ \A i \in 1..n : R!Take(s, n)[i] = s[i]
         /\ \A i \in 1..(Len(s) - n) : R!Drop(s, n)[i] = s[n + i]
BY ONLY s \in Seq(M), n \in 0..Len(s), CutInTwo, Zenon DEF R!Take, R!Drop

(* fill_buf leaves the stream as it is, and an empty buffer only at its    *)
(* end.                                                                    *)
LEMMA FillBufKeeps ==
  ASSUME NEW M, window \in Seq(M), rest \in Seq(M), rcap \in Nat \ {0}, NEW f \in R!FillBuf
  PROVE  /\ f[1] \in Seq(M) /\ f[2] \in Seq(M) /\ f[1] \o f[2] = window \o rest
         /\ f[1] = <<>> => window \o rest = <<>>
<1>1. CASE window # <<>>
  BY <1>1 DEF R!FillBuf
<1>2. CASE window = <<>>
  <2>1. PICK n \in R!Amounts(rcap) : f = <<R!Take(rest, n), R!Drop(rest, n)>>
    BY <1>2 DEF R!FillBuf
  <2>2. n \in 0..Len(rest) /\ (rest # <<>> => n > 0)
    BY <2>1 DEF R!Amounts, R!Least
  <2>3. /\ R!Take(rest, n) \in Seq(M) /\ Len(R!Take(rest, n)) = n
        /\ R!Drop(rest, n) \in Seq(M)
        /\ R!Take(rest, n) \o R!Drop(rest, n) = rest
    BY <2>2, Cut
  <2>4. window \o rest = rest
    BY <1>2, JoinedEmpty
  <2>5. f[1] = <<>> => rest = <<>>
    <3>1. f[1] = R!Take(rest, n)
      BY <2>1
    <3>2. QED
      BY <2>2, <2>3, <3>1
  <2>6. QED
    BY <2>1, <2>3, <2>4, <2>5
<1>3. QED
  BY <1>1, <1>2, Zenon

(* What a part of the window leaves.                                       *)
Parts(M, p, q, b, a) == p \in Seq(M) /\ q \in Seq(M) /\ p \o (q \o b) = a \o b

LEMMA PartKeeps ==
  ASSUME NEW M, NEW a \in Seq(M), NEW b \in Seq(M), NEW m \in 0..Len(a)
  PROVE  Parts(M, R!Take(a, m), R!Drop(a, m), b, a)
<1> DEFINE p == SubSeq(a, 1, m)
           q == SubSeq(a, m + 1, Len(a))
<1>1. R!Take(a, m) = p /\ R!Drop(a, m) = q
  BY DEF R!Take, R!Drop
<1>2. p \in Seq(M) /\ q \in Seq(M) /\ p \o (q \o b) = a \o b
  BY PartTaken, ZenonT(60)
<1> HIDE DEF p, q
<1>3. QED
  BY <1>1, <1>2 DEF Parts

(* read gives the next bytes of the stream, at most n, and none only at    *)
(* its end.                                                                *)
LEMMA ReadsKeep ==
  ASSUME NEW M, window \in Seq(M), rest \in Seq(M), rcap \in Nat \ {0}, NEW n \in Nat \ {0},
         NEW o \in R!Reads(n)
  PROVE  /\ o[1] \in Seq(M) /\ o[2] \in Seq(M) /\ o[3] \in Seq(M) /\ Len(o[1]) <= n
         /\ o[1] \o (o[2] \o o[3]) = window \o rest
         /\ o[1] = <<>> => window \o rest = <<>>
<1>1. CASE window = <<>> /\ n >= rcap
  <2>1. PICK k \in R!Amounts(n) : o = <<R!Take(rest, k), <<>>, R!Drop(rest, k)>>
    BY <1>1 DEF R!Reads
  <2>2. k \in 0..Len(rest) /\ k <= n /\ (rest # <<>> => k > 0)
    BY <2>1 DEF R!Amounts, R!Least
  <2>3. /\ R!Take(rest, k) \in Seq(M) /\ Len(R!Take(rest, k)) = k
        /\ R!Drop(rest, k) \in Seq(M)
        /\ R!Take(rest, k) \o R!Drop(rest, k) = rest
    BY <2>2, Cut
  <2>4. window \o rest = rest /\ <<>> \o R!Drop(rest, k) = R!Drop(rest, k) /\ <<>> \in Seq(M)
    BY <1>1, <2>3, JoinedEmpty
  <2>5. o[1] = R!Take(rest, k) /\ o[2] = <<>> /\ o[3] = R!Drop(rest, k)
    BY <2>1
  <2>6. o[1] = <<>> => rest = <<>>
    BY <2>2, <2>3, <2>5
  <2>7. QED
    BY <2>2, <2>3, <2>4, <2>5, <2>6
<1>2. CASE ~(window = <<>> /\ n >= rcap)
  <2>1. PICK f \in R!FillBuf :
          o = LET m == R!Least(n, Len(f[1])) IN <<R!Take(f[1], m), R!Drop(f[1], m), f[2]>>
    BY <1>2 DEF R!Reads
  <2>2. /\ f[1] \in Seq(M) /\ f[2] \in Seq(M) /\ f[1] \o f[2] = window \o rest
        /\ f[1] = <<>> => window \o rest = <<>>
    BY FillBufKeeps, Zenon
  <2>3. PICK m \in 0..Len(f[1]) : m = R!Least(n, Len(f[1]))
    BY <2>2 DEF R!Least
  <2>4. o[1] = R!Take(f[1], m) /\ o[2] = R!Drop(f[1], m) /\ o[3] = f[2]
    BY <2>1, <2>3
  <2>5. m <= n /\ (m = 0 => f[1] = <<>>)
    BY <2>2, <2>3 DEF R!Least
  <2>6. Len(R!Take(f[1], m)) = m
    BY <2>2, Cut
  <2>7. /\ R!Take(f[1], m) \in Seq(M) /\ R!Drop(f[1], m) \in Seq(M)
        /\ R!Take(f[1], m) \o (R!Drop(f[1], m) \o f[2]) = f[1] \o f[2]
    <3>1. f[1] \in Seq(M) /\ f[2] \in Seq(M) /\ m \in 0..Len(f[1])
      BY <2>2, <2>3
    <3>2. PICK a \in Seq(M), b \in Seq(M) : a = f[1] /\ b = f[2]
      BY <3>1
    <3>3. m \in 0..Len(a)
      BY <3>1, <3>2
    <3>4. /\ R!Take(a, m) \in Seq(M) /\ R!Drop(a, m) \in Seq(M)
          /\ R!Take(a, m) \o (R!Drop(a, m) \o b) = a \o b
      <4>1. Parts(M, R!Take(a, m), R!Drop(a, m), b, a)
        BY ONLY a \in Seq(M), b \in Seq(M), <3>3, PartKeeps, Zenon
      <4>2. QED
        BY <4>1, Zenon DEF Parts
    <3>5. QED
      BY <3>2, <3>4
  <2>8. QED
    BY <2>2, <2>4, <2>5, <2>6, <2>7
<1>3. QED
  BY <1>1, <1>2, Zenon

LineOps == {"read_until", "read_line", "lines"}

(* What a call in progress has collected: the input from where it started, *)
(* no newline for the calls that stop at one, and not yet all for          *)
(* read_exact.                                                             *)
Collecting ==
  /\ call.op \in R!Ops /\ call.from \in Nat /\ call.want \in Nat
  /\ call.from + Len(acc) = Len(taken)
  /\ \A i \in 1..Len(acc) : acc[i] = Input[call.from + i]
  /\ call.op \in LineOps => \A i \in 1..Len(acc) : acc[i] # NL
  /\ call.op = "read_exact" => Len(acc) < call.want

(* The inductive strengthening of ReaderExact.                             *)
ReaderInv ==
  /\ rest \in Seq(R!Bytes) /\ window \in Seq(R!Bytes)
  /\ taken \in Seq(R!Bytes) /\ acc \in Seq(R!Bytes)
  /\ rcap \in Nat \ {0}
  /\ taken \o (window \o rest) = Input
  /\ call = None => acc = <<>>
  /\ call # None => Collecting
  /\ R!CallsExact

(* The bytes a are handed out, and the stream goes on with b and c.        *)
LEMMA ReaderDelivers ==
  ASSUME ReaderInv, NEW a \in Seq(R!Bytes), NEW b \in Seq(R!Bytes), NEW c \in Seq(R!Bytes),
         a \o (b \o c) = window \o rest
  PROVE  /\ taken \o a \in Seq(R!Bytes) /\ (taken \o a) \o (b \o c) = Input
         /\ Len(taken) \in Nat /\ Len(a) \in Nat /\ Len(Input) \in Nat
         /\ Len(taken \o a) = Len(taken) + Len(a)
         /\ Len(taken) + Len(a) <= Len(Input)
         /\ \A i \in 1..Len(a) : Input[Len(taken) + i] = a[i]
<1> DEFINE M == R!Bytes
           d == b \o c
           e == a \o d
<1> HIDE DEF M
<1>1. a \in Seq(M) /\ taken \in Seq(M) /\ d \in Seq(M)
  <2>1. a \in Seq(M) /\ taken \in Seq(M) /\ b \in Seq(M) /\ c \in Seq(M)
    BY DEF ReaderInv, M
  <2>2. QED
    BY <2>1, Joined
<1>2. taken \o e = Input
  BY Zenon DEF ReaderInv
<1> HIDE DEF d
<1>3. /\ e \in Seq(M) /\ Len(e) = Len(a) + Len(d) /\ Len(a) \in Nat /\ Len(d) \in Nat
      /\ \A i \in 1..Len(a) : e[i] = a[i]
  BY ONLY <1>1, Joined, Zenon
<1>4. (taken \o a) \o d = taken \o e
  <2>1. Regrouped(taken, a, d)
    BY ONLY <1>1, JoinedTwice, Zenon
  <2>2. QED
    BY <2>1 DEF Regrouped
<1> HIDE DEF e
<1>5. /\ Len(taken \o e) = Len(taken) + Len(e) /\ Len(taken) \in Nat
      /\ \A i \in (Len(taken) + 1)..(Len(taken) + Len(e)) : (taken \o e)[i] = e[i - Len(taken)]
  <2>1. taken \in Seq(M) /\ e \in Seq(M)
    BY <1>1, <1>3
  <2>2. QED
    BY ONLY <2>1, Joined, Zenon
<1>6. taken \o a \in Seq(M) /\ Len(taken \o a) = Len(taken) + Len(a)
  BY ONLY <1>1, Joined, Zenon
<1>7. /\ Len(Input) = Len(taken) + Len(e)
      /\ \A i \in (Len(taken) + 1)..(Len(taken) + Len(e)) : Input[i] = e[i - Len(taken)]
  BY ONLY <1>2, <1>5, Zenon
<1>8. PICK l \in Nat, n \in Nat, k \in Nat : l = Len(taken) /\ n = Len(a) /\ k = Len(d)
  BY <1>3, <1>5
<1>9. ASSUME NEW i \in 1..n PROVE Input[l + i] = a[i]
  <2>1. l + i \in (l + 1)..(l + (n + k)) /\ (l + i) - l = i
    BY <1>8
  <2>2. Input[l + i] = e[(l + i) - l]
    BY ONLY <1>3, <1>7, <1>8, <2>1, Zenon
  <2>3. e[i] = a[i]
    BY ONLY <1>3, <1>8, i \in 1..n
  <2>4. QED
    BY <2>1, <2>2, <2>3
<1>10. Len(Input) \in Nat /\ Len(taken) + Len(a) <= Len(Input)
  BY ONLY <1>3, <1>5, <1>7
<1>11. (taken \o a) \o (b \o c) = Input
  BY <1>2, <1>4 DEF d
<1>12. QED
  BY <1>3, <1>5, <1>6, <1>8, <1>9, <1>10, <1>11 DEF M

(* What a call has collected once it takes the bytes a.                    *)
LEMMA ReaderCollects ==
  ASSUME ReaderInv, call # None, NEW a \in Seq(R!Bytes),
         \A i \in 1..Len(a) : Input[Len(taken) + i] = a[i]
  PROVE  /\ acc \o a \in Seq(R!Bytes) /\ Len(acc \o a) = Len(acc) + Len(a)
         /\ Len(acc) \in Nat /\ Len(a) \in Nat
         /\ call.from + Len(acc \o a) = Len(taken) + Len(a)
         /\ \A i \in 1..Len(acc) : (acc \o a)[i] = acc[i]
         /\ \A i \in 1..Len(a) : (acc \o a)[Len(acc) + i] = a[i]
         /\ \A i \in 1..Len(acc \o a) : (acc \o a)[i] = Input[call.from + i]
<1> DEFINE M == R!Bytes
           s == acc \o a
<1> HIDE DEF M
<1>1. acc \in Seq(M) /\ a \in Seq(M) /\ taken \in Seq(M)
  BY DEF ReaderInv, M
<1>2. /\ s \in Seq(M) /\ Len(s) = Len(acc) + Len(a) /\ Len(acc) \in Nat /\ Len(a) \in Nat
      /\ \A i \in 1..Len(acc) : s[i] = acc[i]
      /\ \A i \in (Len(acc) + 1)..(Len(acc) + Len(a)) : s[i] = a[i - Len(acc)]
  BY ONLY <1>1, Joined, Zenon
<1> HIDE DEF s
<1>3. /\ call.from \in Nat /\ call.from + Len(acc) = Len(taken)
      /\ \A i \in 1..Len(acc) : acc[i] = Input[call.from + i]
  BY DEF ReaderInv, Collecting
<1>4. PICK l \in Nat, n \in Nat, f \in Nat : l = Len(acc) /\ n = Len(a) /\ f = call.from
  BY <1>2, <1>3
<1>5. Len(taken) = f + l
  BY <1>3, <1>4
<1>6. ASSUME NEW i \in 1..n PROVE s[l + i] = a[i]
  <2>1. l + i \in (l + 1)..(l + n) /\ (l + i) - l = i
    BY <1>4
  <2>2. s[l + i] = a[(l + i) - l]
    BY ONLY <1>2, <1>4, <2>1, Zenon
  <2>3. QED
    BY <2>1, <2>2
<1>7. ASSUME NEW i \in 1..(l + n) PROVE s[i] = Input[f + i]
  <2>1. CASE i <= l
    BY ONLY <1>2, <1>3, <1>4, <2>1, i \in 1..(l + n)
  <2>2. CASE i > l
    <3>1. PICK j \in 1..n : i = l + j
      <4>1. i - l \in 1..n /\ i = l + (i - l)
        BY <1>4, <2>2
      <4>2. QED
        BY <4>1
    <3>2. s[i] = a[j]
      BY <1>6, <3>1
    <3>3. Input[(f + l) + j] = a[j]
      BY <1>4, <1>5, <3>1
    <3>4. (f + l) + j = f + i
      BY ONLY f \in Nat, l \in Nat, n \in Nat, j \in 1..n, <3>1
    <3>5. QED
      BY <3>2, <3>3, <3>4, Zenon
  <2>3. i <= l \/ i > l
    BY <1>4
  <2>4. QED
    BY <2>1, <2>2, <2>3
<1>8. Len(s) = l + n
  BY <1>2, <1>4
<1>9. call.from + Len(s) = Len(taken) + Len(a)
  <2>1. f + (l + n) = (f + l) + n
    BY ONLY f \in Nat, l \in Nat, n \in Nat
  <2>2. QED
    BY ONLY <1>4, <1>5, <1>8, <2>1, Zenon
<1>10. QED
  BY ONLY <1>2, <1>4, <1>6, <1>7, <1>8, <1>9 DEF s, M

(* A slice of the input, from where a call started.                        *)
LEMMA SliceOf ==
  ASSUME NEW M, Input \in Seq(M), NEW s \in Seq(M), NEW from \in Nat,
         from + Len(s) <= Len(Input), \A i \in 1..Len(s) : s[i] = Input[from + i]
  PROVE  /\ R!Drop(Input, from) \in Seq(M) /\ Len(R!Drop(Input, from)) = Len(Input) - from
         /\ Len(s) \in 0..Len(R!Drop(Input, from))
         /\ s = R!Take(R!Drop(Input, from), Len(s))
         /\ \A i \in 1..Len(s) : R!Drop(Input, from)[i] = s[i]
<1> DEFINE d == R!Drop(Input, from)
<1>1. Len(s) \in Nat /\ Len(Input) \in Nat /\ from \in 0..Len(Input)
  OBVIOUS
<1>2. /\ d \in Seq(M) /\ Len(d) = Len(Input) - from
      /\ \A i \in 1..(Len(Input) - from) : d[i] = Input[from + i]
  BY ONLY <1>1, Input \in Seq(M), Cut, Zenon
<1> HIDE DEF d
<1>3. Len(s) \in 0..Len(d) /\ \A i \in 1..Len(s) : d[i] = s[i]
  <2>1. PICK l \in Nat, k \in Nat : l = Len(s) /\ k = Len(Input)
    BY <1>1
  <2>2. from + l <= k
    BY <2>1
  <2>3. ASSUME NEW i \in 1..l PROVE d[i] = s[i]
    <3>1. i \in 1..(k - from)
      BY ONLY from \in Nat, l \in Nat, k \in Nat, i \in 1..l, <2>2
    <3>2. d[i] = Input[from + i] /\ s[i] = Input[from + i]
      BY <1>2, <2>1, <3>1
    <3>3. QED
      BY <3>2
  <2>4. QED
    BY <1>2, <2>1, <2>2, <2>3
<1> DEFINE t == R!Take(d, Len(s))
<1>4. t \in Seq(M) /\ Len(t) = Len(s) /\ \A i \in 1..Len(s) : t[i] = d[i]
  BY ONLY <1>2, <1>3, Cut, Zenon
<1> HIDE DEF t
<1>5. s = t
  <2>1. t \in Seq(M) /\ Len(s) = Len(t) /\ \A i \in 1..Len(s) : s[i] = t[i]
    BY <1>3, <1>4, Zenon
  <2>2. QED
    BY ONLY s \in Seq(M), <2>1, SameElements, Zenon
<1>6. QED
  BY <1>2, <1>3, <1>5 DEF t, d

(* A step outside of any call.                                             *)
LEMMA ReaderPasses ==
  ASSUME ReaderInv, NEW a \in Seq(R!Bytes), NEW b \in Seq(R!Bytes), NEW c \in Seq(R!Bytes),
         a \o (b \o c) = window \o rest, taken' = taken \o a, window' = b, rest' = c,
         call = None, last' = None, UNCHANGED <<rcap, call, acc>>
  PROVE  ReaderInv'
<1>1. taken' \in Seq(R!Bytes) /\ taken' \o (window' \o rest') = Input
  BY ReaderDelivers, Zenon
<1>2. R!CallsExact'
  BY DEF R!CallsExact
<1>3. QED
  BY <1>1, <1>2 DEF ReaderInv, R!Bytes

(* A round of a call's loop that is not the last.                          *)
LEMMA ReaderGoesOn ==
  ASSUME ReaderInv, NEW a \in Seq(R!Bytes), NEW b \in Seq(R!Bytes), NEW c \in Seq(R!Bytes),
         a \o (b \o c) = window \o rest, taken' = taken \o a, window' = b, rest' = c,
         call # None, acc' = acc \o a, UNCHANGED <<rcap, call, last>>,
         call.op \in LineOps => \A i \in 1..Len(a) : a[i] # NL,
         call.op = "read_exact" => Len(acc \o a) < call.want
  PROVE  ReaderInv'
<1>1. /\ taken' \in Seq(R!Bytes) /\ taken' \o (window' \o rest') = Input
      /\ Len(taken') = Len(taken) + Len(a)
      /\ \A i \in 1..Len(a) : Input[Len(taken) + i] = a[i]
  BY ReaderDelivers, Zenon
<1>2. /\ acc' \in Seq(R!Bytes) /\ Len(acc') = Len(acc) + Len(a)
      /\ Len(acc) \in Nat /\ Len(a) \in Nat
      /\ call.from + Len(acc') = Len(taken')
      /\ \A i \in 1..Len(acc) : acc'[i] = acc[i]
      /\ \A i \in 1..Len(a) : acc'[Len(acc) + i] = a[i]
      /\ \A i \in 1..Len(acc') : acc'[i] = Input[call.from + i]
  BY <1>1, ReaderCollects, Zenon
<1>3. ASSUME call.op \in LineOps, NEW i \in 1..Len(acc') PROVE acc'[i] # NL
  <2>1. \A j \in 1..Len(acc) : acc[j] # NL
    BY <1>3 DEF ReaderInv, Collecting
  <2>2. CASE i <= Len(acc)
    BY <1>2, <2>1, <2>2
  <2>3. CASE i > Len(acc)
    <3>1. i - Len(acc) \in 1..Len(a) /\ i = Len(acc) + (i - Len(acc))
      BY <1>2, <2>3
    <3>2. PICK j \in 1..Len(a) : i = Len(acc) + j
      BY <3>1
    <3>3. acc'[i] = a[j]
      BY <1>2, <3>2
    <3>4. QED
      BY <1>3, <3>3
  <2>4. QED
    BY <1>2, <2>2, <2>3
<1>4. Collecting'
  <2>1. Collecting /\ call' = call
    BY DEF ReaderInv
  <2>2. QED
    BY <1>2, <1>3, <2>1, Zenon DEF Collecting
<1>5. R!CallsExact'
  <2>1. R!Promised(last.call, last.bytes)' <=> R!Promised(last'.call, last'.bytes)
    BY DEF R!Promised, R!IsLine, R!Trim, R!EndsWith, R!Chop, R!Take, R!Drop
  <2>2. QED
    BY <2>1 DEF ReaderInv, R!CallsExact
<1>6. QED
  BY <1>1, <1>2, <1>4, <1>5 DEF ReaderInv, R!Bytes

(* The last round.                                                         *)
LEMMA ReaderReturns ==
  ASSUME ReaderInv, NEW a \in Seq(R!Bytes), NEW b \in Seq(R!Bytes), NEW c \in Seq(R!Bytes),
         a \o (b \o c) = window \o rest, taken' = taken \o a, window' = b, rest' = c,
         NEW ok, NEW bytes, R!Return(ok, bytes), UNCHANGED rcap, ok => R!Promised(call, bytes)
  PROVE  ReaderInv'
<1>1. taken' \in Seq(R!Bytes) /\ taken' \o (window' \o rest') = Input
  BY ReaderDelivers, Zenon
<1>2. call' = None /\ acc' = <<>> /\ acc' \in Seq(R!Bytes)
  BY JoinedEmpty DEF R!Return
<1>3. R!CallsExact'
  <2>1. last'.call = call /\ last'.ok = ok /\ last'.bytes = bytes
    BY DEF R!Return
  <2>2. ASSUME last'.ok PROVE R!Promised(last'.call, last'.bytes)
    BY <2>1, <2>2, Zenon
  <2>3. R!Promised(last.call, last.bytes)' <=> R!Promised(last'.call, last'.bytes)
    BY DEF R!Promised, R!IsLine, R!Trim, R!EndsWith, R!Chop, R!Take, R!Drop
  <2>4. QED
    BY <2>2, <2>3 DEF R!CallsExact
<1>4. QED
  BY <1>1, <1>2, <1>3 DEF ReaderInv, R!Bytes

(* What a line call returns.                                               *)
LEMMA LinePromised ==
  ASSUME ReaderInv, call # None, call.op \in LineOps, Input \in Seq(R!Bytes),
         NEW s \in Seq(R!Bytes), call.from + Len(s) <= Len(Input),
         \A i \in 1..Len(s) : s[i] = Input[call.from + i],
         \A i \in 1..Len(s) - 1 : s[i] # NL,
         call.from + Len(s) = Len(Input) \/ (Len(s) > 0 /\ s[Len(s)] = NL)
  PROVE  R!Promised(call, IF call.op = "lines" THEN R!Trim(s) ELSE s)
<1> DEFINE d == R!Drop(Input, call.from)
<1>1. call.from \in Nat /\ Len(s) \in Nat /\ Len(Input) \in Nat
  BY DEF ReaderInv, Collecting
<1>2. /\ Len(d) = Len(Input) - call.from /\ Len(s) \in 0..Len(d)
      /\ s = R!Take(d, Len(s)) /\ \A i \in 1..Len(s) : d[i] = s[i]
  BY <1>1, SliceOf, ZenonT(60)
<1> HIDE DEF d
<1>3. R!IsLine(d, Len(s))
  <2>1. ASSUME NEW i \in 1..Len(s) - 1 PROVE d[i] # NL
    <3>1. i \in 1..Len(s)
      BY <1>1
    <3>2. QED
      BY <1>2, <3>1
  <2>2. Len(s) = Len(d) \/ (Len(s) > 0 /\ d[Len(s)] = NL)
    <3>1. CASE call.from + Len(s) = Len(Input)
      BY <1>1, <1>2, <3>1
    <3>2. CASE Len(s) > 0 /\ s[Len(s)] = NL
      <4>1. Len(s) \in 1..Len(s)
        BY <1>1, <3>2
      <4>2. QED
        BY <1>2, <3>2, <4>1
    <3>3. QED
      BY <3>1, <3>2
  <2>3. QED
    BY <2>1, <2>2 DEF R!IsLine
<1>4. QED
  BY <1>2, <1>3 DEF R!Promised, LineOps, d

(* read_until, read_line and lines: a round of the loop.                   *)
LEMMA ReaderUntil ==
  ASSUME ReaderInv, Input \in Seq(R!Bytes), R!Until
  PROVE  ReaderInv'
<1> DEFINE Round(g, n) ==
      LET part == R!Take(g[1], n)
          all == acc \o part
      IN  /\ R!IsLine(g[1], n)
          /\ R!Deliver(<<part, R!Drop(g[1], n), g[2]>>)
          /\ IF n > 0 /\ ~R!EndsWith(part, NL)
             THEN acc' = all /\ UNCHANGED <<call, last>>
             ELSE R!Return(call.op = "read_until" \/ R!Utf8(all),
                           IF call.op = "lines" THEN R!Trim(all) ELSE all)
<1>0. PICK f \in R!FillBuf : \E n \in 0..Len(f[1]) : Round(f, n)
  BY Zenon DEF R!Until
<1>1. PICK used \in 0..Len(f[1]) : Round(f, used)
  BY <1>0, Zenon
<1>2. call # None /\ call.op \in LineOps /\ rcap' = rcap
  BY DEF R!Until, LineOps
<1>3. PICK g \in Seq(R!Bytes), c \in Seq(R!Bytes) : g = f[1] /\ c = f[2]
  BY FillBufKeeps, Zenon DEF ReaderInv
<1>4. g \o c = window \o rest /\ (g = <<>> => window \o rest = <<>>)
  BY <1>3, FillBufKeeps, Zenon DEF ReaderInv
<1> DEFINE a == R!Take(g, used)
           b == R!Drop(g, used)
           s == acc \o a
<1>5. used \in 0..Len(g) /\ Len(g) \in Nat
  BY <1>1, <1>3
<1>6. a \in Seq(R!Bytes) /\ b \in Seq(R!Bytes) /\ a \o (b \o c) = g \o c
  <2>1. Parts(R!Bytes, a, b, c, g)
    BY ONLY g \in Seq(R!Bytes), c \in Seq(R!Bytes), <1>5, PartKeeps, Zenon
  <2>2. QED
    BY <2>1, Zenon DEF Parts
<1>7. Len(a) = used /\ \A i \in 1..used : a[i] = g[i]
  BY ONLY g \in Seq(R!Bytes), <1>5, Cut, SMTT(30)
<1>8. R!IsLine(g, used)
  BY <1>1, <1>3
<1>9. taken' = taken \o a /\ window' = b /\ rest' = c
  BY <1>1, <1>3 DEF R!Deliver
<1>10. IF used > 0 /\ ~R!EndsWith(a, NL)
       THEN acc' = s /\ UNCHANGED <<call, last>>
       ELSE R!Return(call.op = "read_until" \/ R!Utf8(s),
                     IF call.op = "lines" THEN R!Trim(s) ELSE s)
  BY <1>1, <1>3
<1> HIDE DEF a, b
<1>11. a \o (b \o c) = window \o rest
  BY <1>4, <1>6
<1>12. \A i \in 1..used - 1 : a[i] # NL
  BY <1>5, <1>7, <1>8 DEF R!IsLine
<1>13. CASE used > 0 /\ ~R!EndsWith(a, NL)
  <2>1. \A i \in 1..Len(a) : a[i] # NL
    <3>1. a[used] # NL
      BY <1>5, <1>7, <1>13 DEF R!EndsWith
    <3>2. QED
      BY <1>5, <1>7, <1>12, <3>1
  <2>2. call.op # "read_exact"
    BY <1>2 DEF LineOps
  <2>3. acc' = acc \o a /\ UNCHANGED <<rcap, call, last>>
    BY <1>2, <1>10, <1>13
  <2>4. QED
    BY <1>2, <1>6, <1>9, <1>11, <2>1, <2>2, <2>3, ReaderGoesOn, Zenon
<1>14. CASE ~(used > 0 /\ ~R!EndsWith(a, NL))
  <2>1. /\ Len(taken) + Len(a) <= Len(Input)
        /\ \A i \in 1..Len(a) : Input[Len(taken) + i] = a[i]
    BY <1>6, <1>11, ReaderDelivers, Zenon
  <2>2. /\ s \in Seq(R!Bytes) /\ Len(s) = Len(acc) + Len(a)
        /\ Len(acc) \in Nat /\ Len(a) \in Nat
        /\ call.from + Len(s) = Len(taken) + Len(a)
        /\ \A i \in 1..Len(acc) : s[i] = acc[i]
        /\ \A i \in 1..Len(a) : s[Len(acc) + i] = a[i]
        /\ \A i \in 1..Len(s) : s[i] = Input[call.from + i]
    BY <1>2, <1>6, <2>1, ReaderCollects, Zenon
  <2> HIDE DEF s
  <2>3. \A i \in 1..Len(acc) : acc[i] # NL
    BY <1>2 DEF ReaderInv, Collecting
  <2>4. ASSUME NEW i \in 1..Len(s) - 1 PROVE s[i] # NL
    <3>1. CASE i <= Len(acc)
      BY <2>2, <2>3, <3>1
    <3>2. CASE i > Len(acc)
      <4>1. PICK j \in 1..used - 1 : i = Len(acc) + j
        <5>1. i - Len(acc) \in 1..used - 1 /\ i = Len(acc) + (i - Len(acc))
          BY <1>7, <2>2, <3>2
        <5>2. QED
          BY <5>1, Zenon
      <4>2. j \in 1..Len(a)
        BY <1>5, <1>7
      <4>3. QED
        BY <1>12, <2>2, <4>1, <4>2, Zenon
    <3>3. QED
      BY <2>2, <3>1, <3>2
  <2>5. call.from + Len(s) = Len(Input) \/ (Len(s) > 0 /\ s[Len(s)] = NL)
    <3>1. CASE used = 0
      <4>1. Len(g) = 0
        BY <1>5, <1>8, <3>1 DEF R!IsLine
      <4>2. window \o rest = <<>>
        BY <1>4, <4>1
      <4>3. taken = Input
        BY <4>2, JoinedEmpty DEF ReaderInv
      <4>4. Len(a) = 0 /\ Len(taken) \in Nat
        BY <1>7, <3>1, <4>3
      <4>5. QED
        BY <2>2, <4>3, <4>4
    <3>2. CASE used > 0 /\ R!EndsWith(a, NL)
      <4>1. a[Len(a)] = NL /\ Len(a) \in 1..Len(a)
        BY <1>7, <2>2, <3>2 DEF R!EndsWith
      <4>2. s[Len(acc) + Len(a)] = a[Len(a)]
        BY <2>2, <4>1, Zenon
      <4>3. Len(s) > 0
        BY <2>2, <4>1
      <4>4. QED
        BY <2>2, <4>1, <4>2, <4>3
    <3>3. QED
      BY <1>5, <1>14, <3>1, <3>2
  <2>6. R!Promised(call, IF call.op = "lines" THEN R!Trim(s) ELSE s)
    <3>1. call.from + Len(s) <= Len(Input)
      BY <2>1, <2>2
    <3>2. QED
      BY <1>2, <2>2, <2>4, <2>5, <3>1, LinePromised, Zenon
  <2>7. R!Return(call.op = "read_until" \/ R!Utf8(s), IF call.op = "lines" THEN R!Trim(s) ELSE s)
    BY <1>10, <1>14
  <2>8. QED
    BY <1>2, <1>6, <1>9, <1>11, <2>6, <2>7, ReaderReturns, Zenon
<1>15. QED
  BY <1>13, <1>14

(* What read_to_end and read_exact return.                                 *)
LEMMA RestPromised ==
  ASSUME ReaderInv, call # None, Input \in Seq(R!Bytes),
         NEW s \in Seq(R!Bytes), call.from + Len(s) <= Len(Input),
         \A i \in 1..Len(s) : s[i] = Input[call.from + i],
         \/ call.op \in {"read_to_end", "read_to_string"} /\ call.from + Len(s) = Len(Input)
         \/ call.op = "read_exact" /\ Len(s) = call.want
  PROVE  R!Promised(call, s)
<1> DEFINE d == R!Drop(Input, call.from)
<1>1. call.from \in Nat /\ Len(s) \in Nat /\ Len(Input) \in Nat
  BY DEF ReaderInv, Collecting
<1>2. /\ d \in Seq(R!Bytes) /\ Len(d) = Len(Input) - call.from /\ Len(s) \in 0..Len(d)
      /\ s = R!Take(d, Len(s)) /\ \A i \in 1..Len(s) : d[i] = s[i]
  BY <1>1, SliceOf, ZenonT(60)
<1> HIDE DEF d
<1>3. CASE call.op \in {"read_to_end", "read_to_string"} /\ call.from + Len(s) = Len(Input)
  <2>1. Len(s) = Len(d)
    BY <1>1, <1>2, <1>3
  <2>2. s = d
    <3>1. s \in Seq(R!Bytes) /\ d \in Seq(R!Bytes) /\ \A i \in 1..Len(s) : s[i] = d[i]
      BY <1>2
    <3>2. QED
      BY ONLY <2>1, <3>1, SameElements, Zenon
  <2>3. QED
    BY <1>3, <2>2 DEF R!Promised, d
<1>4. CASE call.op = "read_exact" /\ Len(s) = call.want
  <2>1. call.want <= Len(d) /\ s = R!Take(d, call.want)
    BY <1>1, <1>2, <1>4
  <2>2. QED
    BY <1>4, <2>1 DEF R!Promised, d
<1>5. QED
  BY <1>3, <1>4

(* The facts about a round of read_to_end's or read_exact's loop.          *)
LEMMA ReaderRound ==
  ASSUME ReaderInv, call # None, NEW n \in Nat \ {0}, NEW o \in R!Reads(n), R!Deliver(o)
  PROVE  \E a, b, c \in Seq(R!Bytes) :
           /\ o[1] = a /\ Len(a) <= n
           /\ a \o (b \o c) = window \o rest /\ taken' = taken \o a /\ window' = b /\ rest' = c
           /\ a = <<>> => Len(taken) = Len(Input)
           /\ Len(taken) + Len(a) <= Len(Input)
           /\ acc \o a \in Seq(R!Bytes) /\ Len(acc \o a) = Len(acc) + Len(a)
           /\ call.from + Len(acc \o a) = Len(taken) + Len(a)
           /\ \A i \in 1..Len(acc \o a) : (acc \o a)[i] = Input[call.from + i]
<1>1. PICK a \in Seq(R!Bytes), b \in Seq(R!Bytes), c \in Seq(R!Bytes) :
        a = o[1] /\ b = o[2] /\ c = o[3]
  BY ReadsKeep, Zenon DEF ReaderInv
<1>2. Len(a) <= n /\ a \o (b \o c) = window \o rest /\ (a = <<>> => window \o rest = <<>>)
  BY <1>1, ReadsKeep, Zenon DEF ReaderInv
<1>3. taken' = taken \o a /\ window' = b /\ rest' = c
  BY <1>1 DEF R!Deliver
<1>4. a = <<>> => Len(taken) = Len(Input)
  <2>1. ASSUME a = <<>> PROVE taken = Input
    BY <1>2, <2>1, JoinedEmpty DEF ReaderInv
  <2>2. QED
    BY <2>1
<1>5. /\ Len(taken) + Len(a) <= Len(Input)
      /\ \A i \in 1..Len(a) : Input[Len(taken) + i] = a[i]
  BY <1>2, ReaderDelivers, Zenon
<1>6. /\ acc \o a \in Seq(R!Bytes) /\ Len(acc \o a) = Len(acc) + Len(a)
      /\ call.from + Len(acc \o a) = Len(taken) + Len(a)
      /\ \A i \in 1..Len(acc \o a) : (acc \o a)[i] = Input[call.from + i]
  BY <1>5, ReaderCollects, Zenon
<1>7. QED
  BY <1>1, <1>2, <1>3, <1>4, <1>5, <1>6, Zenon

(* read_to_end and read_to_string: a round of the loop.                    *)
LEMMA ReaderToEnd ==
  ASSUME ReaderInv, R!BufReaderAssumption, R!ToEnd
  PROVE  ReaderInv'
<1>1. /\ call # None /\ call.op \in {"read_to_end", "read_to_string"} /\ rcap' = rcap
      /\ call.op \notin LineOps /\ call.op # "read_exact"
  BY DEF R!ToEnd, LineOps
<1>2. TMP \in Nat \ {0} /\ Input \in Seq(R!Bytes)
  BY Zenon DEF R!BufReaderAssumption
<1>3. PICK o \in R!Reads(TMP) :
        /\ R!Deliver(o)
        /\ IF o[1] # <<>> THEN acc' = acc \o o[1] /\ UNCHANGED <<call, last>>
           ELSE R!Return(call.op = "read_to_end" \/ R!Utf8(acc), acc)
  BY DEF R!ToEnd
<1>4. PICK a \in Seq(R!Bytes), b \in Seq(R!Bytes), c \in Seq(R!Bytes) :
        /\ o[1] = a /\ Len(a) <= TMP
        /\ a \o (b \o c) = window \o rest /\ taken' = taken \o a /\ window' = b /\ rest' = c
        /\ a = <<>> => Len(taken) = Len(Input)
        /\ Len(taken) + Len(a) <= Len(Input)
        /\ acc \o a \in Seq(R!Bytes) /\ Len(acc \o a) = Len(acc) + Len(a)
        /\ call.from + Len(acc \o a) = Len(taken) + Len(a)
        /\ \A i \in 1..Len(acc \o a) : (acc \o a)[i] = Input[call.from + i]
  BY <1>1, <1>2, <1>3, ReaderRound, Zenon
<1>5. CASE a # <<>>
  <2>1. acc' = acc \o a /\ UNCHANGED <<rcap, call, last>>
    BY <1>1, <1>3, <1>4, <1>5
  <2>2. QED
    BY <1>1, <1>4, <2>1, ReaderGoesOn, Zenon
<1>6. CASE a = <<>>
  <2>1. acc \o a = acc
    BY <1>6, JoinedEmpty, Zenon DEF ReaderInv
  <2>2. R!Return(call.op = "read_to_end" \/ R!Utf8(acc), acc)
    BY <1>3, <1>4, <1>6, Zenon
  <2>3. /\ acc \in Seq(R!Bytes) /\ call.from + Len(acc) = Len(Input)
        /\ \A i \in 1..Len(acc) : acc[i] = Input[call.from + i]
    BY <1>4, <1>6, <2>1 DEF ReaderInv, Collecting
  <2>4. R!Promised(call, acc)
    <3>1. call.from + Len(acc) <= Len(Input)
      BY <1>2, <2>3
    <3>2. QED
      BY <1>1, <1>2, <2>3, <3>1, RestPromised
  <2>5. QED
    BY <1>1, <1>4, <2>2, <2>4, ReaderReturns, Zenon
<1>7. QED
  BY <1>5, <1>6

(* read_exact: a round of the loop.                                        *)
LEMMA ReaderReadExact ==
  ASSUME ReaderInv, R!BufReaderAssumption, R!Exact
  PROVE  ReaderInv'
<1>1. /\ call # None /\ call.op = "read_exact" /\ rcap' = rcap /\ call.op \notin LineOps
  BY DEF R!Exact, LineOps
<1>2. /\ Input \in Seq(R!Bytes) /\ Len(acc) \in Nat /\ call.want \in Nat
      /\ call.want - Len(acc) \in Nat \ {0}
  BY <1>1 DEF R!BufReaderAssumption, ReaderInv, Collecting
<1>3. PICK o \in R!Reads(call.want - Len(acc)) :
        /\ R!Deliver(o)
        /\ IF o[1] # <<>> /\ Len(acc \o o[1]) < call.want
           THEN acc' = acc \o o[1] /\ UNCHANGED <<call, last>>
           ELSE R!Return(o[1] # <<>>, acc \o o[1])
  BY DEF R!Exact
<1>4. PICK a \in Seq(R!Bytes), b \in Seq(R!Bytes), c \in Seq(R!Bytes) :
        /\ o[1] = a /\ Len(a) <= call.want - Len(acc)
        /\ a \o (b \o c) = window \o rest /\ taken' = taken \o a /\ window' = b /\ rest' = c
        /\ a = <<>> => Len(taken) = Len(Input)
        /\ Len(taken) + Len(a) <= Len(Input)
        /\ acc \o a \in Seq(R!Bytes) /\ Len(acc \o a) = Len(acc) + Len(a)
        /\ call.from + Len(acc \o a) = Len(taken) + Len(a)
        /\ \A i \in 1..Len(acc \o a) : (acc \o a)[i] = Input[call.from + i]
  BY <1>1, <1>2, <1>3, ReaderRound, Zenon
<1>5. CASE a # <<>> /\ Len(acc \o a) < call.want
  <2>1. acc' = acc \o a /\ UNCHANGED <<rcap, call, last>>
    BY <1>1, <1>3, <1>4, <1>5
  <2>2. QED
    BY <1>1, <1>4, <1>5, <2>1, ReaderGoesOn, Zenon
<1>6. CASE ~(a # <<>> /\ Len(acc \o a) < call.want)
  <2>1. R!Return(a # <<>>, acc \o a)
    BY <1>3, <1>4, <1>6
  <2>2. ASSUME a # <<>> PROVE R!Promised(call, acc \o a)
    <3>1. Len(acc \o a) = call.want
      <4>1. PICK k \in Nat, m \in Nat, w \in Nat : k = Len(acc) /\ m = Len(a) /\ w = call.want
        BY <1>2
      <4>2. Len(acc \o a) = k + m /\ m <= w - k
        BY <1>4, <4>1
      <4>3. ~(k + m < w)
        BY <1>6, <2>2, <4>1, <4>2
      <4>4. k + m = w
        BY ONLY k \in Nat, m \in Nat, w \in Nat, <4>2, <4>3
      <4>5. QED
        BY <4>1, <4>2, <4>4
    <3>2. call.from + Len(acc \o a) <= Len(Input)
      BY <1>4
    <3>3. QED
      BY <1>1, <1>2, <1>4, <3>1, <3>2, RestPromised, Zenon
  <2>3. QED
    BY <1>1, <1>4, <2>1, <2>2, ReaderReturns, Zenon
<1>7. QED
  BY <1>5, <1>6

(* A read, and fill_buf with consume.                                      *)
LEMMA ReaderReads ==
  ASSUME ReaderInv, R!BufReaderAssumption, NEW n \in ReadSizes, R!Read(n) \/ R!Consume(n)
  PROVE  ReaderInv'
<1>1. call = None /\ last' = None /\ UNCHANGED <<rcap, call, acc>> /\ n \in Nat \ {0}
  BY DEF R!Read, R!Consume, R!BufReaderAssumption
<1>2. PICK a \in Seq(R!Bytes), b \in Seq(R!Bytes), c \in Seq(R!Bytes) :
        a \o (b \o c) = window \o rest /\ taken' = taken \o a /\ window' = b /\ rest' = c
  <2>1. CASE R!Read(n)
    <3>1. PICK o \in R!Reads(n) : R!Deliver(o)
      BY <2>1 DEF R!Read
    <3>2. /\ o[1] \in Seq(R!Bytes) /\ o[2] \in Seq(R!Bytes) /\ o[3] \in Seq(R!Bytes)
          /\ o[1] \o (o[2] \o o[3]) = window \o rest
      BY <1>1, ReadsKeep, Zenon DEF ReaderInv
    <3>3. QED
      BY <3>1, <3>2, Zenon DEF R!Deliver
  <2>2. CASE R!Consume(n)
    <3>1. PICK f \in R!FillBuf :
            LET m == R!Least(n, Len(f[1]))
            IN  R!Deliver(<<R!Take(f[1], m), R!Drop(f[1], m), f[2]>>)
      BY <2>2, Zenon DEF R!Consume
    <3>2. PICK g \in Seq(R!Bytes), c \in Seq(R!Bytes) : g = f[1] /\ c = f[2]
      BY FillBufKeeps, Zenon DEF ReaderInv
    <3>3. g \o c = window \o rest
      BY <3>2, FillBufKeeps, Zenon DEF ReaderInv
    <3>4. PICK m \in 0..Len(g) : m = R!Least(n, Len(f[1]))
      BY <1>1, <3>2 DEF R!Least
    <3>5. /\ R!Take(g, m) \in Seq(R!Bytes) /\ R!Drop(g, m) \in Seq(R!Bytes)
          /\ R!Take(g, m) \o (R!Drop(g, m) \o c) = g \o c
      <4>1. Parts(R!Bytes, R!Take(g, m), R!Drop(g, m), c, g)
        BY ONLY g \in Seq(R!Bytes), c \in Seq(R!Bytes), m \in 0..Len(g), PartKeeps, Zenon
      <4>2. QED
        BY <4>1, Zenon DEF Parts
    <3>6. taken' = taken \o R!Take(g, m) /\ window' = R!Drop(g, m) /\ rest' = c
      BY <3>1, <3>2, <3>4 DEF R!Deliver
    <3>7. QED
      BY <3>3, <3>5, <3>6, Zenon
  <2>3. QED
    BY <2>1, <2>2, Zenon
<1>3. QED
  BY <1>1, <1>2, ReaderPasses, Zenon

(* A call begins.                                                          *)
LEMMA ReaderStarts ==
  ASSUME ReaderInv, NEW o \in R!Ops, NEW n \in Nat, R!Start(o, n), o = "read_exact" => n > 0
  PROVE  ReaderInv'
<1>1. /\ acc = <<>> /\ acc' = acc /\ taken' = taken /\ last' = None
      /\ call' = [op |-> o, from |-> Len(taken), want |-> n]
      /\ UNCHANGED <<rcap, rest, window>>
  BY DEF R!Start, ReaderInv
<1>2. Len(acc') = 0 /\ Len(taken) \in Nat
  BY <1>1 DEF ReaderInv
<1>3. call'.op = o /\ call'.from = Len(taken) /\ call'.want = n
  BY <1>1
<1>4. Collecting'
  BY <1>1, <1>2, <1>3 DEF Collecting
<1>5. R!CallsExact'
  BY <1>1 DEF R!CallsExact
<1>6. QED
  BY <1>1, <1>4, <1>5, Zenon DEF ReaderInv, R!Bytes

(* A BufReader of any capacity over any input, with any sequence of short  *)
(* and failing reads: no byte is lost, repeated or out of order, and a     *)
(* call of read_until, read_line, lines, read_to_end, read_to_string or    *)
(* read_exact that succeeds returns what it promises.                      *)
THEOREM ReaderExactHolds ==
  ASSUME R!BufReaderAssumption
  PROVE  R!Spec => []ReaderExact
<1>1. R!Init => ReaderInv
  <2> SUFFICES ASSUME R!Init PROVE ReaderInv
    OBVIOUS
  <2>1. /\ rest = Input /\ window = <<>> /\ taken = <<>> /\ acc = <<>> /\ call = None
        /\ last = None /\ rcap \in Nat \ {0} /\ Input \in Seq(R!Bytes)
    BY DEF R!Init, R!BufReaderAssumption
  <2>2. <<>> \o Input = Input /\ <<>> \in Seq(R!Bytes)
    BY <2>1, JoinedEmpty
  <2>3. R!CallsExact
    BY <2>1 DEF R!CallsExact
  <2>4. QED
    BY <2>1, <2>2, <2>3 DEF ReaderInv
<1>2. ReaderInv /\ UNCHANGED R!vars => ReaderInv'
  <2> SUFFICES ASSUME ReaderInv, UNCHANGED R!vars PROVE ReaderInv'
    OBVIOUS
  <2>1. R!CallsExact'
    <3>1. R!Promised(last.call, last.bytes)' <=> R!Promised(last'.call, last'.bytes)
      BY DEF R!Promised, R!IsLine, R!Trim, R!EndsWith, R!Chop, R!Take, R!Drop
    <3>2. QED
      BY <3>1 DEF ReaderInv, R!CallsExact, R!vars
  <2>2. QED
    BY <2>1 DEF ReaderInv, Collecting, R!vars, R!Bytes
<1>3. ASSUME ReaderInv, R!Fails PROVE ReaderInv'
  <2>1. R!Return(FALSE, acc) /\ UNCHANGED <<rcap, rest, window, taken>>
    BY <1>3, Zenon DEF R!Fails
  <2>2. /\ <<>> \in Seq(R!Bytes) /\ taken \o <<>> = taken
        /\ <<>> \o (window \o rest) = window \o rest
    <3>1. window \o rest \in Seq(R!Bytes)
      BY <1>3, Joined DEF ReaderInv
    <3>2. QED
      BY <1>3, <3>1, JoinedEmpty DEF ReaderInv
  <2>3. QED
    BY <1>3, <2>1, <2>2, ReaderReturns, Zenon DEF ReaderInv
<1>4. ASSUME ReaderInv, R!Next PROVE ReaderInv'
  <2>1. ASSUME NEW n \in ReadSizes, R!Start("read_exact", n) PROVE ReaderInv'
    BY <1>4, <2>1, ReaderStarts DEF R!Ops, R!BufReaderAssumption
  <2>2. ASSUME NEW o \in R!Ops \ {"read_exact"}, R!Start(o, 0) PROVE ReaderInv'
    BY <1>4, <2>2, ReaderStarts
  <2>3. Input \in Seq(R!Bytes)
    BY DEF R!BufReaderAssumption
  <2>4. QED
    BY <1>3, <1>4, <2>1, <2>2, <2>3, ReaderReads, ReaderUntil, ReaderToEnd, ReaderReadExact
       DEF R!Next
<1>5. ReaderInv => ReaderExact
  BY DEF ReaderInv, ReaderExact, R!ReaderExact, R!StreamKept
<1>6. QED
  BY <1>1, <1>2, <1>4, <1>5, PTL DEF R!Spec

-----------------------------------------------------------------------------
(* Threads that share stdin get whole lines, whatever the input and the    *)
(* reads.                                                                  *)

CONSTANTS Threads, Nobody, Text, Lead, Cont,                      \* see Stdin
          CAP, Wants, MaxReads, MaxFails

VARIABLES holder, ahead, srest, spc, sop, sacc, given, reads, fails

I == INSTANCE Stdin WITH rest <- srest, pc <- spc, op <- sop, acc <- sacc

ASSUME SharedAssumption == I!StdinAssumption

(* Stdin: lines and reads of several threads stay whole, in order.         *)
LinesWhole == I!LinesWhole

(* What is left of s after g is x, up to h, and then y.                    *)
Divided(s, g, x, h, y) ==
  /\ Len(x) \in Nat /\ Len(y) \in Nat /\ Len(s) \in Nat
  /\ h = g + Len(x) /\ h \in Nat /\ h <= Len(s) /\ (y = <<>> <=> h = Len(s))
  /\ \A i \in 1..Len(x) : x[i] = s[g + i]
  /\ x = SubSeq(s, g + 1, h)
  /\ y = SubSeq(s, h + 1, Len(s))

LEMMA Divide ==
  ASSUME NEW M, NEW s \in Seq(M), NEW g \in Nat, g <= Len(s), NEW x \in Seq(M), NEW y \in Seq(M),
         x \o y = SubSeq(s, g + 1, Len(s))
  PROVE  Divided(s, g, x, g + Len(x), y)
<1> DEFINE d == SubSeq(s, g + 1, Len(s))
<1>1. PICK l \in Nat, m \in Nat, n \in Nat : l = Len(x) /\ m = Len(y) /\ n = Len(s)
  OBVIOUS
<1>2. d \in Seq(M) /\ Len(d) = n - g /\ \A i \in 1..(n - g) : d[i] = s[g + i]
  BY <1>1, Sliced
<1>3. /\ Len(d) = l + m
      /\ \A i \in 1..l : d[i] = x[i]
      /\ \A i \in (l + 1)..(l + m) : d[i] = y[i - l]
  <2>1. /\ Len(x \o y) = Len(x) + Len(y)
        /\ \A i \in 1..Len(x) : (x \o y)[i] = x[i]
        /\ \A i \in (Len(x) + 1)..(Len(x) + Len(y)) : (x \o y)[i] = y[i - Len(x)]
    BY ONLY x \in Seq(M), y \in Seq(M), Joined, Zenon
  <2>2. x \o y = d
    OBVIOUS
  <2> HIDE DEF d
  <2>3. QED
    BY <1>1, <2>1, <2>2
<1> HIDE DEF d
<1>4. n = g + l + m
  BY <1>1, <1>2, <1>3
<1>5. ASSUME NEW i \in 1..l PROVE x[i] = s[g + i]
  <2>1. i \in 1..(n - g)
    BY ONLY <1>4, g \in Nat, l \in Nat, m \in Nat, i \in 1..l
  <2>2. QED
    BY <1>2, <1>3, <2>1
<1>6. ASSUME NEW i \in 1..m PROVE y[i] = s[(g + l) + i]
  <2>1. l + i \in 1..(n - g) /\ l + i \in (l + 1)..(l + m) /\ (l + i) - l = i /\ g + (l + i) = (g + l) + i
    BY ONLY <1>4, g \in Nat, l \in Nat, m \in Nat, i \in 1..m
  <2>2. d[l + i] = s[g + (l + i)] /\ d[l + i] = y[(l + i) - l]
    BY <1>2, <1>3, <2>1, Zenon
  <2>3. QED
    BY <2>1, <2>2, Zenon
<1>7. x = SubSeq(s, g + 1, g + l)
  <2>0. g + l \in Nat /\ g <= g + l /\ g + l <= Len(s) /\ (g + l) - g = l
    BY <1>1, <1>4
  <2> DEFINE e == SubSeq(s, g + 1, g + l)
  <2>1. e \in Seq(M) /\ Len(e) = l /\ \A i \in 1..l : e[i] = s[g + i]
    <3>1. e \in Seq(M) /\ Len(e) = (g + l) - g /\ \A i \in 1..((g + l) - g) : e[i] = s[g + i]
      BY ONLY <2>0, s \in Seq(M), g \in Nat, Sliced, ZenonT(60)
    <3>2. QED
      BY <2>0, <3>1, Zenon
  <2> HIDE DEF e
  <2>2. x = e
    BY ONLY x \in Seq(M), <1>1, <1>5, <2>1, SameElements
  <2>3. QED
    BY <2>2 DEF e
<1>8. y = SubSeq(s, (g + l) + 1, n)
  <2> DEFINE e == SubSeq(s, (g + l) + 1, n)
  <2>1. e \in Seq(M) /\ Len(e) = m /\ \A i \in 1..m : e[i] = s[(g + l) + i]
    <3>1. g + l \in Nat /\ n \in Nat /\ g + l <= n /\ n <= Len(s) /\ n - (g + l) = m
      BY <1>1, <1>4
    <3>2. QED
      BY <3>1, Sliced
  <2> HIDE DEF e
  <2>2. y = e
    <3>1. Len(y) = Len(e) /\ \A i \in 1..Len(y) : y[i] = e[i]
      BY ONLY <1>1, <1>6, <2>1, Zenon
    <3>2. QED
      BY ONLY y \in Seq(M), <2>1, <3>1, SameElements, Zenon
  <2>3. QED
    BY <2>2 DEF e
<1>9. y = <<>> <=> m = 0
  BY <1>1
<1>10. g + l <= n /\ (m = 0 <=> g + l = n)
  BY <1>4
<1>11. QED
  <2>1. g + Len(x) = g + l /\ g + l \in Nat
    BY <1>1
  <2>2. QED
    BY ONLY <1>1, <1>5, <1>7, <1>8, <1>9, <1>10, <2>1, Zenon DEF Divided

Calls == {"read", "read_line", "lines"}
Outcomes == Calls \cup {"failed", "invalid"}
Entries == [op : Outcomes, from : Nat, bytes : Seq(I!Bytes)]

(* What LinesWhole says of the call that returned as the i-th.             *)
Whole(i) ==
  LET g == given[i]
  IN  /\ g.from = IF i = 1 THEN 0 ELSE I!End(given[i - 1])
      /\ I!End(g) <= Len(Text) /\ g.bytes = SubSeq(Text, g.from + 1, I!End(g))
      /\ g.op # "read" => \A k \in g.from + 1..I!End(g) - 1 : Text[k] # NL
      /\ g.op \notin I!Raw =>
           /\ g.op # "invalid" <=> I!IsUtf8(g.bytes)
           /\ (g.bytes = <<>> \/ Text[I!End(g)] # NL) => I!End(g) = Len(Text)
           /\ g.from > 0 /\ g.from < Len(Text) /\ Text[g.from] # NL => given[i - 1].op \in I!Raw

AllWhole == given \in Seq(Entries) /\ \A i \in 1..Len(given) : Whole(i)

LEMMA GivenBounded ==
  ASSUME AllWhole, Text \in Seq(I!Bytes)
  PROVE  I!Given \in Nat /\ I!Given <= Len(Text)
<1>1. CASE given = <<>>
  BY <1>1 DEF I!Given
<1>2. CASE given # <<>>
  <2>1. Len(given) \in 1..Len(given) /\ given[Len(given)] \in Entries
    BY <1>2 DEF AllWhole
  <2>2. I!End(given[Len(given)]) \in Nat
    BY <2>1 DEF I!End, Entries
  <2>3. QED
    BY <1>2, <2>1, <2>2 DEF I!Given, AllWhole, Whole
<1>3. QED
  BY <1>1, <1>2

(* One more call returns, with the next bytes of the input: all of them up *)
(* to a newline, unless it is a raw read or failed.                        *)
LEMMA OneMoreWhole ==
  ASSUME AllWhole, Text \in Seq(I!Bytes), NEW o \in Outcomes, NEW x \in Seq(I!Bytes), I!Give(o, x),
         I!Given + Len(x) <= Len(Text),
         x = SubSeq(Text, I!Given + 1, I!Given + Len(x)),
         o # "read" => \A k \in I!Given + 1..I!Given + Len(x) - 1 : Text[k] # NL,
         o \notin I!Raw =>
           /\ o # "invalid" <=> I!IsUtf8(x)
           /\ (x = <<>> \/ Text[I!Given + Len(x)] # NL) => I!Given + Len(x) = Len(Text)
  PROVE  AllWhole' /\ I!Given' = I!Given + Len(x)
<1>1. PICK n \in Nat, b \in Nat : n = Len(given) /\ b = I!Given
  BY GivenBounded DEF AllWhole
<1> DEFINE e == [op |-> o, from |-> b, bytes |-> x]
<1>2. e \in Entries /\ e.op = o /\ e.from = b /\ e.bytes = x /\ I!End(e) = b + Len(x)
  BY DEF Entries, I!End
<1>3. given' = Append(given, e)
  BY <1>1 DEF I!Give
<1> HIDE DEF e
<1>4. /\ given' \in Seq(Entries) /\ Len(given') = n + 1 /\ given'[n + 1] = e
      /\ \A i \in 1..n : given'[i] = given[i]
  BY <1>1, <1>2, <1>3 DEF AllWhole
<1>5. given' # <<>> /\ Len(given') = n + 1
  BY <1>1, <1>4
<1>6. I!Given' = b + Len(x)
  <2>1. I!Given' = I!End(given'[n + 1])
    BY <1>5 DEF I!Given, I!End
  <2>2. QED
    BY <1>2, <1>4, <2>1, Zenon
<1>7. ASSUME NEW i \in 1..n PROVE Whole(i)'
  <2>1. Whole(i) /\ given'[i] = given[i]
    BY <1>1, <1>4, Zenon DEF AllWhole
  <2>2. CASE i = 1
    <3>1. given[i].from = 0 /\ ~(given[i].from > 0)
      BY <2>1, <2>2, SMTT(30) DEF Whole
    <3>2. QED
      BY <2>1, <2>2, <3>1, Zenon DEF Whole, I!End
  <2>3. CASE i # 1
    <3>1. i - 1 \in 1..n
      BY <2>3
    <3>2. given'[i - 1] = given[i - 1]
      BY <1>4, <3>1, Zenon
    <3>3. QED
      BY <2>1, <2>3, <3>2, Zenon DEF Whole, I!End
  <2>4. QED
    BY <2>2, <2>3, Zenon
<1>8. Whole(n + 1)'
  <2>0. /\ e.from = b /\ I!End(e) = b + Len(x) /\ e.bytes = x /\ e.op = o
        /\ b + Len(x) <= Len(Text) /\ x = SubSeq(Text, b + 1, b + Len(x))
        /\ o # "read" => \A k \in b + 1..b + Len(x) - 1 : Text[k] # NL
        /\ o \notin I!Raw =>
             /\ o # "invalid" <=> I!IsUtf8(x)
             /\ (x = <<>> \/ Text[b + Len(x)] # NL) => b + Len(x) = Len(Text)
    BY <1>1, <1>2
  <2>1. CASE n = 0
    <3>1. given = <<>>
      <4>1. given \in Seq(Entries) /\ Len(given) = 0
        BY <1>1, <2>1 DEF AllWhole
      <4>2. QED
        BY ONLY <4>1
    <3>2. b = 0 /\ n + 1 = 1 /\ given'[n + 1] = e
      BY <1>1, <1>4, <2>1, <3>1 DEF I!Given
    <3>3. Whole(1)'
      <4>1. given'[1] = e
        BY <3>2
      <4>2. QED
        BY ONLY <2>0, <3>2, <4>1 DEF Whole, I!End
    <3>4. QED
      BY <3>2, <3>3
  <2>2. CASE n # 0
    <3>1. given # <<>> /\ n \in 1..n /\ (n + 1) - 1 = n /\ n + 1 # 1
      BY <1>1, <2>2 DEF AllWhole
    <3>2. given'[(n + 1) - 1] = given[n] /\ given'[n + 1] = e
      BY <1>4, <3>1
    <3>3. I!End(given[n]) = b
      BY <1>1, <3>1 DEF I!Given
    <3>4. Whole(n)
      BY <1>1, <3>1 DEF AllWhole
    <3>5. b > 0 /\ b < Len(Text) /\ Text[b] # NL => given[n].op \in I!Raw
      <4>1. given[n].op \notin I!Raw => (Text[b] # NL => b = Len(Text))
        BY <3>3, <3>4 DEF Whole
      <4>2. Len(Text) \in Nat
        OBVIOUS
      <4>3. QED
        BY <1>1, <4>1, <4>2
    <3>6. given'[(n + 1) - 1].from + Len(given'[(n + 1) - 1].bytes) = b
      BY <3>2, <3>3, Zenon DEF I!End
    <3>7. given'[n + 1].from + Len(given'[n + 1].bytes) = b + Len(x)
      BY <2>0, <3>2, Zenon DEF I!End
    <3>8. /\ given'[n + 1].from = b /\ given'[n + 1].bytes = x /\ given'[n + 1].op = o
          /\ given'[(n + 1) - 1].op = given[n].op
      BY <2>0, <3>2, Zenon
    <3>9. (given[n + 1].from = IF n + 1 = 1 THEN 0 ELSE I!End(given[(n + 1) - 1]))'
      BY <3>1, <3>6, <3>8, Zenon DEF I!End
    <3>10. (/\ I!End(given[n + 1]) <= Len(Text)
            /\ given[n + 1].bytes = SubSeq(Text, given[n + 1].from + 1, I!End(given[n + 1])))'
      BY ONLY <2>0, <3>7, <3>8, Zenon DEF I!End
    <3>11. (given[n + 1].op # "read" =>
             \A k \in given[n + 1].from + 1..I!End(given[n + 1]) - 1 : Text[k] # NL)'
      BY ONLY <2>0, <3>7, <3>8 DEF I!End
    <3>12. (given[n + 1].op \notin I!Raw => (given[n + 1].op # "invalid" <=> I!IsUtf8(given[n + 1].bytes)))'
      BY ONLY <2>0, <3>8, Zenon DEF I!Raw, I!IsUtf8
    <3>13. (given[n + 1].op \notin I!Raw =>
             /\ (given[n + 1].bytes = <<>> \/ Text[I!End(given[n + 1])] # NL)
                  => I!End(given[n + 1]) = Len(Text)
             /\ given[n + 1].from > 0 /\ given[n + 1].from < Len(Text)
                /\ Text[given[n + 1].from] # NL => given[(n + 1) - 1].op \in I!Raw)'
      BY ONLY <2>0, <3>5, <3>7, <3>8 DEF I!End, I!Raw
    <3>14. QED
      BY ONLY <3>9, <3>10, <3>11, <3>12, <3>13, Zenon DEF Whole, I!Raw, I!IsUtf8
  <2>3. QED
    BY <2>1, <2>2
<1>9. QED
  <2>1. ASSUME NEW i \in 1..Len(given') PROVE Whole(i)'
    <3>1. i \in 1..n \/ i = n + 1
      BY <1>4
    <3>2. QED
      BY <1>7, <1>8, <3>1
  <2>2. QED
    BY <1>1, <1>4, <1>6, <2>1 DEF AllWhole, Entries, I!Bytes

StdinTypes ==
  /\ holder \in Threads \cup {Nobody}
  /\ ahead \in Seq(I!Bytes) /\ srest \in Seq(I!Bytes)
  /\ spc \in [Threads -> {"idle", "lock", "read", "line", "lines"}]
  /\ sop \in [Threads -> Calls]
  /\ sacc \in [Threads -> Seq(I!Bytes)]

(* Who reads holds the lock, and only who reads a line has collected a     *)
(* part of one, without a newline.                                         *)
Reading ==
  \A t \in Threads :
    /\ spc[t] \in {"read", "line", "lines"} => holder = t
    /\ spc[t] # "line" => sacc[t] = <<>>
    /\ \A k \in 1..Len(sacc[t]) : sacc[t][k] # NL

Stream == I!Held \o (ahead \o srest) = SubSeq(Text, I!Given + 1, Len(Text))

(* The inductive strengthening of LinesWhole.                              *)
StdinInv == StdinTypes /\ Reading /\ Stream /\ AllWhole

(* fill_buf leaves the stream as it is, and an empty buffer only at its    *)
(* end.                                                                    *)
LEMMA StdinFills ==
  ASSUME I!StdinAssumption, StdinTypes, NEW size \in Nat \ {0}, NEW f \in I!Filled(size)
  PROVE  /\ f[1] \in Seq(I!Bytes) /\ f[2] \in Seq(I!Bytes) /\ f[1] \o f[2] = ahead \o srest
         /\ f[1] = <<>> => ahead \o srest = <<>>
<1> DEFINE M == I!Bytes
<1>0. ahead \in Seq(M) /\ srest \in Seq(M)
  BY DEF StdinTypes
<1> HIDE DEF M
<1>1. CASE ahead # <<>>
  BY <1>0, <1>1 DEF I!Filled, M
<1>2. CASE ahead = <<>> /\ srest = <<>>
  <2>1. f[1] = <<>> /\ f[2] = <<>>
    BY <1>2 DEF I!Filled
  <2>2. ahead \o srest = <<>>
    BY <1>0, <1>2, JoinedEmpty
  <2>3. QED
    BY <1>0, <1>2, <2>1, <2>2 DEF M
<1>3. CASE ahead = <<>> /\ srest # <<>>
  <2>1. PICK n \in 1..Len(srest) : f = <<SubSeq(srest, 1, n), SubSeq(srest, n + 1, Len(srest))>>
    BY <1>0, <1>3, SMTT(30) DEF I!Filled
  <2>2. n \in 0..Len(srest)
    BY <1>0
  <2> DEFINE p == SubSeq(srest, 1, n)
             q == SubSeq(srest, n + 1, Len(srest))
  <2>3. p \in Seq(M) /\ q \in Seq(M) /\ Len(p) = n /\ p \o q = srest
    BY <1>0, <2>2, CutInTwo, Zenon
  <2>4. f[1] = p /\ f[2] = q
    BY <2>1
  <2> HIDE DEF p, q
  <2>5. ahead \o srest = srest /\ p # <<>>
    BY <1>0, <1>3, <2>3, JoinedEmpty
  <2>6. QED
    BY <2>3, <2>4, <2>5 DEF M
<1>4. QED
  BY <1>1, <1>2, <1>3, Zenon

(* n bytes of the buffer are taken: what fill_buf, the slice and what is   *)
(* left of the buffer are.                                                 *)
LEMMA StdinTakes ==
  ASSUME I!StdinAssumption, StdinTypes, NEW size \in Nat \ {0}, NEW f \in I!Filled(size),
         NEW n \in 0..Len(f[1]), I!Taken(f, n)
  PROVE  \E g, x \in Seq(I!Bytes) :
           /\ g = f[1] /\ x = SubSeq(f[1], 1, n) /\ Len(x) = n /\ \A i \in 1..n : x[i] = g[i]
           /\ ahead' \in Seq(I!Bytes) /\ srest' \in Seq(I!Bytes)
           /\ x \o (ahead' \o srest') = ahead \o srest
           /\ g = <<>> => ahead \o srest = <<>>
<1> DEFINE M == I!Bytes
<1> HIDE DEF M
<1>1. PICK g \in Seq(M), h \in Seq(M) : g = f[1] /\ h = f[2]
  BY StdinFills, Zenon DEF M
<1>2. n \in 0..Len(g)
  BY <1>1
<1>3. g \o h = ahead \o srest /\ (g = <<>> => ahead \o srest = <<>>)
  BY <1>1, StdinFills, Zenon
<1> DEFINE x == SubSeq(g, 1, n)
           y == SubSeq(g, n + 1, Len(g))
<1>4. x \in Seq(M) /\ y \in Seq(M) /\ x \o (y \o h) = g \o h
  <2>1. \A a, b \in Seq(M) : \A m \in 0..Len(a) :
          /\ SubSeq(a, 1, m) \in Seq(M) /\ SubSeq(a, m + 1, Len(a)) \in Seq(M)
          /\ SubSeq(a, 1, m) \o (SubSeq(a, m + 1, Len(a)) \o b) = a \o b
    BY PartTaken, Zenon
  <2>2. QED
    BY ONLY g \in Seq(M), h \in Seq(M), <1>2, <2>1, Zenon
<1>5. Len(x) = n /\ \A i \in 1..n : x[i] = g[i]
  BY <1>2, CutInTwo
<1>6. ahead' = y /\ srest' = h /\ x = SubSeq(f[1], 1, n)
  BY <1>1 DEF I!Taken
<1> HIDE DEF x, y
<1>7. QED
  BY <1>1, <1>3, <1>4, <1>5, <1>6, Zenon DEF M

(* A call returns x, with nothing collected left.                          *)
LEMMA StdinReturns ==
  ASSUME I!StdinAssumption, StdinInv, NEW o \in Outcomes, NEW x \in Seq(I!Bytes), I!Give(o, x),
         ahead' \in Seq(I!Bytes), srest' \in Seq(I!Bytes),
         x \o (ahead' \o srest') = I!Held \o (ahead \o srest), I!Held' = <<>>,
         o # "read" => \A k \in 1..Len(x) - 1 : x[k] # NL,
         o \notin I!Raw =>
           /\ o # "invalid" <=> I!IsUtf8(x)
           /\ ahead' \o srest' = <<>> \/ (x # <<>> /\ x[Len(x)] = NL)
  PROVE  Stream' /\ AllWhole'
<1> DEFINE M == I!Bytes
           y == ahead' \o srest'
<1> HIDE DEF M
<1>1. Text \in Seq(M) /\ x \in Seq(M) /\ y \in Seq(M)
  <2>1. ahead' \in Seq(M) /\ srest' \in Seq(M)
    BY DEF M
  <2>2. y \in Seq(M)
    BY ONLY <2>1, Joined, Zenon
  <2>3. QED
    BY <2>2 DEF I!StdinAssumption, M
<1>2. PICK b \in Nat : b = I!Given /\ b <= Len(Text)
  BY <1>1, GivenBounded DEF StdinInv, M
<1> HIDE DEF y
<1>3. x \o y = SubSeq(Text, b + 1, Len(Text))
  BY <1>2 DEF StdinInv, Stream, y
<1>4. Divided(Text, b, x, b + Len(x), y)
  <2>1. b <= Len(Text)
    BY <1>2
  <2>2. QED
    BY ONLY b \in Nat, <1>1, <1>3, <2>1, Divide, Zenon
<1>5. /\ Len(x) \in Nat /\ Len(Text) \in Nat
      /\ b + Len(x) <= Len(Text) /\ (y = <<>> <=> b + Len(x) = Len(Text))
      /\ \A i \in 1..Len(x) : x[i] = Text[b + i]
      /\ x = SubSeq(Text, b + 1, b + Len(x))
      /\ y = SubSeq(Text, (b + Len(x)) + 1, Len(Text))
  BY ONLY <1>4, Zenon DEF Divided
<1>6. ASSUME o # "read", NEW k \in b + 1..b + Len(x) - 1 PROVE Text[k] # NL
  <2>1. k - b \in 1..Len(x) - 1 /\ k - b \in 1..Len(x) /\ b + (k - b) = k
    BY <1>2, <1>5
  <2>2. QED
    BY <1>5, <1>6, <2>1, Zenon
<1>7. ASSUME o \notin I!Raw, x = <<>> \/ Text[b + Len(x)] # NL PROVE b + Len(x) = Len(Text)
  <2>1. CASE y = <<>>
    BY <1>5, <2>1
  <2>2. CASE x # <<>> /\ x[Len(x)] = NL
    <3>1. Len(x) \in 1..Len(x)
      BY <1>1, <1>5, <2>2
    <3>2. QED
      BY <1>5, <1>7, <2>2, <3>1, Zenon
  <2>3. QED
    BY <1>7, <2>1, <2>2 DEF y
<1>8. AllWhole' /\ I!Given' = b + Len(x)
  BY <1>1, <1>2, <1>5, <1>6, <1>7, OneMoreWhole, Zenon DEF StdinInv, M
<1>9. Stream'
  <2>1. <<>> \o y = y
    BY <1>1, JoinedEmpty
  <2>2. QED
    BY <1>5, <1>8, <2>1 DEF Stream, y
<1>10. QED
  BY <1>8, <1>9

(* A step that leaves the stream and what was returned alone.              *)
LEMMA StdinSame ==
  ASSUME StdinInv, UNCHANGED <<ahead, srest, given>>, I!Held' = I!Held
  PROVE  Stream' /\ AllWhole'
BY Zenon DEF StdinInv, Stream, AllWhole, Whole, I!Given, I!End, Entries, I!Bytes, I!Raw, I!IsUtf8

(* The holder of the lock gives it up, or keeps it between two lines, with *)
(* nothing collected.                                                      *)
LEMMA StdinLeaves ==
  ASSUME StdinInv, NEW t \in Threads, holder = t, sacc' = [sacc EXCEPT ![t] = <<>>],
         \/ spc' = [spc EXCEPT ![t] = "idle"] /\ holder' = Nobody
         \/ spc' = [spc EXCEPT ![t] = "lines"] /\ holder' = holder,
         sop' = sop, ahead' \in Seq(I!Bytes), srest' \in Seq(I!Bytes), Stream', AllWhole'
  PROVE  StdinInv'
<1>1. StdinTypes'
  <2>1. sacc' \in [Threads -> Seq(I!Bytes)]
    BY JoinedEmpty DEF StdinInv, StdinTypes
  <2>2. QED
    BY <2>1, Zenon DEF StdinInv, StdinTypes, I!Bytes
<1>2. Reading'
  <2> SUFFICES ASSUME NEW u \in Threads
               PROVE  /\ spc'[u] \in {"read", "line", "lines"} => holder' = u
                      /\ spc'[u] # "line" => sacc'[u] = <<>>
                      /\ \A k \in 1..Len(sacc'[u]) : sacc'[u][k] # NL
    BY DEF Reading
  <2>1. /\ spc[u] \in {"read", "line", "lines"} => holder = u
        /\ spc[u] # "line" => sacc[u] = <<>>
        /\ \A k \in 1..Len(sacc[u]) : sacc[u][k] # NL
    BY Zenon DEF StdinInv, Reading
  <2>2. CASE u = t
    <3>1. spc'[u] \in {"idle", "lines"} /\ sacc'[u] = <<>> /\ (spc'[u] = "lines" => holder' = u)
      BY <2>2 DEF StdinInv, StdinTypes
    <3>2. QED
      BY <3>1
  <2>3. CASE u # t
    <3>1. spc'[u] = spc[u] /\ sacc'[u] = sacc[u]
      BY <2>3 DEF StdinInv, StdinTypes
    <3>2. QED
      BY <2>1, <2>3, <3>1, Zenon
  <2>4. QED
    BY <2>2, <2>3
<1>3. QED
  BY <1>1, <1>2 DEF StdinInv

(* Stdin::read: one raw read under the lock.                               *)
LEMMA StdinReads ==
  ASSUME I!StdinAssumption, StdinInv, NEW t \in Threads, I!Read(t)
  PROVE  StdinInv'
<1>1. PICK want \in Wants :
        \E f \in I!Filled(IF want >= CAP THEN want ELSE CAP) :
          LET n == IF Len(f[1]) < want THEN Len(f[1]) ELSE want
          IN  I!Taken(f, n) /\ I!Give("read", SubSeq(f[1], 1, n))
  BY Zenon DEF I!Read
<1>2. PICK size \in Nat \ {0} : size = (IF want >= CAP THEN want ELSE CAP) /\ want \in Nat
  BY DEF I!StdinAssumption
<1>3. PICK f \in I!Filled(size) :
        LET n == IF Len(f[1]) < want THEN Len(f[1]) ELSE want
        IN  I!Taken(f, n) /\ I!Give("read", SubSeq(f[1], 1, n))
  BY <1>1, <1>2, Zenon
<1>4. PICK n \in 0..Len(f[1]) : I!Taken(f, n) /\ I!Give("read", SubSeq(f[1], 1, n))
  <2>1. Len(f[1]) \in Nat /\ want \in Nat
    BY <1>2, StdinFills DEF StdinInv
  <2>2. (IF Len(f[1]) < want THEN Len(f[1]) ELSE want) \in 0..Len(f[1])
    BY <2>1
  <2>3. QED
    BY <1>3, <2>2
<1>5. PICK g \in Seq(I!Bytes), x \in Seq(I!Bytes) :
        /\ x = SubSeq(f[1], 1, n)
        /\ ahead' \in Seq(I!Bytes) /\ srest' \in Seq(I!Bytes)
        /\ x \o (ahead' \o srest') = ahead \o srest
  BY <1>4, StdinTakes, Zenon DEF StdinInv
<1>6. spc[t] = "read" /\ holder' = Nobody /\ spc' = [spc EXCEPT ![t] = "idle"] /\ UNCHANGED <<sop, sacc>>
  BY DEF I!Read
<1>7. I!Held = <<>> /\ I!Held' = <<>> /\ holder = t
  BY <1>6 DEF StdinInv, Reading, StdinTypes, I!Held
<1>8. I!Held \o (ahead \o srest) = ahead \o srest
  <2>1. ahead \o srest \in Seq(I!Bytes)
    BY Joined DEF StdinInv, StdinTypes
  <2>2. QED
    BY <1>7, <2>1, JoinedEmpty, Zenon
<1>9. Stream' /\ AllWhole'
  BY <1>4, <1>5, <1>7, <1>8, StdinReturns, Zenon DEF Outcomes, Calls, I!Raw
<1>10. sacc' = [sacc EXCEPT ![t] = <<>>]
  BY <1>6 DEF StdinInv, StdinTypes, Reading
<1>11. QED
  BY <1>5, <1>6, <1>7, <1>9, <1>10, StdinLeaves, Zenon DEF StdinInv, StdinTypes

(* A read of descriptor 0 fails, and the call of t with it: the stream is  *)
(* as it was, what t had collected is dropped.                             *)
LEMMA StdinFails ==
  ASSUME I!StdinAssumption, StdinInv, NEW t \in Threads, I!ReadFails(t) \/ I!LineFails(t)
  PROVE  StdinInv'
<1>1. PICK c \in Seq(I!Bytes) : c = sacc[t]
  BY DEF StdinInv, StdinTypes
<1>2. /\ \A k \in 1..Len(c) : c[k] # NL
      /\ spc[t] = "read" => c = <<>>
      /\ spc[t] \in {"read", "line"} => holder = t
  BY <1>1, Zenon DEF StdinInv, Reading
<1>3. /\ spc[t] \in {"read", "line"} /\ I!Give("failed", c) /\ UNCHANGED <<ahead, srest, sop>>
      /\ sacc' = [sacc EXCEPT ![t] = <<>>]
      /\ \/ spc' = [spc EXCEPT ![t] = "idle"] /\ holder' = Nobody
         \/ spc' = [spc EXCEPT ![t] = "lines"] /\ holder' = holder
  <2>1. CASE I!ReadFails(t)
    <3>1. /\ spc[t] = "read" /\ I!Give("failed", <<>>) /\ UNCHANGED <<ahead, srest, sop, sacc>>
          /\ spc' = [spc EXCEPT ![t] = "idle"] /\ holder' = Nobody
      BY <2>1 DEF I!ReadFails, I!FillFails
    <3>2. c = <<>> /\ sacc' = [sacc EXCEPT ![t] = <<>>]
      BY <1>1, <1>2, <3>1 DEF StdinInv, StdinTypes
    <3>3. QED
      BY <3>1, <3>2, Zenon
  <2>2. CASE I!LineFails(t)
    <3>1. /\ spc[t] = "line" /\ I!Give("failed", c) /\ UNCHANGED <<ahead, srest, sop>>
          /\ sacc' = [sacc EXCEPT ![t] = <<>>]
          /\ spc' = [spc EXCEPT ![t] = IF sop[t] = "lines" THEN "lines" ELSE "idle"]
          /\ holder' = IF sop[t] = "lines" THEN holder ELSE Nobody
      BY <1>1, <2>2, Zenon DEF I!LineFails, I!FillFails
    <3>2. CASE sop[t] = "lines"
      BY <3>1, <3>2, Zenon
    <3>3. CASE sop[t] # "lines"
      BY <3>1, <3>3, Zenon
    <3>4. QED
      BY <3>2, <3>3
  <2>3. QED
    BY <2>1, <2>2
<1>4. holder = t /\ I!Held = c /\ Nobody \notin Threads /\ sacc'[t] = <<>>
  BY <1>1, <1>2, <1>3, Zenon DEF I!Held, I!StdinAssumption, StdinInv, StdinTypes
<1>5. I!Held' = <<>>
  BY <1>3, <1>4 DEF I!Held
<1>6. \A k \in 1..Len(c) - 1 : c[k] # NL
  <2>1. ASSUME NEW k \in 1..Len(c) - 1 PROVE k \in 1..Len(c)
    OBVIOUS
  <2>2. QED
    BY <1>2, <2>1
<1>7. /\ ahead' \in Seq(I!Bytes) /\ srest' \in Seq(I!Bytes)
      /\ c \o (ahead' \o srest') = I!Held \o (ahead \o srest)
  BY <1>3, <1>4, Zenon DEF StdinInv, StdinTypes
<1>8. Stream' /\ AllWhole'
  BY <1>3, <1>5, <1>6, <1>7, StdinReturns, Zenon DEF Outcomes, I!Raw
<1>9. QED
  BY <1>3, <1>4, <1>7, <1>8, StdinLeaves, Zenon DEF StdinInv, StdinTypes

(* Stdin::read_line: a round of read_until's loop under the lock.          *)
LEMMA StdinLine ==
  ASSUME I!StdinAssumption, StdinInv, NEW t \in Threads, I!Line(t)
  PROVE  StdinInv'
<1> DEFINE Round(g, n) ==
      LET all == sacc[t] \o SubSeq(g[1], 1, n)
          more == n > 0 /\ g[1][n] # NL
      IN  /\ I!IsLine(g[1], n)
          /\ I!Taken(g, n)
          /\ sacc' = [sacc EXCEPT ![t] = IF more THEN all ELSE <<>>]
          /\ IF more THEN given' = given ELSE I!Give(I!Outcome(t, all), all)
          /\ spc' = [spc EXCEPT ![t] = IF more THEN "line" ELSE IF sop[t] = "lines" THEN "lines" ELSE "idle"]
          /\ holder' = IF more \/ sop[t] = "lines" THEN holder ELSE Nobody
<1>0. CAP \in Nat \ {0}
  BY DEF I!StdinAssumption
<1>1. PICK f \in I!Filled(CAP) : \E n \in 0..Len(f[1]) : Round(f, n)
  BY Zenon DEF I!Line, I!FillBuf
<1>2. PICK n \in 0..Len(f[1]) : Round(f, n)
  BY <1>1, Zenon
<1>3. PICK g \in Seq(I!Bytes), x \in Seq(I!Bytes) :
        /\ g = f[1] /\ x = SubSeq(f[1], 1, n) /\ Len(x) = n /\ \A i \in 1..n : x[i] = g[i]
        /\ ahead' \in Seq(I!Bytes) /\ srest' \in Seq(I!Bytes)
        /\ x \o (ahead' \o srest') = ahead \o srest
        /\ g = <<>> => ahead \o srest = <<>>
  BY <1>0, <1>2, StdinTakes, Zenon DEF StdinInv
<1>4. n \in 0..Len(g) /\ Len(g) \in Nat /\ n \in Nat
  BY <1>3
<1>5. PICK c \in Seq(I!Bytes) : c = sacc[t]
  BY DEF StdinInv, StdinTypes
<1> DEFINE s == c \o x
           more == n > 0 /\ g[n] # NL
<1>6. /\ I!IsLine(g, n)
      /\ sacc' = [sacc EXCEPT ![t] = IF more THEN s ELSE <<>>]
      /\ IF more THEN given' = given ELSE I!Give(I!Outcome(t, s), s)
      /\ spc' = [spc EXCEPT ![t] = IF more THEN "line" ELSE IF sop[t] = "lines" THEN "lines" ELSE "idle"]
      /\ holder' = IF more \/ sop[t] = "lines" THEN holder ELSE Nobody
  BY <1>2, <1>3, <1>5, Zenon
<1>7. spc[t] = "line" /\ holder = t /\ UNCHANGED <<sop, reads>> /\ I!Held = c /\ Nobody \notin Threads
  BY <1>5, Zenon DEF I!Line, StdinInv, Reading, I!Held, I!StdinAssumption
<1>8. /\ s \in Seq(I!Bytes) /\ Len(s) = Len(c) + Len(x) /\ Len(c) \in Nat
      /\ \A i \in 1..Len(c) : s[i] = c[i]
      /\ \A i \in (Len(c) + 1)..(Len(c) + Len(x)) : s[i] = x[i - Len(c)]
  BY ONLY c \in Seq(I!Bytes), x \in Seq(I!Bytes), Joined, Zenon
<1>9. s \o (ahead' \o srest') = I!Held \o (ahead \o srest)
  <2>1. PICK y \in Seq(I!Bytes) : y = ahead' \o srest'
    BY <1>3, Joined, Zenon
  <2>2. c \o (x \o y) = (c \o x) \o y
    <3>1. Regrouped(c, x, y)
      BY ONLY c \in Seq(I!Bytes), x \in Seq(I!Bytes), y \in Seq(I!Bytes), JoinedTwice, Zenon
    <3>2. QED
      BY <3>1 DEF Regrouped
  <2>3. x \o y = ahead \o srest
    BY <1>3, <2>1, Zenon
  <2>4. QED
    BY ONLY <1>7, <2>1, <2>2, <2>3, Zenon
<1>10. \A k \in 1..Len(c) : c[k] # NL
  BY <1>5, ZenonT(60) DEF StdinInv, Reading
<1>11. ASSUME NEW k \in 1..n - 1 PROVE x[k] # NL
  <2>1. k \in 1..n
    BY ONLY <1>4, k \in 1..n - 1
  <2>2. g[k] # NL
    BY <1>6, Zenon DEF I!IsLine
  <2>3. QED
    BY <1>3, <2>1, <2>2, Zenon
<1> HIDE DEF s, more
<1>12. ASSUME NEW k \in 1..Len(s), k # Len(s) \/ more PROVE s[k] # NL
  <2>1. CASE k <= Len(c)
    BY <1>8, <1>10, <2>1, SMTT(30)
  <2>2. CASE k > Len(c)
    <3>1. PICK j \in 1..n : j = k - Len(c)
      <4>1. PICK l \in Nat : l = Len(c) /\ Len(s) = l + n
        BY <1>3, <1>8
      <4>2. k - l \in 1..n
        BY <1>4, <2>2, <4>1
      <4>3. QED
        BY <4>1, <4>2, Zenon
    <3>2. s[k] = x[j]
      <4>1. k \in (Len(c) + 1)..(Len(c) + Len(x))
        BY <1>3, <1>8, <2>2
      <4>2. QED
        BY <1>8, <3>1, <4>1, ZenonT(60)
    <3>3. CASE j # n
      BY <1>4, <1>11, <3>2, <3>3, SMTT(30)
    <3>4. CASE j = n
      <4>1. k = Len(s)
        <5>1. PICK l \in Nat : l = Len(c) /\ Len(s) = l + n
          BY <1>3, <1>8
        <5>2. k - l = n
          BY <3>1, <3>4, <5>1
        <5>3. QED
          BY ONLY <1>4, <5>1, <5>2, k \in 1..Len(s)
      <4>2. x[n] = g[n] /\ g[n] # NL
        BY <1>3, <1>4, <1>12, <4>1 DEF more
      <4>3. QED
        BY <3>2, <3>4, <4>2
    <3>5. QED
      BY <3>3, <3>4
  <2>3. QED
    BY <1>8, <2>1, <2>2
<1>13. StdinTypes'
  <2>1. sacc' \in [Threads -> Seq(I!Bytes)]
    BY <1>6, <1>8, JoinedEmpty DEF StdinInv, StdinTypes
  <2>2. QED
    BY <1>3, <1>6, <1>7, <2>1, Zenon DEF StdinInv, StdinTypes, I!Bytes
<1>14. sacc'[t] = IF more THEN s ELSE <<>>
  BY <1>6 DEF StdinInv, StdinTypes
<1>15. Reading'
  <2> SUFFICES ASSUME NEW u \in Threads
               PROVE  /\ spc'[u] \in {"read", "line", "lines"} => holder' = u
                      /\ spc'[u] # "line" => sacc'[u] = <<>>
                      /\ \A k \in 1..Len(sacc'[u]) : sacc'[u][k] # NL
    BY DEF Reading
  <2>1. /\ spc[u] \in {"read", "line", "lines"} => holder = u
        /\ spc[u] # "line" => sacc[u] = <<>>
        /\ \A k \in 1..Len(sacc[u]) : sacc[u][k] # NL
    BY Zenon DEF StdinInv, Reading
  <2>2. CASE u = t
    <3>1. spc'[u] = IF more THEN "line" ELSE IF sop[t] = "lines" THEN "lines" ELSE "idle"
      BY <1>6, <2>2 DEF StdinInv, StdinTypes
    <3>2. CASE more
      BY <1>6, <1>7, <1>12, <1>14, <2>2, <3>1, <3>2, Zenon
    <3>3. CASE ~more
      <4>1. sacc'[u] = <<>>
        BY <1>14, <2>2, <3>3
      <4>2. QED
        BY <1>6, <1>7, <2>2, <3>1, <3>3, <4>1
    <3>4. QED
      BY <3>2, <3>3
  <2>3. CASE u # t
    <3>1. spc'[u] = spc[u] /\ sacc'[u] = sacc[u]
      BY <1>6, <2>3 DEF StdinInv, StdinTypes
    <3>2. QED
      BY <1>7, <2>1, <2>3, <3>1, Zenon
  <2>4. QED
    BY <2>2, <2>3
<1>16. CASE more
  <2>1. I!Held' = s /\ given' = given
    BY <1>6, <1>7, <1>14, <1>16 DEF I!Held
  <2>2. Stream'
    <3>1. I!Given' = I!Given
      BY <2>1, SMTT(30) DEF I!Given, I!End
    <3>2. QED
      BY <1>9, <2>1, <3>1, Zenon DEF Stream, StdinInv
  <2>3. AllWhole'
    BY <2>1, Zenon DEF StdinInv, AllWhole, Whole, I!End, Entries, I!Bytes, I!Raw, I!IsUtf8
  <2>4. QED
    BY <1>13, <1>15, <2>2, <2>3 DEF StdinInv
<1>17. CASE ~more
  <2>0. PICK o \in Outcomes : o = I!Outcome(t, s) /\ (o # "invalid" <=> I!IsUtf8(s))
    <3>1. sop[t] \in Calls
      BY DEF StdinInv, StdinTypes
    <3>2. QED
      BY <3>1 DEF I!Outcome, Outcomes, Calls
  <2>1. I!Held' = <<>> /\ I!Give(o, s)
    BY <1>6, <1>7, <1>14, <1>17, <2>0 DEF I!Held
  <2>2. \A k \in 1..Len(s) - 1 : s[k] # NL
    <3>1. ASSUME NEW k \in 1..Len(s) - 1 PROVE k \in 1..Len(s) /\ k # Len(s)
      <4>1. Len(s) \in Nat
        BY ONLY <1>8
      <4>2. QED
        BY <4>1
    <3>2. QED
      BY <1>12, <3>1
  <2>3. ahead' \o srest' = <<>> \/ (s # <<>> /\ s[Len(s)] = NL)
    <3>1. CASE n = 0
      <4>1. g = <<>>
        BY <1>4, <1>6, <3>1 DEF I!IsLine
      <4>2. x = <<>> /\ x \o (ahead' \o srest') = <<>>
        BY <1>3, <3>1, <4>1
      <4>3. PICK y \in Seq(I!Bytes) : y = ahead' \o srest'
        BY <1>3, Joined, Zenon
      <4>4. y = <<>>
        BY <4>2, <4>3, JoinedEmpty
      <4>5. QED
        BY <4>3, <4>4
    <3>2. CASE n > 0
      <4>1. g[n] = NL /\ x[n] = NL
        BY <1>3, <1>4, <1>17, <3>2 DEF more
      <4>2. Len(s) = Len(c) + n /\ Len(s) \in (Len(c) + 1)..(Len(c) + Len(x)) /\ Len(s) - Len(c) = n
        BY <1>3, <1>4, <1>8, <3>2
      <4>3. s[Len(s)] = x[n]
        BY <1>8, <4>2, Zenon
      <4>4. s # <<>>
        BY <1>4, <1>8, <3>2, <4>2
      <4>5. QED
        BY <4>1, <4>3, <4>4, SMTT(30)
    <3>3. QED
      BY <1>4, <3>1, <3>2
  <2>4. Stream' /\ AllWhole'
    BY <1>3, <1>8, <1>9, <2>0, <2>1, <2>2, <2>3, StdinReturns, Zenon
  <2>5. QED
    BY <1>13, <1>15, <2>4 DEF StdinInv
<1>18. QED
  BY <1>16, <1>17

(* The steps of t that take or give up the lock, or only move t: nothing   *)
(* is collected by t, before or after.                                     *)
LEMMA StdinMoves ==
  ASSUME I!StdinAssumption, StdinInv, NEW t \in Threads,
         NEW to \in {"idle", "lock", "read", "line", "lines"},
         spc[t] # "line", spc' = [spc EXCEPT ![t] = to], UNCHANGED <<ahead, srest, sacc, given>>,
         sop' \in [Threads -> Calls],
         \/ holder' = holder /\ (to \in {"idle", "lock"} \/ holder = t)
         \/ holder = Nobody /\ holder' = t
         \/ holder = t /\ holder' = Nobody /\ to = "idle"
  PROVE  StdinInv'
<1>1. sacc[t] = <<>> /\ Nobody \notin Threads
  BY DEF StdinInv, Reading, I!StdinAssumption
<1>2. I!Held' = I!Held
  BY <1>1 DEF I!Held
<1>3. Stream' /\ AllWhole'
  BY <1>2, StdinSame
<1>4. StdinTypes'
  BY Zenon DEF StdinInv, StdinTypes, I!Bytes
<1>5. Reading'
  <2> SUFFICES ASSUME NEW u \in Threads
               PROVE  /\ spc'[u] \in {"read", "line", "lines"} => holder' = u
                      /\ spc'[u] # "line" => sacc'[u] = <<>>
                      /\ \A k \in 1..Len(sacc'[u]) : sacc'[u][k] # NL
    BY DEF Reading
  <2>1. /\ spc[u] \in {"read", "line", "lines"} => holder = u
        /\ spc[u] # "line" => sacc[u] = <<>>
        /\ \A k \in 1..Len(sacc[u]) : sacc[u][k] # NL
    BY DEF StdinInv, Reading
  <2>2. spc'[u] = IF u = t THEN to ELSE spc[u]
    BY DEF StdinInv, StdinTypes
  <2>3. QED
    BY <1>1, <2>1, <2>2
<1>6. QED
  BY <1>3, <1>4, <1>5 DEF StdinInv

(* Any number of threads that share stdin, over any input, with slices of  *)
(* any length and reads that fail: what their calls return, or drop when   *)
(* they fail, is the input, in order, and no line is torn between two      *)
(* threads that read lines without errors.                                 *)
THEOREM LinesWholeHolds ==
  ASSUME I!StdinAssumption
  PROVE  I!Spec => []LinesWhole
<1>1. I!Init => StdinInv
  <2> SUFFICES ASSUME I!Init PROVE StdinInv
    BY Zenon
  <2>1. /\ ahead = <<>> /\ srest = Text /\ given = <<>> /\ holder = Nobody
        /\ sacc = [t \in Threads |-> <<>>] /\ Text \in Seq(I!Bytes)
    BY DEF I!Init, I!StdinAssumption
  <2>2. StdinTypes
    BY <2>1, SMTT(30) DEF I!Init, StdinTypes, Calls
  <2>3. Reading
    <3>1. ASSUME NEW t \in Threads PROVE spc[t] = "idle" /\ sacc[t] = <<>> /\ Len(sacc[t]) = 0
      BY <2>1 DEF I!Init
    <3>2. ASSUME NEW t \in Threads PROVE 1..Len(sacc[t]) = {}
      <4>1. Len(sacc[t]) = 0
        BY <3>1
      <4>2. QED
        BY ONLY <4>1
    <3>3. QED
      BY ONLY <3>1, <3>2 DEF Reading
  <2>4. AllWhole
    BY <2>1 DEF AllWhole
  <2>5. Stream
    <3>1. I!Given = 0 /\ I!Held = <<>>
      BY <2>1 DEF I!Given, I!Held
    <3>2. <<>> \o (<<>> \o Text) = Text
      BY <2>1, JoinedEmpty
    <3>3. SubSeq(Text, 0 + 1, Len(Text)) = Text
      BY <2>1
    <3>4. QED
      BY <2>1, <3>1, <3>2, <3>3 DEF Stream
  <2>6. QED
    BY <2>2, <2>3, <2>4, <2>5 DEF StdinInv
<1>2. StdinInv /\ UNCHANGED I!vars => StdinInv'
  <2> SUFFICES ASSUME StdinInv, UNCHANGED I!vars PROVE StdinInv'
    OBVIOUS
  <2>1. Stream' /\ AllWhole'
    BY StdinSame DEF I!vars, I!Held
  <2>2. StdinTypes' /\ Reading'
    BY DEF I!vars, StdinInv, StdinTypes, Reading, I!Bytes
  <2>3. QED
    BY <2>1, <2>2 DEF StdinInv
<1>3. ASSUME StdinInv, NEW t \in Threads,
             (\E o \in Calls : I!Call(t, o)) \/ I!LockStdin(t) \/ I!NextLine(t) \/ I!DropLines(t)
      PROVE  StdinInv'
  <2>1. sop \in [Threads -> Calls] /\ (spc[t] = "lines" => holder = t) /\ sop[t] \in Calls
    BY <1>3 DEF StdinInv, StdinTypes, Reading
  <2>2. ASSUME NEW o \in Calls, I!Call(t, o) PROVE StdinInv'
    BY <1>3, <2>1, <2>2, StdinMoves, Zenon DEF I!Call
  <2>3. CASE I!LockStdin(t)
    BY <1>3, <2>1, <2>3, StdinMoves, Zenon DEF I!LockStdin
  <2>4. CASE I!NextLine(t)
    BY <1>3, <2>1, <2>4, StdinMoves, Zenon DEF I!NextLine
  <2>5. CASE I!DropLines(t)
    BY <1>3, <2>1, <2>5, StdinMoves, Zenon DEF I!DropLines
  <2>6. QED
    BY <1>3, <2>2, <2>3, <2>4, <2>5, Zenon
<1>4. ASSUME StdinInv, I!Next PROVE StdinInv'
  <2>1. PICK t \in Threads :
          \/ \E o \in Calls : I!Call(t, o)
          \/ I!LockStdin(t) \/ I!Read(t) \/ I!ReadFails(t) \/ I!Line(t) \/ I!LineFails(t)
          \/ I!NextLine(t) \/ I!DropLines(t)
    BY <1>4, SMTT(30) DEF I!Next, Calls
  <2>2. QED
    BY <1>3, <1>4, <2>1, StdinReads, StdinLine, StdinFails
<1>5. StdinInv => LinesWhole
  BY DEF StdinInv, Stream, AllWhole, Whole, LinesWhole, I!LinesWhole
<1>6. QED
  BY <1>1, <1>2, <1>4, <1>5, PTL DEF I!Spec
=============================================================================
