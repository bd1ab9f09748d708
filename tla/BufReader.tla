----------------------------- MODULE BufReader -----------------------------
(***************************************************************************)
(* io::BufReader over a reader that may return less than it is asked for   *)
(* or fail, and the provided methods of Read and BufRead that loop over    *)
(* it.  `window` is buf[pos..cap].  An Interrupted error makes the loops   *)
(* go round once more and changes nothing.                                 *)
(***************************************************************************)
EXTENDS Naturals, Sequences

CONSTANTS Input,       \* what the inner reader holds
          NL, CR, Bad, \* a newline, a carriage return, a byte that is not UTF-8
          Caps,        \* the capacities
          Sizes,       \* the lengths of slices to read into
          TMP,         \* the array of read_to_end (4096)
          None,
          MaxErrors    \* bound: failures of the inner reader

Bytes == {Input[i] : i \in DOMAIN Input}

BufReaderAssumption ==
  /\ Input \in Seq(Bytes) /\ MaxErrors \in Nat
  /\ Caps \cup Sizes \cup {TMP} \subseteq Nat \ {0}

VARIABLES cap,         \* BufReader's buf.len()
          rest,        \* what the inner reader has not returned yet
          window,      \* what is buffered
          taken,       \* all that was consumed, in order
          call,        \* the call in progress: [op, from, want]
          acc,         \* what it has collected
          last,        \* what the last call returned: [call, ok, bytes]
          errors       \* failures so far

vars == <<cap, rest, window, taken, call, acc, last, errors>>

Ops == {"read_until", "read_line", "lines", "read_to_end", "read_to_string", "read_exact"}

TypeOK ==
  /\ cap \in Caps /\ errors \in 0..MaxErrors
  /\ \A s \in {rest, window, taken, acc} : s \in Seq(Bytes)
  /\ call # None => call.op \in Ops

Init ==
  /\ cap \in Caps
  /\ rest = Input /\ window = <<>> /\ taken = <<>>
  /\ call = None /\ acc = <<>> /\ last = None /\ errors = 0

-----------------------------------------------------------------------------
Take(s, n) == SubSeq(s, 1, n)
Drop(s, n) == SubSeq(s, n + 1, Len(s))
Least(a, b) == IF a < b THEN a ELSE b

(* How much the inner reader may return for n bytes of room: 0 only at the *)
(* end.                                                                    *)
Amounts(n) == IF rest = <<>> THEN {0} ELSE 1 .. Least(n, Len(rest))

(* fill_buf: the <<window, rest>> it may leave.                            *)
FillBuf ==
  IF window # <<>> THEN {<<window, rest>>}
  ELSE {<<Take(rest, n), Drop(rest, n)>> : n \in Amounts(cap)}

(* read into n bytes: the <<bytes, window, rest>> it may end with.  An     *)
(* empty buffer is bypassed when the slice is no smaller.                  *)
Reads(n) ==
  IF window = <<>> /\ n >= cap
  THEN {<<Take(rest, k), <<>>, Drop(rest, k)>> : k \in Amounts(n)}
  ELSE {LET m == Least(n, Len(f[1])) IN <<Take(f[1], m), Drop(f[1], m), f[2]>> : f \in FillBuf}

(* The bytes of outcome o go to the caller.                                *)
Deliver(o) ==
  /\ taken' = taken \o o[1]
  /\ window' = o[2]
  /\ rest' = o[3]

(* The call is over.                                                       *)
Return(ok, bytes) ==
  /\ last' = [call |-> call, ok |-> ok, bytes |-> bytes]
  /\ call' = None /\ acc' = <<>>

-----------------------------------------------------------------------------
Read(n) ==
  /\ call = None
  /\ \E o \in Reads(n) : Deliver(o)
  /\ last' = None
  /\ UNCHANGED <<cap, call, acc, errors>>

(* fill_buf and consume(amt), of more than there is, too.                  *)
Consume(amt) ==
  /\ call = None
  /\ \E f \in FillBuf :
       LET m == Least(amt, Len(f[1])) IN Deliver(<<Take(f[1], m), Drop(f[1], m), f[2]>>)
  /\ last' = None
  /\ UNCHANGED <<cap, call, acc, errors>>

Start(op, n) ==
  /\ call = None
  /\ call' = [op |-> op, from |-> Len(taken), want |-> n]
  /\ last' = None
  /\ UNCHANGED <<cap, rest, window, taken, acc, errors>>

(* The UTF-8 check of read_line and read_to_string.                        *)
Utf8(bytes) == \A i \in 1..Len(bytes) : bytes[i] # Bad

(* Lines::next removes the terminator.                                     *)
EndsWith(s, b) == s # <<>> /\ s[Len(s)] = b
Chop(s) == Take(s, Len(s) - 1)
Trim(line) ==
  LET unix == IF EndsWith(line, NL) THEN Chop(line) ELSE line
  IN  IF EndsWith(line, NL) /\ EndsWith(unix, CR) THEN Chop(unix) ELSE unix

(* The first n bytes of s are a line: up to the first newline, if there is *)
(* one.                                                                    *)
IsLine(s, n) ==
  /\ \A i \in 1..n - 1 : s[i] # NL
  /\ n = Len(s) \/ (n > 0 /\ s[n] = NL)

UntilOneFill ==
  /\ call # None /\ call.op \in {"read_until", "read_line", "lines"}
  /\ \E f \in FillBuf : \E used \in 0..Len(f[1]) :
       /\ IsLine(f[1], used)
       /\ Deliver(<<Take(f[1], used), Drop(f[1], used), f[2]>>)
       /\ Return(Utf8(f[1]), Take(f[1], used))
  /\ UNCHANGED <<cap, errors>>

(* One round of read_until's loop.                                         *)
Until ==
  /\ call # None /\ call.op \in {"read_until", "read_line", "lines"}
  /\ \E f \in FillBuf : \E used \in 0..Len(f[1]) :
       LET part == Take(f[1], used)
           all == acc \o part
       IN  /\ IsLine(f[1], used)
           /\ Deliver(<<part, Drop(f[1], used), f[2]>>)
           /\ IF used > 0 /\ ~EndsWith(part, NL) THEN acc' = all /\ UNCHANGED <<call, last>>
              ELSE Return(call.op = "read_until" \/ Utf8(all),
                          IF call.op = "lines" THEN Trim(all) ELSE all)
  /\ UNCHANGED <<cap, errors>>

(* One round of read_to_end's loop.                                        *)
ToEnd ==
  /\ call # None /\ call.op \in {"read_to_end", "read_to_string"}
  /\ \E o \in Reads(TMP) :
       /\ Deliver(o)
       /\ IF o[1] # <<>> THEN acc' = acc \o o[1] /\ UNCHANGED <<call, last>>
          ELSE Return(call.op = "read_to_end" \/ Utf8(acc), acc)
  /\ UNCHANGED <<cap, errors>>

(* One round of read_exact's loop.                                         *)
Exact ==
  /\ call # None /\ call.op = "read_exact"
  /\ \E o \in Reads(call.want - Len(acc)) :
       LET all == acc \o o[1]
       IN  /\ Deliver(o)
           /\ IF o[1] # <<>> /\ Len(all) < call.want
              THEN acc' = all /\ UNCHANGED <<call, last>>
              ELSE Return(o[1] # <<>>, all)
  /\ UNCHANGED <<cap, errors>>

(* The inner reader fails, and the call with it.                           *)
Fails ==
  /\ window = <<>> /\ errors < MaxErrors
  /\ errors' = errors + 1
  /\ Return(FALSE, acc)
  /\ UNCHANGED <<cap, rest, window, taken>>

Next ==
  \/ \E n \in Sizes : Read(n) \/ Consume(n) \/ Start("read_exact", n)
  \/ \E op \in Ops \ {"read_exact"} : Start(op, 0)
  \/ Until \/ ToEnd \/ Exact \/ Fails

Spec == Init /\ [][Next]_vars

-----------------------------------------------------------------------------
(* Whatever is read in whichever way, over short reads, failures and reads *)
(* that bypass the buffer: no byte is lost, repeated or out of order.      *)
StreamKept == taken \o (window \o rest) = Input

(* What a call that started at `from` should return.                       *)
Promised(c, bytes) ==
  LET tail == Drop(Input, c.from)
  IN  \/ /\ c.op \in {"read_until", "read_line", "lines"}
         /\ \E n \in 0..Len(tail) :
              /\ IsLine(tail, n)
              /\ bytes = IF c.op = "lines" THEN Trim(Take(tail, n)) ELSE Take(tail, n)
      \/ c.op \in {"read_to_end", "read_to_string"} /\ bytes = tail
      \/ c.op = "read_exact" /\ c.want <= Len(tail) /\ bytes = Take(tail, c.want)

(* A call that succeeds returns the line, the rest or the bytes asked for, *)
(* whatever the sizes of the reads it was put together from; read_exact    *)
(* succeeds only with all of them.                                         *)
CallsExact ==
  last # None /\ last.call # None /\ last.ok =>
    Promised(last.call, last.bytes)

(* The buffer is invisible: the stream is kept and every call is exact.    *)
ReaderExact == StreamKept /\ CallsExact
=============================================================================
