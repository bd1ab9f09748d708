------------------------------- MODULE Stdin -------------------------------
(***************************************************************************)
(* Standard input: one BufReader behind a Mutex, shared by the threads     *)
(* that call Stdin::read_line, Stdin::read or Stdin::lines; the iterator   *)
(* of lines keeps the lock between lines, until it is dropped.  The lock   *)
(* is the abstract one that Mutex implements; BufReader has the details    *)
(* of the buffer.                                                          *)
(***************************************************************************)
EXTENDS Naturals, Sequences

CONSTANTS Threads, Nobody,
          Text, NL,     \* what descriptor 0 will give, and the newline in it
          Lead, Cont,   \* the two bytes of a character
          CAP,          \* the buffer's capacity (8192)
          Wants,        \* the lengths of the slices given to read
          MaxReads,     \* bound: calls of Stdin::read of each thread
          MaxFails      \* bound: reads of descriptor 0 that fail

Bytes == {Text[i] : i \in DOMAIN Text}

StdinAssumption ==
  /\ Nobody \notin Threads /\ Text \in Seq(Bytes)
  /\ CAP \in Nat \ {0} /\ Wants \subseteq Nat \ {0}
  /\ Lead # Cont /\ NL \notin {Lead, Cont}

VARIABLES holder,       \* who holds the lock of STDIN_BUF
          ahead, rest,  \* what is buffered, what is still to come
          pc, op, acc,  \* of each thread: where it is, its call, the line so far
          given,        \* ghost: what each call returned, in the order of return:
                        \* [op, from, bytes], after the first `from` bytes of Text;
                        \* a call that failed drops the bytes it had collected:
                        \* op is "failed", or "invalid" if they are not UTF-8
          reads, fails  \* calls of Stdin::read, failed reads so far

vars == <<holder, ahead, rest, pc, op, acc, given, reads, fails>>

TypeOK ==
  /\ holder \in Threads \cup {Nobody}
  /\ pc \in [Threads -> {"idle", "lock", "read", "line", "lines"}]
  /\ op \in [Threads -> {"read", "read_line", "lines"}]

Init ==
  /\ holder = Nobody /\ ahead = <<>> /\ rest = Text
  /\ pc = [t \in Threads |-> "idle"]
  /\ op = [t \in Threads |-> "read"]
  /\ acc = [t \in Threads |-> <<>>]
  /\ given = <<>>
  /\ reads = [t \in Threads |-> 0] /\ fails = 0

Call(t, o) ==
  /\ pc[t] = "idle" /\ (o = "read" => reads[t] < MaxReads)
  /\ op' = [op EXCEPT ![t] = o]
  /\ reads' = [reads EXCEPT ![t] = @ + IF o = "read" THEN 1 ELSE 0]
  /\ pc' = [pc EXCEPT ![t] = "lock"]
  /\ UNCHANGED <<holder, ahead, rest, acc, given, fails>>

(* Stdin::lock                                                             *)
LockStdin(t) ==
  /\ pc[t] = "lock" /\ holder = Nobody
  /\ holder' = t
  /\ pc' = [pc EXCEPT ![t] = IF op[t] = "read" THEN "read" ELSE "line"]
  /\ UNCHANGED <<ahead, rest, op, acc, given, reads, fails>>

(* The buffer and the rest of the input after a read of descriptor 0 into  *)
(* `size` bytes, which waits for input, if nothing is buffered; 0 bytes    *)
(* are the end.                                                            *)
Filled(size) ==
  IF ahead # <<>> THEN {<<ahead, rest>>}
  ELSE IF rest = <<>> THEN {<<<<>>, <<>>>>}
  ELSE {<<SubSeq(rest, 1, n), SubSeq(rest, n + 1, Len(rest))>> :
          n \in 1..IF Len(rest) < size THEN Len(rest) ELSE size}

(* fill_buf                                                                *)
FillBuf == Filled(CAP)

(* ... or fails: only when nothing is buffered.                            *)
FillFails == ahead = <<>> /\ fails < MaxFails /\ fails' = fails + 1 /\ UNCHANGED <<ahead, rest>>

(* How many bytes the calls have returned; one more call returns.          *)
End(g) == g.from + Len(g.bytes)
Given == IF given = <<>> THEN 0 ELSE End(given[Len(given)])
Give(o, bytes) == given' = Append(given, [op |-> o, from |-> Given, bytes |-> bytes])

Taken(f, n) == ahead' = SubSeq(f[1], n + 1, Len(f[1])) /\ rest' = f[2]

(* Stdin::read: read, and the guard is dropped.  With nothing buffered, a  *)
(* slice no smaller than the buffer is read into directly.                 *)
Read(t) ==
  /\ pc[t] = "read"
  /\ \E want \in Wants : \E f \in Filled(IF want >= CAP THEN want ELSE CAP) :
       LET n == IF Len(f[1]) < want THEN Len(f[1]) ELSE want
       IN  Taken(f, n) /\ Give("read", SubSeq(f[1], 1, n))
  /\ holder' = Nobody
  /\ pc' = [pc EXCEPT ![t] = "idle"]
  /\ UNCHANGED <<op, acc, reads, fails>>

ReadFails(t) ==
  /\ pc[t] = "read" /\ FillFails
  /\ Give("failed", <<>>)
  /\ holder' = Nobody
  /\ pc' = [pc EXCEPT ![t] = "idle"]
  /\ UNCHANGED <<op, acc, reads>>

(* from_utf8: each byte of a character with its other one.                 *)
IsUtf8(s) ==
  \A i \in 1..Len(s) :
    /\ s[i] = Lead => i < Len(s) /\ s[i + 1] = Cont
    /\ s[i] = Cont => i > 1 /\ s[i - 1] = Lead
Outcome(t, s) == IF IsUtf8(s) THEN op[t] ELSE "invalid"

(* The first n bytes of s are a line, up to the first newline, or all of s *)
(* if it has none.                                                         *)
IsLine(s, n) ==
  /\ \A i \in 1..n - 1 : s[i] # NL
  /\ n = Len(s) \/ (n > 0 /\ s[n] = NL)

LineUnlocks(t) ==
  /\ pc[t] = "line"
  /\ \E f \in FillBuf : \E used \in 0..Len(f[1]) :
       LET all == acc[t] \o SubSeq(f[1], 1, used)
           more == used > 0 /\ f[1][used] # NL
       IN  /\ IsLine(f[1], used)
           /\ Taken(f, used)
           /\ acc' = [acc EXCEPT ![t] = IF more THEN all ELSE <<>>]
           /\ IF more THEN given' = given ELSE Give(Outcome(t, all), all)
           /\ pc' = [pc EXCEPT ![t] = IF more THEN "lock" ELSE IF op[t] = "lines" THEN "lines" ELSE "idle"]
           /\ holder' = IF more \/ op[t] # "lines" THEN Nobody ELSE holder
  /\ UNCHANGED <<op, reads, fails>>

(* One round of read_until's loop, for read_line and for Lines::next; the  *)
(* guard of read_line is dropped when the line is complete.                *)
Line(t) ==
  /\ pc[t] = "line"
  /\ \E f \in FillBuf : \E used \in 0..Len(f[1]) :
       LET all == acc[t] \o SubSeq(f[1], 1, used)
           more == used > 0 /\ f[1][used] # NL
       IN  /\ IsLine(f[1], used)
           /\ Taken(f, used)
           /\ acc' = [acc EXCEPT ![t] = IF more THEN all ELSE <<>>]
           /\ IF more THEN given' = given ELSE Give(Outcome(t, all), all)
           /\ pc' = [pc EXCEPT ![t] = IF more THEN "line" ELSE IF op[t] = "lines" THEN "lines" ELSE "idle"]
           /\ holder' = IF more \/ op[t] = "lines" THEN holder ELSE Nobody
  /\ UNCHANGED <<op, reads, fails>>

(* fill_buf fails, and so does the call; what it had collected is dropped. *)
LineFails(t) ==
  /\ pc[t] = "line" /\ FillFails
  /\ Give("failed", acc[t])
  /\ acc' = [acc EXCEPT ![t] = <<>>]
  /\ pc' = [pc EXCEPT ![t] = IF op[t] = "lines" THEN "lines" ELSE "idle"]
  /\ holder' = IF op[t] = "lines" THEN holder ELSE Nobody
  /\ UNCHANGED <<op, reads>>

(* The holder of a Lines asks for the next line, or drops it.              *)
NextLine(t) ==
  /\ pc[t] = "lines" /\ rest \o ahead # <<>>
  /\ pc' = [pc EXCEPT ![t] = "line"]
  /\ UNCHANGED <<holder, ahead, rest, op, acc, given, reads, fails>>
DropLines(t) ==
  /\ pc[t] = "lines"
  /\ holder' = Nobody
  /\ pc' = [pc EXCEPT ![t] = "idle"]
  /\ UNCHANGED <<ahead, rest, op, acc, given, reads, fails>>

(* (Calls at the end of the input return at once; they are not repeated.)  *)
Next ==
  \E t \in Threads :
    \/ \E o \in {"read", "read_line", "lines"} : rest \o ahead # <<>> /\ Call(t, o)
    \/ LockStdin(t) \/ Read(t) \/ ReadFails(t) \/ Line(t) \/ LineFails(t)
    \/ NextLine(t) \/ DropLines(t)

Spec == Init /\ [][Next]_vars

-----------------------------------------------------------------------------
(* What a thread that holds the lock has collected of a line.              *)
Held == IF holder = Nobody THEN <<>> ELSE acc[holder]

(* The calls that may leave the stream inside a line.                      *)
Raw == {"read", "failed"}

(* Threads that share stdin share its buffer: what their calls returned,   *)
(* or had collected when they failed, in order, with what the holder has   *)
(* collected and what is buffered, is the input, no byte twice and none    *)
(* lost but by a call that failed, which loses no more than one line.  A   *)
(* line is UTF-8, ends at its newline or with the input, and starts after  *)
(* a newline, unless the call before it was a raw read or failed on one:   *)
(* no line is torn between two threads that read lines without errors.     *)
LinesWhole ==
  /\ Held \o (ahead \o rest) = SubSeq(Text, Given + 1, Len(Text))
  /\ \A i \in 1..Len(given) :
       LET g == given[i]
       IN  /\ g.from = IF i = 1 THEN 0 ELSE End(given[i - 1])
           /\ End(g) <= Len(Text) /\ g.bytes = SubSeq(Text, g.from + 1, End(g))
           /\ g.op # "read" => \A k \in g.from + 1..End(g) - 1 : Text[k] # NL
           /\ g.op \notin Raw =>
                /\ g.op # "invalid" <=> IsUtf8(g.bytes)
                /\ (g.bytes = <<>> \/ Text[End(g)] # NL) => End(g) = Len(Text)
                /\ g.from > 0 /\ g.from < Len(Text) /\ Text[g.from] # NL => given[i - 1].op \in Raw
=============================================================================
