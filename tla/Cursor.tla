------------------------------- MODULE Cursor -------------------------------
(***************************************************************************)
(* io::Cursor<Vec<u8>> next to a fs::File opened for reading and writing,  *)
(* under one sequence of calls, up to the first call that cannot be        *)
(* compared.  A u64 has 2 * SIGN values, an i64 goes from -SIGN to         *)
(* SIGN - 1, a usize has `word` values.                                    *)
(***************************************************************************)
EXTENDS Integers, Sequences

CONSTANTS Bytes,      \* what is written; 0 is the byte of a gap
          SIGN,       \* 2^63
          Words,      \* 2^32 and 2^64
          MaxLen,     \* bound: the length of the Vec and of the file
          MaxIo       \* bound: the largest buffer

CursorAssumption ==
  /\ SIGN \in Nat /\ MaxLen \in 1..SIGN - 1 /\ MaxIo \in Nat
  /\ Words \subseteq MaxLen + 1..2 * SIGN

VARIABLES word,           \* of the target
          inner, pos,     \* the Cursor
          data, offset,   \* the file, and the offset of its descriptor
          cret, fret,     \* what the last call returned on each
          apart           \* ghost: why the two can no longer be compared, or "no"

vars == <<word, inner, pos, data, offset, cret, fret, apart>>

File == UNION {[1..n -> Bytes \cup {0}] : n \in 0..MaxLen}

TypeOK ==
  /\ word \in Words
  /\ inner \in File /\ data \in File /\ pos \in 0..2 * SIGN - 1 /\ offset \in 0..SIGN - 1
  /\ apart \in {"no", "usize", "panic", "empty", "nowhere"}

Init ==
  /\ word \in Words
  /\ inner = <<>> /\ pos = 0 /\ data = <<>> /\ offset = 0 /\ cret = <<>> /\ fret = <<>>
  /\ apart = "no"

Least(a, b) == IF a < b THEN a ELSE b
Resize(s, n) == [i \in 1..n |-> IF i <= Len(s) THEN s[i] ELSE 0]
Splice(s, p, buf) == [i \in 1..Len(s) |-> IF i \in p + 1..p + Len(buf) THEN buf[i - p] ELSE s[i]]

(* `n as usize` and `n as i64` of a u64, and what is left of a sum of two  *)
(* u64 or of two i64.                                                      *)
AsUsize(n) == IF n < word THEN n ELSE n % word
WrapU64(n) == IF n >= 2 * SIGN THEN n - 2 * SIGN ELSE n
WrapI64(n) == IF n >= SIGN THEN n - 2 * SIGN ELSE IF n < -SIGN THEN n + 2 * SIGN ELSE n
AsI64(n) == WrapI64(n)

(* Cursor::read: the slice from pos, or from the end, and its read.        *)
CursorRead(n) ==
  LET from == Least(AsUsize(pos), Len(inner))
      k == Least(n, Len(inner) - from)
  IN  /\ pos' = WrapU64(pos + k)
      /\ cret' = <<"Read", SubSeq(inner, from + 1, from + k)>>
      /\ UNCHANGED inner

CursorWriteShort(buf) ==
  LET end == pos + Len(buf)
  IN  /\ end <= MaxLen
      /\ inner' = Splice(IF end > Len(inner) THEN Resize(inner, end) ELSE inner, pos, buf)
      /\ pos' = Len(inner) + Len(buf)
      /\ cret' = <<"Ok", Len(buf)>>

(* Cursor::write: resize to pos, resize to the end, copy.                  *)
CursorWrite(buf) ==
  LET at == AsUsize(pos)
      end == at + Len(buf)
      gap == IF at > Len(inner) THEN Resize(inner, at) ELSE inner
  IN  /\ end <= MaxLen
      /\ inner' = Splice(IF end > Len(gap) THEN Resize(gap, end) ELSE gap, at, buf)
      /\ pos' = end
      /\ cret' = <<"Ok", Len(buf)>>

(* Cursor::seek: the sum, which may overflow ...                           *)
SeekSum(from, n) ==
  CASE from = "Start" -> AsI64(n)
    [] from = "End" -> Len(inner) + n
    [] from = "Current" -> AsI64(pos) + n
Overflows(from, n) == SeekSum(from, n) # WrapI64(SeekSum(from, n))

(* ... wraps then ...                                                      *)
CursorSeek(from, n) ==
  LET new == WrapI64(SeekSum(from, n))
  IN  /\ pos' = IF new < 0 THEN pos ELSE new
      /\ cret' = IF new < 0 THEN <<"InvalidInput">> ELSE <<"Ok", new>>
      /\ UNCHANGED inner

(* ... or, in a build that checks for overflow, ends the process.          *)
SeekPanics(from, n) ==
  /\ Overflows(from, n)
  /\ UNCHANGED <<inner, pos, cret>>

(* Cursor::set_position (and what Cursor::position returns then).          *)
SetPosition(n) ==
  /\ pos' = n
  /\ cret' = <<"Ok", n>>
  /\ UNCHANGED inner

-----------------------------------------------------------------------------
(* The kernel's read and write at the offset of a descriptor; Fd::read and *)
(* Fd::write repeat an interrupted call.                                   *)
FdRead(n) ==
  LET k == IF offset >= Len(data) THEN 0 ELSE Least(n, Len(data) - offset)
  IN  /\ offset' = offset + k
      /\ fret' = <<"Read", [i \in 1..k |-> data[offset + i]]>>
      /\ UNCHANGED data

FdWrite(buf) ==
  LET end == offset + Len(buf)
  IN  /\ data' = [i \in 1..(IF end > Len(data) THEN end ELSE Len(data)) |->
                    IF i > offset /\ i <= end THEN buf[i - offset] ELSE IF i <= Len(data) THEN data[i] ELSE 0]
      /\ offset' = end
      /\ fret' = <<"Ok", Len(buf)>>

(* Fd::seek, lseek: a result that is negative or no i64 is EINVAL, which   *)
(* is InvalidInput.                                                        *)
FdSeek(from, n) ==
  LET off == IF from = "Start" THEN AsI64(n) ELSE n
      new == off + CASE from = "Start" -> 0 [] from = "End" -> Len(data) [] from = "Current" -> offset
      ok == new \in 0..SIGN - 1
  IN  /\ offset' = IF ok THEN new ELSE offset
      /\ fret' = IF ok THEN <<"Ok", new>> ELSE <<"InvalidInput">>
      /\ UNCHANGED data

(* File::set_len, ftruncate; the Vec's resize through get_mut.             *)
SetLen(n) ==
  /\ data' = [i \in 1..n |-> IF i <= Len(data) THEN data[i] ELSE 0]
  /\ inner' = Resize(inner, n)
  /\ UNCHANGED <<word, pos, offset, cret, fret, apart>>

-----------------------------------------------------------------------------
(* One call on both ...                                                    *)
Alike == apart' = "no" /\ UNCHANGED word

(* ... or the last one, on the Cursor.                                     *)
Part(why) == apart' = why /\ UNCHANGED <<word, data, offset, fret>>

Reads ==
  \E n \in 0..MaxIo :
    /\ CursorRead(n)
    /\ \/ pos < word /\ FdRead(n) /\ Alike
       \/ pos >= word /\ Part("usize")

(* (A write of nothing beyond the end makes the Vec grow, and does nothing *)
(* to a file.)                                                             *)
Writes ==
  \E n \in 0..MaxIo : \E buf \in [1..n -> Bytes] :
    /\ CursorWrite(buf)
    /\ \/ pos < word /\ (n > 0 \/ pos <= Len(inner)) /\ FdWrite(buf) /\ Alike
       \/ pos < word /\ n = 0 /\ pos > Len(inner) /\ Part("empty")
       \/ pos >= word /\ Part("usize")

Offsets(from) == IF from = "Start" THEN 0..2 * SIGN - 1 ELSE -SIGN..SIGN - 1
Seeks ==
  \E from \in {"Start", "End", "Current"} : \E n \in Offsets(from) :
    \/ CursorSeek(from, n) /\ FdSeek(from, n) /\ Alike
    \/ SeekPanics(from, n) /\ Part("panic")

Positions ==
  \E n \in 0..2 * SIGN - 1 :
    /\ SetPosition(n)
    /\ \/ n < SIGN /\ FdSeek("Start", n) /\ Alike
       \/ n >= SIGN /\ Part("nowhere")

Next ==
  /\ apart = "no"
  /\ Reads \/ Writes \/ Seeks \/ Positions \/ \E n \in 0..MaxLen : SetLen(n)

Spec == Init /\ [][Next]_vars

-----------------------------------------------------------------------------
(* A Cursor over a Vec is a file in memory: every read, write and seek     *)
(* returns what it returns on a File, and leaves the same bytes and the    *)
(* same position, also when a seek has gone beyond the end, the file has   *)
(* shrunk below the position, or a seek goes before the start or beyond    *)
(* the last offset; until a call that has no counterpart on a file, a      *)
(* panic of a checked build, or a read or write at a position that is no   *)
(* usize, which happens only where a usize is shorter than an offset.      *)
CursorIsFile ==
  /\ apart = "no" => inner = data /\ pos = offset /\ cret = fret
  /\ apart = "usize" => word < SIGN
=============================================================================
