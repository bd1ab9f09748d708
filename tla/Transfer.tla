------------------------------ MODULE Transfer ------------------------------
(***************************************************************************)
(* io::copy, and the vectored reads and writes: the traits' default, Fd    *)
(* over the kernel's readv and writev, and Fd on WASI, where the two are   *)
(* loops of single calls.  The bytes of a stream are its positions; one    *)
(* read or write moves any part of what it may.                            *)
(***************************************************************************)
EXTENDS Naturals, Sequences

CONSTANTS Ops,        \* {"copy", "readv", "writev"}
          Targets,    \* {"default", "kernel", "wasi"}
          Shapes,     \* the buffers of a vectored call, laid end to end: where each ends
          Total,      \* how long the source is
          BUF,        \* the buffer of io::copy (8192)
          MaxErrors   \* bound: interrupted calls

TransferAssumption ==
  /\ Ops = {"copy", "readv", "writev"} /\ Targets = {"default", "kernel", "wasi"}
  /\ Shapes \subseteq Seq(Nat) /\ {Total, BUF, MaxErrors} \subseteq Nat /\ BUF > 0
  /\ \A s \in Shapes : \A i, j \in 1..Len(s) : i <= j => s[i] <= s[j]

VARIABLES op, target, shape,
          source,     \* what the reader has left
          sink,       \* what the writer has taken
          bufs,       \* the buffers of read_vectored; the one of copy
          at,         \* the buffer the WASI loops have reached; copy's n
          total,      \* their, and copy's, count
          ret,        \* "none", <<"Ok", n>> or <<"Err">>
          errors

vars == <<op, target, shape, source, sink, bufs, at, total, ret, errors>>

Upto(n) == [i \in 1..n |-> i]
Min2(a, b) == IF a < b THEN a ELSE b

(* Where buffer i starts, how long it is, and all of them together.        *)
Start(i) == IF i = 1 THEN 0 ELSE shape[i - 1]
Size(i) == shape[i] - Start(i)
Sum == IF shape = <<>> THEN 0 ELSE shape[Len(shape)]

(* The bytes s in the buffers of the call, each filled before the next.    *)
Scatter(s) == [i \in 1..Len(shape) |-> SubSeq(s, Start(i) + 1, Min2(shape[i], Len(s)))]

TypeOK ==
  /\ op \in Ops /\ target \in Targets /\ shape \in Shapes
  /\ source \in Seq(1..Total) /\ total \in Nat
  /\ errors \in 0..MaxErrors

Init ==
  /\ op \in Ops /\ target \in Targets /\ shape \in Shapes
  /\ source = Upto(Total) /\ sink = <<>>
  /\ bufs = IF op = "copy" THEN <<>> ELSE [i \in 1..Len(shape) |-> <<>>]
  /\ at = 1 /\ total = 0 /\ ret = <<"none">> /\ errors = 0

Running(o, targets) == ret = <<"none">> /\ op = o /\ target \in targets
SameCall == UNCHANGED <<op, target, shape>>

(* One read into a buffer of n bytes gives k of them: 0 at the end of the  *)
(* source, and for no buffer.                                              *)
Gives(n, k) == IF n = 0 \/ source = <<>> THEN k = 0 ELSE k \in 1..Min2(n, Len(source))
Take(k) == source' = SubSeq(source, k + 1, Len(source))

(* Read::read_vectored and Write::write_vectored: one call for the first   *)
(* buffer that is not empty, of n bytes; Fd has the kernel take them all.  *)
FirstLen(n) ==
  \/ n = 0 /\ \A i \in 1..Len(shape) : shape[i] = 0
  \/ n > 0 /\ \E i \in 1..Len(shape) : shape[i] = n /\ \A j \in 1..i - 1 : shape[j] = 0
Offers(n) == IF target = "default" THEN FirstLen(n) ELSE n = Sum

ReadVectored ==
  /\ Running("readv", {"default", "kernel"})
  /\ \E n \in 0..Sum, k \in 0..Total :
       /\ Offers(n) /\ Gives(n, k)
       /\ bufs' = Scatter(SubSeq(source, 1, k))
       /\ Take(k) /\ ret' = <<"Ok", k>>
  /\ SameCall /\ UNCHANGED <<sink, at, total, errors>>

WriteVectored ==
  /\ Running("writev", {"default", "kernel"})
  /\ \E n \in 0..Sum, k \in 0..Sum :
       /\ Offers(n) /\ k <= n
       /\ sink' = Upto(k) /\ ret' = <<"Ok", k>>
  /\ SameCall /\ UNCHANGED <<source, bufs, at, total, errors>>

(* Fd's loops, and those of copy and write_all: EINTR, again.              *)
Interrupted ==
  /\ ret = <<"none">> /\ errors < MaxErrors /\ (op = "copy" \/ target = "kernel")
  /\ errors' = errors + 1
  /\ SameCall /\ UNCHANGED <<source, sink, bufs, at, total, ret>>

(* Any other error ends every call.                                        *)
Fails ==
  /\ ret = <<"none">>
  /\ ret' = <<"Err">>
  /\ SameCall /\ UNCHANGED <<source, sink, bufs, at, total, errors>>

(* readv on WASI: a read per buffer, up to one that is not filled, or that *)
(* gives nothing.                                                          *)
WasiRead ==
  /\ Running("readv", {"wasi"}) /\ at <= Len(shape)
  /\ \E k \in 0..Size(at) :
       /\ Gives(Size(at), k)
       /\ bufs' = [bufs EXCEPT ![at] = SubSeq(source, 1, k)]
       /\ Take(k)
       /\ total' = total + k
       /\ at' = IF k = 0 \/ k < Size(at) THEN Len(shape) + 1 ELSE at + 1
  /\ SameCall /\ UNCHANGED <<sink, ret, errors>>

(* writev on WASI: a write per buffer, up to a short one.                  *)
WasiWrite ==
  /\ Running("writev", {"wasi"}) /\ at <= Len(shape)
  /\ \E k \in 0..Size(at) :
       /\ sink' = sink \o [i \in 1..k |-> Start(at) + i]
       /\ total' = total + k
       /\ at' = IF k < Size(at) THEN Len(shape) + 1 ELSE at + 1
  /\ SameCall /\ UNCHANGED <<source, bufs, ret, errors>>

WasiEnds ==
  /\ ret = <<"none">> /\ op # "copy" /\ target = "wasi" /\ at > Len(shape)
  /\ ret' = <<"Ok", total>>
  /\ SameCall /\ UNCHANGED <<source, sink, bufs, at, total, errors>>

(* copy: a read, which ends it if it finds nothing ...                     *)
CopyRead ==
  /\ ret = <<"none">> /\ op = "copy" /\ bufs = <<>>
  /\ \E k \in 0..BUF :
       /\ Gives(BUF, k)
       /\ bufs' = SubSeq(source, 1, k) /\ Take(k)
       /\ at' = k
       /\ ret' = IF k = 0 THEN <<"Ok", total>> ELSE ret
  /\ SameCall /\ UNCHANGED <<sink, total, errors>>

CopyWritesOnce ==
  /\ ret = <<"none">> /\ op = "copy" /\ bufs # <<>>
  /\ \E k \in 1..Len(bufs) : sink' = sink \o SubSeq(bufs, 1, k)
  /\ bufs' = <<>>
  /\ total' = total + at
  /\ SameCall /\ UNCHANGED <<source, at, ret, errors>>

(* ... and write_all of what it found, in which a write that takes nothing *)
(* is an error (see Fails).                                                *)
CopyWrite ==
  /\ ret = <<"none">> /\ op = "copy" /\ bufs # <<>>
  /\ \E k \in 1..Len(bufs) :
       /\ sink' = sink \o SubSeq(bufs, 1, k) /\ bufs' = SubSeq(bufs, k + 1, Len(bufs))
       /\ total' = IF k = Len(bufs) THEN total + at ELSE total
  /\ SameCall /\ UNCHANGED <<source, at, ret, errors>>

Next ==
  \/ ReadVectored \/ WriteVectored \/ Interrupted \/ Fails
  \/ WasiRead \/ WasiWrite \/ WasiEnds \/ CopyRead \/ CopyWrite

Spec == Init /\ [][Next]_vars

-----------------------------------------------------------------------------
(* The count a call returns is what it moved, in order and without a gap:  *)
(* Ok(n) of write_vectored means the writer took the first n bytes of the  *)
(* buffers; Ok(n) of read_vectored, that the first n bytes of the source   *)
(* fill the buffers one after the other, where 0 means the end (or buffers *)
(* of no length; the WASI loop also stops at one); Ok of copy, that all of *)
(* the source is in the writer.  After an error the writer has a prefix.   *)
TransferExact ==
  /\ sink = Upto(Len(sink))
  /\ ret[1] = "Ok" =>
       /\ op = "writev" => ret[2] = Len(sink)
       /\ op = "readv" =>
            /\ ret[2] = Total - Len(source) /\ bufs = Scatter(Upto(ret[2]))
            /\ ret[2] = 0 => \/ source = <<>> \/ Sum = 0
                             \/ target = "wasi" /\ shape[1] = 0
       /\ op = "copy" => ret[2] = Total /\ Len(sink) = Total
=============================================================================
