----------------------------- MODULE BufWriter -----------------------------
(***************************************************************************)
(* io::BufWriter over a writer that may take less than it is given or      *)
(* fail.  The program writes the bytes 1, 2, 3, ...: a byte gets its       *)
(* number when write accepts it.                                           *)
(***************************************************************************)
EXTENDS Naturals, Sequences

CONSTANTS Caps,        \* the capacities
          Sizes,       \* the lengths of the slices that are written
          MaxBytes,    \* bound: bytes the program writes
          MaxErrors    \* bound: failures of the inner writer

BufWriterAssumption ==
  Caps \cup Sizes \subseteq Nat /\ MaxBytes \in Nat /\ MaxErrors \in Nat

VARIABLES cap,         \* BufWriter::capacity
          buf,         \* BufWriter::buf
          out,         \* what the inner writer received
          accepted,    \* how many bytes write reported as written
          resent,      \* how many bytes failed flushes had already passed on
          errors,      \* failures so far
          state        \* "open", "failed" (into_inner has), "clean" or "lossy"

vars == <<cap, buf, out, accepted, resent, errors, state>>

TypeOK ==
  /\ cap \in Caps /\ errors \in 0..MaxErrors
  /\ buf \in Seq(1..MaxBytes) /\ out \in Seq(1..MaxBytes)
  /\ accepted \in 0..MaxBytes /\ resent \in Nat
  /\ state \in {"open", "failed", "clean", "lossy"}

Init ==
  /\ cap \in Caps
  /\ buf = <<>> /\ out = <<>>
  /\ accepted = 0 /\ resent = 0 /\ errors = 0
  /\ state = "open"

-----------------------------------------------------------------------------
(* The next n bytes.                                                       *)
Slice(n) == [i \in 1..n |-> accepted + i]

(* flush_buf succeeds: write_all took everything.                          *)
Flushed == out \o buf

(* flush_buf fails: write_all has passed on k bytes, and buf keeps all.    *)
FlushFails ==
  /\ buf # <<>> /\ errors < MaxErrors
  /\ errors' = errors + 1
  /\ \E k \in 0 .. Len(buf) - 1 :
       /\ out' = out \o SubSeq(buf, 1, k)
       /\ resent' = resent + k
  /\ UNCHANGED <<buf, accepted>>

FullFor(n) == Len(buf) + n > cap

WriteOvertakes(n) ==
  /\ state = "open" /\ accepted + n <= MaxBytes
  /\ IF n >= cap
     THEN \E k \in 1..n : /\ out' = out \o SubSeq(Slice(n), 1, k)
                          /\ accepted' = accepted + k /\ UNCHANGED buf
     ELSE /\ out' = IF FullFor(n) THEN Flushed ELSE out
          /\ buf' = (IF FullFor(n) THEN <<>> ELSE buf) \o Slice(n)
          /\ accepted' = accepted + n
  /\ UNCHANGED <<cap, resent, errors, state>>

(* write: flush if the slice does not fit; a slice as long as the buffer   *)
(* goes to the inner writer, which may take only some of it.               *)
Write(n) ==
  /\ state = "open" /\ accepted + n <= MaxBytes
  /\ LET o == IF FullFor(n) THEN Flushed ELSE out
         b == IF FullFor(n) THEN <<>> ELSE buf
     IN  IF n >= cap
         THEN \E k \in 1..n : /\ out' = o \o SubSeq(Slice(n), 1, k)
                              /\ buf' = b /\ accepted' = accepted + k
         ELSE out' = o /\ buf' = b \o Slice(n) /\ accepted' = accepted + n
  /\ UNCHANGED <<cap, resent, errors, state>>

(* write: the flush fails, or the inner writer fails after it.             *)
WriteFails(n) ==
  /\ state = "open"
  /\ \/ FullFor(n) /\ FlushFails
     \/ /\ n >= cap /\ errors < MaxErrors
        /\ out' = Flushed /\ buf' = <<>> /\ errors' = errors + 1
        /\ UNCHANGED <<accepted, resent>>
  /\ UNCHANGED <<cap, state>>

Flush ==
  /\ state = "open"
  /\ out' = Flushed /\ buf' = <<>>
  /\ UNCHANGED <<cap, accepted, resent, errors, state>>

(* flush or into_inner fails; the latter drops the writer.                 *)
FlushReturnsError ==
  /\ state = "open"
  /\ FlushFails
  /\ state' \in {"open", "failed"}
  /\ UNCHANGED cap

(* into_inner, or drop: flush once more, ignoring an error.                *)
Close ==
  /\ state \in {"open", "failed"}
  /\ \/ /\ out' = Flushed /\ buf' = <<>> /\ state' = "clean"
        /\ UNCHANGED <<accepted, resent, errors>>
     \/ FlushFails /\ state' = "lossy"
  /\ UNCHANGED cap

Next ==
  \/ \E n \in Sizes : Write(n) \/ WriteFails(n)
  \/ Flush \/ FlushReturnsError \/ Close

Spec == Init /\ [][Next]_vars

-----------------------------------------------------------------------------
(* What was passed on or is buffered.                                      *)
Written == out \o buf

(* It is the bytes 1..accepted, each for the first time after the one      *)
(* before it: without the repetitions they are in order.                   *)
InOrder ==
  /\ {Written[i] : i \in 1..Len(Written)} = 1..accepted
  /\ \A i \in 1..Len(Written) :
       Written[i] # 1 => \E j \in 1 .. i - 1 : Written[j] = Written[i] - 1

(* What write accepted reaches the inner writer or is still buffered, in   *)
(* order, and comes twice only as far as a failed flush had got; a buffer  *)
(* that is dropped without a failure leaves nothing behind, and the buffer *)
(* never outgrows its capacity.                                            *)
WriterExact ==
  /\ InOrder
  /\ Len(out) + Len(buf) = accepted + resent
  /\ state = "clean" => buf = <<>>
  /\ Len(buf) <= cap
=============================================================================
