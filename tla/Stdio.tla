------------------------------- MODULE Stdio -------------------------------
(***************************************************************************)
(* Standard output: the print macros, which hold STDOUT_LOCK while they    *)
(* format, and write_fmt on a Stdout, which locks for each write.  What a  *)
(* call prints is a number of units; one system call takes any part.  The  *)
(* lock is the abstract one that Mutex implements.                         *)
(***************************************************************************)
EXTENDS Naturals, Sequences

CONSTANTS Threads,
          Free,        \* STDOUT_LOCK is free
          Length,      \* units per call
          MaxCalls     \* bound: calls per thread

StdioAssumption == Free \notin Threads /\ Length \in Nat \ {0} /\ MaxCalls \in Nat

VARIABLES owner,       \* who holds STDOUT_LOCK
          stream,      \* what descriptor 1 received: <<thread, call>> per unit
          step,        \* of each thread: "idle", "lock" or "write"
          how,         \* _print ("macro"), or write_fmt on a Stdout ("handle")
          left,        \* units each call has left
          calls        \* calls of each thread so far

vars == <<owner, stream, step, how, left, calls>>

TypeOK ==
  /\ owner \in Threads \cup {Free}
  /\ stream \in Seq(Threads \X (1..MaxCalls))
  /\ step \in [Threads -> {"idle", "lock", "write"}]
  /\ how \in [Threads -> {"macro", "handle"}]
  /\ left \in [Threads -> 0..Length]
  /\ calls \in [Threads -> 0..MaxCalls]

Init ==
  /\ owner = Free /\ stream = <<>>
  /\ step = [t \in Threads |-> "idle"]
  /\ how = [t \in Threads |-> "macro"]
  /\ left = [t \in Threads |-> 0]
  /\ calls = [t \in Threads |-> 0]

(* _print, or write! to a Stdout.                                          *)
Begin(t, h) ==
  /\ step[t] = "idle" /\ calls[t] < MaxCalls
  /\ step' = [step EXCEPT ![t] = "lock"]
  /\ how' = [how EXCEPT ![t] = h]
  /\ left' = [left EXCEPT ![t] = Length]
  /\ calls' = [calls EXCEPT ![t] = @ + 1]
  /\ UNCHANGED <<owner, stream>>

(* Stdout::lock                                                            *)
LockStdout(t) ==
  /\ step[t] = "lock" /\ owner = Free
  /\ owner' = t
  /\ step' = [step EXCEPT ![t] = "write"]
  /\ UNCHANGED <<stream, how, left, calls>>

UnlocksEachTime(t) ==
  /\ step[t] = "write"
  /\ \E k \in 1..left[t] :
       /\ stream' = stream \o [i \in 1..k |-> <<t, calls[t]>>]
       /\ left' = [left EXCEPT ![t] = @ - k]
       /\ step' = [step EXCEPT ![t] = IF left[t] = k THEN "idle" ELSE "lock"]
       /\ owner' = Free
  /\ UNCHANGED <<how, calls>>

(* StdoutLock::write in write_all: the guard of a macro lives until all is *)
(* written, that of Stdout::write until the write returns.                 *)
WriteUnits(t) ==
  /\ step[t] = "write"
  /\ \E k \in 1..left[t] :
       /\ stream' = stream \o [i \in 1..k |-> <<t, calls[t]>>]
       /\ left' = [left EXCEPT ![t] = @ - k]
       /\ IF left[t] = k THEN step' = [step EXCEPT ![t] = "idle"] /\ owner' = Free
          ELSE IF how[t] = "handle" THEN step' = [step EXCEPT ![t] = "lock"] /\ owner' = Free
          ELSE UNCHANGED <<step, owner>>
  /\ UNCHANGED <<how, calls>>

(* A write fails: the call ends there, with part of it written.            *)
WriteFails(t) ==
  /\ step[t] = "write"
  /\ step' = [step EXCEPT ![t] = "idle"]
  /\ left' = [left EXCEPT ![t] = 0]
  /\ owner' = Free
  /\ UNCHANGED <<stream, how, calls>>

Next ==
  \E t \in Threads :
    \/ \E h \in {"macro", "handle"} : Begin(t, h)
    \/ LockStdout(t) \/ WriteUnits(t) \/ WriteFails(t)

Spec == Init /\ [][Next]_vars

-----------------------------------------------------------------------------
(* Positions of the units of thread t's latest call.                       *)
Units(t) == {i \in DOMAIN stream : stream[i] = <<t, calls[t]>>}

(* "Hold the stdout lock across the whole format so concurrent prints from *)
(* multiple threads don't interleave mid-line" (_print): what a macro      *)
(* prints is in one piece, also next to threads that write through a       *)
(* Stdout.                                                                 *)
PrintsWhole ==
  \A t \in Threads : how[t] = "macro" =>
    \A i, j \in Units(t) : \A k \in i..j : k \in Units(t)
=============================================================================
