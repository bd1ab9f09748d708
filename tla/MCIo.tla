-------------------------------- MODULE MCIo --------------------------------
(***************************************************************************)
(* Input and output, side by side: BufReader, BufWriter, standard output   *)
(* and input, Cursor next to a file, copy and the vectored calls, and      *)
(* child processes.  A behaviour is a behaviour of the one that `unit`     *)
(* names, while the others rest in an initial state.                       *)
(***************************************************************************)
EXTENDS BufferedProofs, StreamsProofs

CONSTANTS A,                                          \* a byte
          Children, Fds, PipeCap, MaxIgnored,         \* see Process
          Talkers, Filters

VARIABLES unit,
          fds, level, kinds, handle, child, kept, todo, eof, got, ppc

(* Lines with both terminators, an empty one, one that is not UTF-8, and   *)
(* one without a terminator.                                               *)
MCInput == <<A, CR, NL, NL, A, Bad, NL, A>>

(* A line with a character of two bytes, and one that is not UTF-8.        *)
MCText == <<Lead, Cont, NL, A, Cont>>

(* No buffer, an empty one, and several with empty ones among them, by     *)
(* where each ends.                                                        *)
MCShapes == {<<>>, <<0>>, <<2>>, <<0, 2>>, <<1, 3>>, <<2, 2, 3>>, <<2, 4, 6>>}

(* The talkers have everything piped and write more to stdout than fits    *)
(* into a pipe; the others have their stdin piped.                         *)
Kinds == {[in |-> "piped", out |-> "piped", err |-> "piped"]}
Simple == {[in |-> "piped", out |-> "null", err |-> "inherit"]}
Quota == [out |-> PipeCap + 1, err |-> PipeCap]

(* Two children whose streams are set up without errors, and one, of any   *)
(* kind, for which that may fail.                                          *)
P == INSTANCE Process WITH MaxIgnored <- 0
Lone == INSTANCE Process WITH Children <- Talkers, Filters <- Talkers,
                              Kinds <- Kinds \cup Simple

ASSUME IoAssumption == P!ProcessAssumption /\ Lone!ProcessAssumption

readerVars == <<rcap, rest, window, taken, call, acc, last, rerrors>>
writerVars == <<cap, buf, out, accepted, resent, errors, state>>
stdioVars == <<owner, stream, step, how, left, calls>>
processVars == <<fds, level, kinds, handle, child, kept, todo, eof, got, ppc>>
stdinVars == <<holder, ahead, srest, spc, sop, sacc, given, reads, fails>>
cursorVars == <<word, inner, pos, data, offset, cret, fret, apart>>
transferVars == <<op, target, shape, source, sink, bufs, at, total, ret, terrors>>
vars == <<unit, readerVars, writerVars, stdioVars, processVars, stdinVars, cursorVars,
          transferVars>>

Init ==
  /\ unit \in {"reader", "writer", "stdio", "process", "lone", "stdin", "cursor", "transfer"}
  /\ unit # "reader" => rcap = CHOOSE c \in ReaderCaps : TRUE
  /\ unit # "writer" => cap = CHOOSE c \in WriterCaps : TRUE
  /\ unit # "cursor" => word = CHOOSE w \in Words : TRUE
  /\ unit # "transfer" => op = "copy" /\ target = "default" /\ shape = <<>>
  /\ R!Init /\ W!Init /\ S!Init /\ I!Init /\ C!Init /\ T!Init
  /\ IF unit = "lone" THEN Lone!Init ELSE P!Init

Next ==
  /\ \/ unit = "reader" /\ R!Next
     \/ unit = "writer" /\ W!Next
     \/ unit = "stdio" /\ S!Next
     \/ unit = "process" /\ P!Next
     \/ unit = "lone" /\ Lone!Next
     \/ unit = "stdin" /\ I!Next
     \/ unit = "cursor" /\ C!Next
     \/ unit = "transfer" /\ T!Next
  /\ unit # "reader" => UNCHANGED readerVars
  /\ unit # "writer" => UNCHANGED writerVars
  /\ unit # "stdio" => UNCHANGED stdioVars
  /\ unit \notin {"process", "lone"} => UNCHANGED processVars
  /\ unit # "stdin" => UNCHANGED stdinVars
  /\ unit # "cursor" => UNCHANGED cursorVars
  /\ unit # "transfer" => UNCHANGED transferVars
  /\ UNCHANGED unit

Proceed == (unit = "process" /\ P!Proceed) \/ (unit = "lone" /\ Lone!Proceed)
Runs(c) ==
  (unit = "process" /\ P!Runs(c)) \/ (unit = "lone" /\ c \in Talkers /\ Lone!Runs(c))

(* The fairness of Process.                                                *)
Spec ==
  /\ Init /\ [][Next]_vars
  /\ WF_processVars(Proceed)
  /\ \A c \in Children : WF_processVars(Runs(c))

ProcessSpec == unit = "process" /\ Spec

-----------------------------------------------------------------------------
(* child_setup_fd, parent_keep, the drops: every pipe end is where the     *)
(* Command and the handles say.                                            *)
PipesWired == IF unit = "lone" THEN Lone!PipesWired ELSE P!PipesWired

(* output, wait_with_output: all that the child wrote.                     *)
OutputComplete == IF unit = "lone" THEN Lone!OutputComplete ELSE P!OutputComplete

(* wait, output, wait_with_output: they return if the child can finish.    *)
Waiting == IF unit = "lone" THEN Lone!Waiting ELSE P!Waiting
WaitingReturns == Waiting ~> ppc = <<"run">>

(* wait: with its stdin closed, the child can finish.                      *)
WaitReturns == P!WaitReturns
=============================================================================
