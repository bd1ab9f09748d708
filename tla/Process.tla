------------------------------ MODULE Process ------------------------------
(***************************************************************************)
(* process::Command and Child: a parent that spawns children with pipes,   *)
(* talks to them and waits for them.  A descriptor table is a function     *)
(* from numbers to open files; a pipe's read end is at its end of file     *)
(* when it is empty and no table holds the write end.                      *)
(***************************************************************************)
EXTENDS Naturals, FiniteSets, FiniteSetsExt, SequencesExt

CONSTANTS Children,
          None,
          Fds,         \* bound: the descriptor numbers (0, 1 and 2 among them)
          Kinds,       \* how children may be spawned: [Streams -> {"inherit", "null", "piped"}]
          Simple,      \* how the children other than the talkers may be spawned
          PipeCap,     \* the capacity of a pipe
          MaxIgnored,  \* bound: the streams of a child whose set-up fails
          Talkers,     \* the children that write something:
          Quota,       \*   how much to each of "out" and "err"
          Filters      \* the children that read their stdin to its end

Streams == {"in", "out", "err"}
Target == [in |-> 0, out |-> 1, err |-> 2]
Order == <<"in", "out", "err">>

ProcessAssumption ==
  /\ Fds \subseteq Nat /\ {0, 1, 2} \subseteq Fds
  /\ Kinds \cup Simple \subseteq [Streams -> {"inherit", "null", "piped"}]
  /\ PipeCap \in Nat \ {0} /\ MaxIgnored \in Nat /\ Quota \in [{"out", "err"} -> Nat]
  /\ Talkers \subseteq Children /\ Filters \subseteq Children

Parent == <<"parent">>
Procs == {Parent} \cup {<<c>> : c \in Children}

(* Open files.                                                             *)
Tty == <<"tty">>
Devnull == <<"null">>
REnd(c, s) == <<c, s, "r">>
WEnd(c, s) == <<c, s, "w">>
ChildEnd(c, s) == IF s = "in" THEN REnd(c, s) ELSE WEnd(c, s)
ParentEnd(c, s) == IF s = "in" THEN WEnd(c, s) ELSE REnd(c, s)

VARIABLES fds,         \* the descriptor table of each process
          level,       \* how much each pipe holds
          kinds,       \* the Command each child was spawned with
          handle,      \* Child's stdin, stdout, stderr: a number or None
          child,       \* what has become of each child
          kept,        \* ghost: the streams of each child whose set-up failed
          todo,        \* how much each child has yet to write to each stream
          eof,         \* whether a child has seen the end of its stdin
          got,         \* what wait_with_output collected from the streams it read
          ppc          \* the parent's call: <<step>> or <<step, child>>

vars == <<fds, level, kinds, handle, child, kept, todo, eof, got, ppc>>

Outs == {"out", "err"}
ToWrite(c) == IF c \in Talkers THEN Quota ELSE [s \in Outs |-> 0]

TypeOK ==
  /\ fds \in [Procs -> [Fds -> {None, Tty, Devnull} \cup (Children \X Streams \X {"r", "w"})]]
  /\ level \in [Children -> [Streams -> 0..PipeCap]]
  /\ kinds \in [Children -> Kinds \cup Simple \cup {None}]
  /\ handle \in [Children -> [Streams -> Fds \cup {None}]]
  /\ child \in [Children -> {"none", "failed", "forked", "running", "zombie", "reaped"}]
  /\ kept \in [Children -> SUBSET Streams]
  /\ todo \in [Children -> [Outs -> Nat]]
  /\ eof \in [Children -> BOOLEAN]
  /\ \A c \in Children : DOMAIN got[c] \subseteq Outs
  /\ ppc \in {<<"run">>} \cup ({"keep", "readout", "readerr", "close", "wait"} \X Children)

Init ==
  /\ fds = [p \in Procs |-> [n \in Fds |-> IF p = Parent /\ n <= 2 THEN Tty ELSE None]]
  /\ level = [c \in Children |-> [s \in Streams |-> 0]]
  /\ kinds = [c \in Children |-> None]
  /\ handle = [c \in Children |-> [s \in Streams |-> None]]
  /\ child = [c \in Children |-> "none"]
  /\ kept = [c \in Children |-> {}]
  /\ todo = [c \in Children |-> ToWrite(c)]
  /\ eof = [c \in Children |-> FALSE]
  /\ got = [c \in Children |-> <<>>]
  /\ ppc = <<"run">>

-----------------------------------------------------------------------------
(* Descriptor tables: the two lowest free numbers of pipe(), dup2, close.  *)
FreeFds(table) == {n \in Fds : table[n] = None}
Pipe(table, c, s) ==
  LET r == Min(FreeFds(table))
      w == Min(FreeFds(table) \ {r})
  IN  [table EXCEPT ![r] = REnd(c, s), ![w] = WEnd(c, s)]
Dup2(table, from, to) == [table EXCEPT ![to] = table[from]]
Close(table, n) == [table EXCEPT ![n] = None]
At(table, file) == CHOOSE n \in Fds : table[n] = file

Held(file) == \E p \in Procs, n \in Fds : fds[p][n] = file

(* make_pipe for the first k streams.                                      *)
MakePipes(c, kind, k) ==
  FoldLeft(LAMBDA table, s : IF kind[s] = "piped" THEN Pipe(table, c, s) ELSE table,
           fds[Parent], SubSeq(Order, 1, k))

Room(kind) == Cardinality(FreeFds(fds[Parent])) >= 2 * Cardinality({s \in Streams : kind[s] = "piped"})

(* spawn: the pipes, then fork; the child starts with a copy of the table. *)
Spawn(c, kind) ==
  /\ ppc = <<"run">> /\ child[c] = "none" /\ Room(kind)
  /\ LET table == MakePipes(c, kind, 3)
     IN  fds' = [fds EXCEPT ![Parent] = table, ![<<c>>] = table]
  /\ kinds' = [kinds EXCEPT ![c] = kind]
  /\ child' = [child EXCEPT ![c] = "forked"]
  /\ ppc' = <<"keep", c>>
  /\ UNCHANGED <<kept, level, handle, todo, eof, got>>

(* spawn: a pipe or the fork fails, and the pipes made so far stay open.   *)
SpawnFails(c, kind) ==
  /\ ppc = <<"run">> /\ child[c] = "none" /\ Room(kind)
  /\ \E k \in 0..3 : fds' = [fds EXCEPT ![Parent] = MakePipes(c, kind, k)]
  /\ kinds' = [kinds EXCEPT ![c] = kind]
  /\ child' = [child EXCEPT ![c] = "failed"]
  /\ UNCHANGED <<kept, level, handle, todo, eof, got, ppc>>

KeepChildEnds(c) ==
  /\ ppc = <<"keep", c>>
  /\ handle' = [handle EXCEPT ![c] =
       [s \in Streams |->
          IF kinds[c][s] = "piped" THEN At(fds[Parent], ParentEnd(c, s)) ELSE None]]
  /\ ppc' = <<"run">>
  /\ UNCHANGED <<kept, fds, level, kinds, child, todo, eof, got>>

(* spawn, parent_keep: close the child's ends and keep the others.         *)
ParentKeep(c) ==
  /\ ppc = <<"keep", c>>
  /\ fds' = [fds EXCEPT ![Parent] =
       [n \in Fds |-> IF fds[Parent][n] \in {ChildEnd(c, s) : s \in Streams}
                      THEN None ELSE fds[Parent][n]]]
  /\ handle' = [handle EXCEPT ![c] =
       [s \in Streams |->
          IF kinds[c][s] = "piped" THEN At(fds[Parent], ParentEnd(c, s)) ELSE None]]
  /\ ppc' = <<"run">>
  /\ UNCHANGED <<kept, level, kinds, child, todo, eof, got>>

SetupKeepsParentEnd(st, c, s) ==
  CASE kinds[c][s] = "inherit" -> {st}
    [] kinds[c][s] = "null" -> {[st EXCEPT !.table[Target[s]] = Devnull]}
    [] kinds[c][s] = "piped" ->
         LET mine == At(fds[<<c>>], ChildEnd(c, s))
         IN  {[st EXCEPT !.table = Close(Dup2(@, mine, Target[s]), mine)]}

(* child_setup_fd: what may become of the table.  Errors are ignored: when *)
(* /dev/null cannot be opened (for want of a number, or otherwise), or     *)
(* dup2 fails, the stream stays the parent's.                              *)
SetupFd(st, c, s) ==
  CASE kinds[c][s] = "inherit" -> {st}
    [] kinds[c][s] = "null" ->
         {[st EXCEPT !.kept = @ \cup {s}]}
           \cup {[st EXCEPT !.table[Target[s]] = Devnull] : n \in FreeFds(st.table)}
    [] kinds[c][s] = "piped" ->
         LET mine == At(fds[<<c>>], ChildEnd(c, s))
             theirs == At(fds[<<c>>], ParentEnd(c, s))
             closed(table) == Close(Close(table, mine), theirs)
         IN  {[st EXCEPT !.table = closed(Dup2(@, mine, Target[s]))],
              [st EXCEPT !.table = closed(@), !.kept = @ \cup {s}]}

(* spawn, in the child: wire 0, 1 and 2, then execve.                      *)
ChildExec(c) ==
  /\ child[c] = "forked"
  /\ \E st \in FoldLeft(LAMBDA sts, s : UNION {SetupFd(st, c, s) : st \in sts},
                        {[table |-> fds[<<c>>], kept |-> {}]}, Order) :
       /\ Cardinality(st.kept) <= MaxIgnored
       /\ fds' = [fds EXCEPT ![<<c>>] = st.table]
       /\ kept' = [kept EXCEPT ![c] = st.kept]
  /\ child' = [child EXCEPT ![c] = "running"]
  /\ UNCHANGED <<level, kinds, handle, todo, eof, got, ppc>>

(* A process ends: the kernel closes its files.                            *)
Ends(c) ==
  /\ fds' = [fds EXCEPT ![<<c>>] = [n \in Fds |-> None]]
  /\ child' = [child EXCEPT ![c] = "zombie"]

(* spawn, in the child: execve fails, exit(127).                           *)
ExecFails(c) ==
  /\ child[c] = "forked"
  /\ Ends(c)
  /\ UNCHANGED <<kept, level, kinds, handle, todo, eof, got, ppc>>

-----------------------------------------------------------------------------
(* The program of a child, once it runs: it writes, reads, and exits.      *)
IsPipe(file) == file # None /\ Len(file) = 3

ChildWrites(c, s) ==
  LET file == fds[<<c>>][Target[s]]
  IN  /\ child[c] = "running" /\ todo[c][s] > 0
      /\ IF IsPipe(file)
         THEN /\ Held(REnd(file[1], file[2])) /\ level[file[1]][file[2]] < PipeCap
              /\ level' = [level EXCEPT ![file[1]][file[2]] = @ + 1]
         ELSE UNCHANGED level
      /\ todo' = [todo EXCEPT ![c][s] = @ - 1]
      /\ UNCHANGED <<kept, fds, kinds, handle, child, eof, got, ppc>>

(* A write to a pipe nobody reads: SIGPIPE.                                *)
BrokenPipe(c, s) ==
  LET file == fds[<<c>>][Target[s]]
  IN  /\ child[c] = "running" /\ todo[c][s] > 0
      /\ IsPipe(file) /\ ~Held(REnd(file[1], file[2]))
      /\ Ends(c)
      /\ UNCHANGED <<kept, level, kinds, handle, todo, eof, got, ppc>>

ChildReads(c) ==
  LET file == fds[<<c>>][0]
  IN  /\ child[c] = "running" /\ c \in Filters /\ ~eof[c]
      /\ \/ /\ IsPipe(file) /\ level[file[1]][file[2]] > 0
            /\ level' = [level EXCEPT ![file[1]][file[2]] = @ - 1]
            /\ UNCHANGED eof
         \/ /\ IsPipe(file) => level[file[1]][file[2]] = 0 /\ ~Held(WEnd(file[1], file[2]))
            /\ eof' = [eof EXCEPT ![c] = TRUE]
            /\ UNCHANGED level
      /\ UNCHANGED <<kept, fds, kinds, handle, child, todo, got, ppc>>

ChildExits(c) ==
  /\ child[c] = "running" /\ (c \in Filters => eof[c])
  /\ \A s \in Outs : todo[c][s] = 0
  /\ Ends(c)
  /\ UNCHANGED <<kept, level, kinds, handle, todo, eof, got, ppc>>

-----------------------------------------------------------------------------
(* ChildStdin::write, to a child that can still read it.                   *)
WriteStdin(c) ==
  /\ ppc = <<"run">> /\ handle[c]["in"] # None
  /\ LET file == fds[Parent][handle[c]["in"]]
     IN  /\ Held(REnd(file[1], file[2])) /\ level[file[1]][file[2]] < PipeCap
         /\ level' = [level EXCEPT ![file[1]][file[2]] = @ + 1]
  /\ UNCHANGED <<kept, fds, kinds, handle, child, todo, eof, got, ppc>>

(* Drop of ChildStdin, ChildStdout, ChildStderr, if there is one: close.   *)
DropHandle(c, s) ==
  /\ fds' = IF handle[c][s] = None THEN fds
            ELSE [fds EXCEPT ![Parent] = Close(@, handle[c][s])]
  /\ handle' = [handle EXCEPT ![c][s] = None]

DropStream(c, s) ==
  /\ ppc = <<"run">> /\ handle[c][s] # None
  /\ DropHandle(c, s)
  /\ UNCHANGED <<kept, level, kinds, child, todo, eof, got, ppc>>

Spawned(c) == child[c] \in {"forked", "running", "zombie"}

(* wait: "Ensure stdin is closed so the child can finish", then wait4.     *)
Wait(c) ==
  /\ (ppc = <<"run">> /\ Spawned(c)) \/ ppc = <<"close", c>>
  /\ DropHandle(c, "in")
  /\ ppc' = <<"wait", c>>
  /\ UNCHANGED <<kept, level, kinds, child, todo, eof, got>>

Reap(c) ==
  /\ ppc = <<"wait", c>> /\ child[c] = "zombie"
  /\ child' = [child EXCEPT ![c] = "reaped"]
  /\ ppc' = <<"run">>
  /\ UNCHANGED <<kept, fds, level, kinds, handle, todo, eof, got>>

(* wait_with_output, and output after its spawn: stdout to its end, then   *)
(* stderr to its end, then wait.                                           *)
WaitWithOutput(c) ==
  /\ ppc = <<"run">> /\ Spawned(c)
  /\ got' = [got EXCEPT ![c] = [s \in {s \in Outs : handle[c][s] # None} |-> 0]]
  /\ ppc' = <<"readout", c>>
  /\ UNCHANGED <<kept, fds, level, kinds, handle, child, todo, eof>>

(* read_to_end: one read that finds data ...                               *)
ReadSome(c, s) ==
  /\ ppc = <<IF s = "out" THEN "readout" ELSE "readerr", c>> /\ handle[c][s] # None
  /\ LET file == fds[Parent][handle[c][s]]
     IN  /\ level[file[1]][file[2]] > 0
         /\ level' = [level EXCEPT ![file[1]][file[2]] = @ - 1]
  /\ got' = [got EXCEPT ![c][s] = @ + 1]
  /\ UNCHANGED <<kept, fds, kinds, handle, child, todo, eof, ppc>>

(* ... and the one that finds the end; a stream that is not there, or was  *)
(* taken by the program, is skipped.                                       *)
AtEnd(c, s) ==
  handle[c][s] # None =>
    LET file == fds[Parent][handle[c][s]]
    IN  level[file[1]][file[2]] = 0 /\ ~Held(WEnd(file[1], file[2]))

OutEndsWhenEmpty(c) ==
  /\ ppc = <<"readout", c>>
  /\ handle[c]["out"] # None => level[c]["out"] = 0
  /\ DropHandle(c, "out")
  /\ ppc' = <<"readerr", c>>
  /\ UNCHANGED <<kept, level, kinds, child, todo, eof, got>>

OutEnds(c) ==
  /\ ppc = <<"readout", c>> /\ AtEnd(c, "out")
  /\ DropHandle(c, "out")
  /\ ppc' = <<"readerr", c>>
  /\ UNCHANGED <<kept, level, kinds, child, todo, eof, got>>

ErrEnds(c) ==
  /\ ppc = <<"readerr", c>> /\ AtEnd(c, "err")
  /\ DropHandle(c, "err")
  /\ ppc' = <<"close", c>>
  /\ UNCHANGED <<kept, level, kinds, child, todo, eof, got>>

(* A call of the parent goes on.                                           *)
Proceed ==
  \E c \in Children :
    \/ ParentKeep(c) \/ OutEnds(c) \/ ErrEnds(c) \/ Reap(c)
    \/ ppc = <<"close", c>> /\ Wait(c)
    \/ \E s \in Outs : ReadSome(c, s)

(* A child goes on.                                                        *)
Runs(c) ==
  \/ ChildExec(c) \/ ExecFails(c) \/ ChildReads(c) \/ ChildExits(c)
  \/ \E s \in Outs : ChildWrites(c, s) \/ BrokenPipe(c, s)

Next ==
  \/ Proceed
  \/ \E c \in Children :
       \/ \E kind \in IF c \in Talkers THEN Kinds ELSE Simple : Spawn(c, kind) \/ SpawnFails(c, kind)
       \/ WriteStdin(c) \/ Wait(c) \/ WaitWithOutput(c)
       \/ \E s \in Streams : DropStream(c, s)
       \/ Runs(c)

Spec == Init /\ [][Next]_vars

(* The kernel schedules the parent and the children.                       *)
FairSpec == Spec /\ WF_vars(Proceed) /\ \A c \in Children : WF_vars(Runs(c))

-----------------------------------------------------------------------------
(* child_setup_fd wires a child as its Command says, but for a stream      *)
(* whose set-up failed, which is the parent's, and leaves it no other end  *)
(* of its own pipes, which would keep a pipe from ending.                  *)
Wired ==
  \A c \in Children : child[c] = "running" =>
    /\ \A s \in Streams :
         fds[<<c>>][Target[s]] = IF s \in kept[c] \/ kinds[c][s] = "inherit" THEN Tty
                                 ELSE IF kinds[c][s] = "null" THEN Devnull
                                 ELSE ChildEnd(c, s)
    /\ \A n \in Fds \ {0, 1, 2}, s \in Streams : fds[<<c>>][n] \notin {REnd(c, s), WEnd(c, s)}

(* Between calls the parent's pipe ends are those of the handles it still  *)
(* has, each under the number its handle names (numbers are used again);   *)
(* only a spawn that failed leaves others open.                            *)
HandlesOwnTheirEnds ==
  ppc[1] # "keep" =>
    \A c \in {d \in Children : child[d] # "failed"}, s \in Streams, n \in Fds :
      /\ fds[Parent][n] # ChildEnd(c, s)
      /\ fds[Parent][n] = ParentEnd(c, s) <=> handle[c][s] = n

(* Every pipe end is where the Command and the handles say, and nowhere    *)
(* else.                                                                   *)
PipesWired == Wired /\ HandlesOwnTheirEnds

(* What wait_with_output and output return is what the child wrote, all of *)
(* it, from both streams (a stream that stayed the parent's gives none).   *)
OutputComplete ==
  \A c \in Children : \A s \in DOMAIN got[c] \ kept[c] :
    /\ got[c][s] + level[c][s] + todo[c][s] = ToWrite(c)[s]
    /\ child[c] = "reaped" => level[c][s] = 0

(* Nothing else holds c's stdin open, and what c still has to write to a   *)
(* stream that is not being read fits into the pipe.                       *)
Unhindered(c) ==
  /\ c \in Filters => \A p \in Procs \ {<<c>>}, n \in Fds : fds[p][n] # WEnd(c, "in")
  /\ \A s \in Outs : todo[c][s] + level[c][s] <= PipeCap \/ (ppc = <<"readout", c>> /\ s = "out")

(* A call that waits for a child that can finish: reading one stream to    *)
(* its end before the other is all right as long as the other fits into    *)
(* its pipe.                                                               *)
Waiting == ppc[1] \in {"readout", "wait"} /\ Unhindered(ppc[2])

(* wait, output and wait_with_output return when the child can finish.     *)
WaitingReturns == Waiting ~> ppc = <<"run">>

(* wait closes the child's stdin "so the child can finish" (the comment in *)
(* Child::wait): a child that has nothing to write and reads its stdin to  *)
(* the end is eventually reaped.                                           *)
WaitReturns ==
  ppc[1] = "wait" /\ (\A s \in Outs : todo[ppc[2]][s] = 0) ~> ppc = <<"run">>
=============================================================================
