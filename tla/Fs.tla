--------------------------------- MODULE Fs ---------------------------------
(***************************************************************************)
(* Directories: create_dir_all, remove_dir_all and the iterator ReadDir    *)
(* behind it, one system call per step, by threads or processes that work  *)
(* in the same tree: some create, remove or rename, and some put a link    *)
(* where a directory was.  A path is the sequence of its names.  Every     *)
(* symbolic link leads to the directory <<Out>>.                           *)
(***************************************************************************)
EXTENDS Naturals, Sequences, FiniteSets, SequencesExt

CONSTANTS Threads,
          Names, Out,   \* the names of files and directories
          Texts,        \* what from_utf8_lossy may make of the names
          MaxDepth,     \* bound: the length of a path
          Trees,        \* the initial trees, from paths to kinds
          Tasks,        \* the calls a thread may make
          Batch         \* the records that fit into ReadDir's buffer

Kinds == {"none", "file", "dir", "link"}
Paths == {p \in BoundedSeq(Names \cup {Out}, MaxDepth) :
            p # <<>> /\ \A i \in 2..Len(p) : p[i] # Out}

(* No link lies under <<Out>>, nor is one moved there: a path meets at     *)
(* most one.  What is moved goes to the top, so that it fits.              *)
FsAssumption ==
  /\ Batch \in Nat \ {0} /\ Out \notin Names /\ Texts \subseteq [Names -> Names]
  /\ \A k \in Tasks : "to" \in DOMAIN k => k.to \in {<<n>> : n \in Names}
  /\ \A t \in Trees : /\ t \in [Paths -> Kinds] /\ t[<<Out>>] = "dir"
                      /\ \A p \in Paths : p[1] = Out => t[p] # "link"

VARIABLES tree,      \* what is at each path
          node,      \* which directory is there, <<>> if none is
          made,      \* the directories made so far
          typed,     \* does the file system know the types of entries
          text,      \* what from_utf8_lossy makes of a name
          task,      \* the call each thread makes, ...
          stack,     \* ... its frames, the innermost last, ...
          ret,       \* ... and what it returned
          changes    \* ghost: who put what where, "init" what was there

disk == <<tree, node, made, changes>>
vars == <<disk, typed, text, task, stack, ret>>

-----------------------------------------------------------------------------
(* The kernel.  Real follows a link in the middle of a path; BadPrefix     *)
(* says that some directory on the way is missing or is a file.            *)
Real(p) ==
  LET links == {i \in 1 .. Len(p) - 1 : tree[SubSeq(p, 1, i)] = "link"}
  IN  IF links = {} THEN p
      ELSE <<Out>> \o SubSeq(p, (CHOOSE i \in links : TRUE) + 1, Len(p))

BadPrefix(p) ==
  LET r == Real(p) IN \E i \in 1 .. Len(r) - 1 : tree[SubSeq(r, 1, i)] # "dir"

(* symlink_metadata and metadata: the kind at a path, "none" for an error. *)
Lstat(p) == IF BadPrefix(p) THEN "none" ELSE tree[Real(p)]
Stat(p) == IF Lstat(p) = "link" THEN "dir" ELSE Lstat(p)

Entries(r) == {n \in Names : Append(r, n) \in Paths /\ tree[Append(r, n)] # "none"}

Put(t, p, kind) ==
  /\ tree' = [tree EXCEPT ![Real(p)] = kind]
  /\ made' = IF kind = "dir" THEN made + 1 ELSE made
  /\ node' = [node EXCEPT ![Real(p)] = IF kind = "dir" THEN <<p, made'>> ELSE <<>>]
  /\ changes' = changes \cup {<<t, Real(p), kind>>}

(* All that is at f, or under it, moves to g.                              *)
Moved(F, f, g, none) ==
  [p \in Paths |-> IF IsPrefix(g, p)
                    THEN LET q == f \o SubSeq(p, Len(g) + 1, Len(p))
                         IN  IF q \in Paths THEN F[q] ELSE none
                    ELSE IF IsPrefix(f, p) THEN none ELSE F[p]]

(* The system calls, with the result they leave for the caller.            *)
Mkdir(t, p, result) ==
  IF BadPrefix(p) THEN result = "err" /\ UNCHANGED disk
  ELSE IF Lstat(p) # "none" THEN result = "eexist" /\ UNCHANGED disk
  ELSE result = "ok" /\ Put(t, p, "dir")

Unlink(t, p, result) ==
  IF Lstat(p) \in {"file", "link"}
  THEN result = "ok" /\ Put(t, p, "none")
  ELSE result = "err" /\ UNCHANGED disk

Rmdir(t, p, result) ==
  IF Lstat(p) = "dir" /\ Entries(Real(p)) = {}
  THEN result = "ok" /\ Put(t, p, "none")
  ELSE result = "err" /\ UNCHANGED disk

(* open with O_CREAT, as File::create does.                                *)
OpenCreate(t, p, result) ==
  IF Lstat(p) = "none" /\ ~BadPrefix(p)
  THEN result = "ok" /\ Put(t, p, "file")
  ELSE /\ result = IF Stat(p) = "file" THEN "ok" ELSE "err"
       /\ UNCHANGED disk

(* A directory replaces an empty one only, anything else no directory.     *)
Rename(t, from, to, result) ==
  LET f == Real(from)
      g == Real(to)
      fits == IF tree[f] = "dir"
              THEN tree[g] = "none" \/ (tree[g] = "dir" /\ Entries(g) = {})
              ELSE tree[g] # "dir"
  IN  IF Lstat(from) = "none" \/ BadPrefix(to) \/ IsStrictPrefix(f, g) \/ (f # g /\ ~fits)
      THEN result = "err" /\ UNCHANGED disk
      ELSE IF f = g THEN result = "ok" /\ UNCHANGED disk
      ELSE /\ result = "ok"
           /\ tree' = Moved(tree, f, g, "none")
           /\ node' = Moved(node, f, g, <<>>)
           /\ changes' = changes \cup
                {<<t, p, tree'[p]>> : p \in {q \in Paths : <<tree'[q], node'[q]>> # <<tree[q], node[q]>>}}
           /\ UNCHANGED made

Symlink(t, p, result) ==
  IF BadPrefix(p) \/ Lstat(p) # "none" THEN result = "err" /\ UNCHANGED disk
  ELSE result = "ok" /\ Put(t, p, "link")

-----------------------------------------------------------------------------
(* at: where the frame's function is;  seen, buf, open: its ReadDir, that   *)
(* is, the names the kernel gave so far, the records not yet looked at,    *)
(* and the directory it has open, <<>> when that is a file.                *)
Frame(op, p, at) ==
  [op |-> op, path |-> p, at |-> at, seen |-> {}, buf |-> {}, open |-> <<>>]

TypeOK ==
  /\ tree \in [Paths -> Kinds] /\ made \in Nat /\ typed \in BOOLEAN /\ text \in Texts
  /\ \A p \in Paths : node[p] # <<>> <=> tree[p] = "dir"
  /\ task \in [Threads -> Tasks]
  /\ ret \in [Threads -> {"none", "ok", "err"}]
  /\ \A t \in Threads : \A i \in DOMAIN stack[t] :
       /\ stack[t][i].path \in Paths
       /\ stack[t][i].at \in {"call", "stat", "mkdir", "open", "list", "entry", "rmdir"}

FirstStep(op) ==
  CASE op = "create_dir_all" -> "stat"
    [] op = "remove_dir_all" -> "open"
    [] OTHER -> "call"

(* "swap" is another program: it renames, then puts a link there.          *)
Frames(k) ==
  IF k.op = "swap" THEN <<Frame("symlink", k.path, "call"), Frame("rename", k.path, "call")>>
  ELSE <<Frame(k.op, k.path, FirstStep(k.op))>>

(* The paths the calls are given are str.                                  *)
IsText(p) == \A i \in DOMAIN p : p[i] \in Names => text[p[i]] = p[i]

Init ==
  /\ tree \in Trees
  /\ node = [p \in Paths |-> IF tree[p] = "dir" THEN <<p, 0>> ELSE <<>>]
  /\ made = 0
  /\ typed \in BOOLEAN /\ text \in Texts
  /\ task \in [Threads -> {k \in Tasks : IsText(k.path)}]
  /\ stack = [t \in Threads |-> Frames(task[t])]
  /\ ret = [t \in Threads |-> "none"]
  /\ changes = {<<"init", p, tree[p]>> : p \in {q \in Paths : tree[q] # "none"}}

Top(t) == Last(stack[t])
At(t, op, l) == stack[t] # <<>> /\ Top(t).op = op /\ Top(t).at = l
SetTop(t, f) == Append(Front(stack[t]), f)
Goto(t, l) == SetTop(t, [Top(t) EXCEPT !.at = l])

(* The innermost function returns: its caller goes on after an Ok and, by  *)
(* the `?` operator, returns too after an Err.                             *)
Returns(t, result) ==
  IF result = "ok"
  THEN /\ stack' = [stack EXCEPT ![t] = Front(@)]
       /\ ret' = IF Len(stack[t]) = 1 THEN [ret EXCEPT ![t] = "ok"] ELSE ret
  ELSE stack' = [stack EXCEPT ![t] = <<>>] /\ ret' = [ret EXCEPT ![t] = "err"]

(* create_dir, remove_dir, remove_file, rename and File::create, and what  *)
(* links.                                                                  *)
Simple(t) ==
  /\ stack[t] # <<>> /\ Top(t).at = "call"
  /\ \E result \in {"ok", "eexist", "err"} :
       /\ \/ Top(t).op = "create_dir" /\ Mkdir(t, Top(t).path, result)
          \/ Top(t).op = "remove_dir" /\ Rmdir(t, Top(t).path, result)
          \/ Top(t).op = "remove_file" /\ Unlink(t, Top(t).path, result)
          \/ Top(t).op = "rename" /\ Rename(t, Top(t).path, task[t].to, result)
          \/ Top(t).op = "symlink" /\ Symlink(t, Top(t).path, result)
          \/ Top(t).op = "create" /\ OpenCreate(t, Top(t).path, result)
       /\ Returns(t, result)
  /\ UNCHANGED <<typed, text, task>>

(* create_dir_all: a directory is enough; otherwise the parent comes first *)
CreateStat(t) ==
  /\ At(t, "create_dir_all", "stat")
  /\ LET p == Top(t).path
     IN  IF Stat(p) = "dir" THEN Returns(t, "ok")
         ELSE /\ stack' = [stack EXCEPT ![t] = Goto(t, "mkdir") \o
                 (IF Len(p) = 1 THEN <<>> ELSE <<Frame("create_dir_all", Front(p), "stat")>>)]
              /\ UNCHANGED ret
  /\ UNCHANGED <<disk, typed, text, task>>

(* create_dir_all: mkdir; AlreadyExists is as good as Ok.                  *)
CreateMkdir(t) ==
  /\ At(t, "create_dir_all", "mkdir")
  /\ \E result \in {"ok", "eexist", "err"} :
       /\ Mkdir(t, Top(t).path, result)
       /\ Returns(t, IF result = "eexist" THEN "ok" ELSE result)
  /\ UNCHANGED <<typed, text, task>>

(* read_dir: open follows a link, and opens a file as well.                *)
OpenDir(t) ==
  /\ At(t, "remove_dir_all", "open")
  /\ LET p == Top(t).path
     IN  IF Stat(p) = "none" THEN Returns(t, "err")
         ELSE /\ stack' = [stack EXCEPT ![t] =
                   SetTop(t, [Top(t) EXCEPT !.at = "list",
                     !.open = node[IF Lstat(p) = "link" THEN <<Out>> ELSE Real(p)]])]
              /\ UNCHANGED ret
  /\ UNCHANGED <<disk, typed, text, task>>

(* Where the directory is that a ReadDir has open, wherever it was moved;  *)
(* nowhere if it was removed or is a file.                                 *)
Places(f) == {p \in Paths : f.open # <<>> /\ node[p] = f.open}

(* ReadDir::next: the buffer is used up, getdirentries fills it with up to *)
(* Batch records of entries it has not given yet, and next skips "." and   *)
(* "..".  A directory that was removed has no entries, or gives an error,  *)
(* as a file does.                                                         *)
ReadDirRefill(t) ==
  /\ At(t, "remove_dir_all", "list")
  /\ LET f == Top(t)
         left == UNION {Entries(p) \cup {".", ".."} : p \in Places(f)} \ f.seen
         type(n) == IF typed THEN tree[Append(CHOOSE p \in Places(f) : TRUE, n)] ELSE "unknown"
     IN  \/ /\ left = {} /\ f.open # <<>>
            /\ stack' = [stack EXCEPT ![t] = Goto(t, "rmdir")] /\ UNCHANGED ret
         \/ Places(f) = {} /\ Returns(t, "err")
         \/ \E S \in SUBSET left :
              /\ S # {} /\ Cardinality(S) <= Batch
              /\ stack' = [stack EXCEPT ![t] = SetTop(t, [f EXCEPT
                   !.at = IF S \subseteq {".", ".."} THEN "list" ELSE "entry",
                   !.seen = @ \cup S,
                   !.buf = {<<n, type(n)>> : n \in S \ {".", ".."}}])]
              /\ UNCHANGED ret
  /\ UNCHANGED <<disk, typed, text, task>>

(* The record at the front of the buffer, its path, whose name is what     *)
(* from_utf8_lossy made of the entry's, and the frame once it is dealt     *)
(* with.                                                                   *)
Record(t) == CHOOSE rec \in Top(t).buf : TRUE
Entry(t) == Append(Top(t).path, text[Record(t)[1]])
Advance(t) ==
  SetTop(t, [Top(t) EXCEPT !.buf = @ \ {Record(t)},
                           !.at = IF Top(t).buf = {Record(t)} THEN "list" ELSE "entry"])

(* DirEntry::file_type: a type the record does not have is looked up.      *)
LooksUp(t, kind) ==
  /\ At(t, "remove_dir_all", "entry") /\ Record(t)[2] = "unknown"
  /\ IF kind = "none" THEN Returns(t, "err")
     ELSE /\ stack' = [stack EXCEPT ![t] = SetTop(t, [Top(t) EXCEPT
               !.buf = (@ \ {Record(t)}) \cup {<<Record(t)[1], kind>>}])]
          /\ UNCHANGED ret
  /\ UNCHANGED <<disk, typed, text, task>>

FileTypeFollows(t) == LooksUp(t, Stat(Entry(t)))

(* It does so with symlink_metadata.                                       *)
FileType(t) == LooksUp(t, Lstat(Entry(t)))

(* remove_dir_all calls itself for a directory ...                         *)
Descend(t) ==
  /\ At(t, "remove_dir_all", "entry") /\ Record(t)[2] = "dir"
  /\ stack' = [stack EXCEPT ![t] =
                 Append(Advance(t), Frame("remove_dir_all", Entry(t), "open"))]
  /\ UNCHANGED <<disk, typed, text, task, ret>>

(* ... and remove_file for anything else, a link included.                 *)
RemoveEntry(t) ==
  /\ At(t, "remove_dir_all", "entry") /\ Record(t)[2] \in {"file", "link"}
  /\ \E result \in {"ok", "err"} :
       /\ Unlink(t, Entry(t), result)
       /\ IF result = "ok"
          THEN stack' = [stack EXCEPT ![t] = Advance(t)] /\ UNCHANGED ret
          ELSE Returns(t, "err")
  /\ UNCHANGED <<typed, text, task>>

(* remove_dir_all: the directory itself.                                   *)
RemoveDir(t) ==
  /\ At(t, "remove_dir_all", "rmdir")
  /\ \E result \in {"ok", "err"} : Rmdir(t, Top(t).path, result) /\ Returns(t, result)
  /\ UNCHANGED <<typed, text, task>>

Step(t) ==
  \/ Simple(t) \/ CreateStat(t) \/ CreateMkdir(t)
  \/ OpenDir(t) \/ ReadDirRefill(t) \/ FileType(t) \/ Descend(t) \/ RemoveEntry(t)
  \/ RemoveDir(t)

Next == \E t \in Threads : Step(t)

Spec == Init /\ [][Next]_vars

-----------------------------------------------------------------------------
(* Did someone else put one of `kinds` on the way to the path of t's call? *)
Disturbed(t, kinds) ==
  \E c \in changes :
    /\ c[1] # t /\ c[3] \in kinds
    /\ IsPrefix(c[2], task[t].path) \/ IsPrefix(c[2], Real(task[t].path))

(* create_dir_all: calls that make overlapping paths at the same time all  *)
(* return Ok and find their directories made, whoever made them: a call    *)
(* fails, or leaves no directory, only where a file is in the way or       *)
(* someone removed what it had made.                                       *)
CreateMakesDirs ==
  \A t \in Threads :
    task[t].op = "create_dir_all" /\ ~Disturbed(t, {"none", "file"}) =>
      ret[t] # "err" /\ (ret[t] = "ok" => Stat(task[t].path) = "dir")

(* remove_dir_all: it removes nothing outside the directory it is given,   *)
(* in particular nothing that a link inside leads to, whoever creates,     *)
(* removes or renames meanwhile.  (Given a link, it empties what that      *)
(* leads to.)  Without disturbance it succeeds, and nothing of the         *)
(* directory is left: the listing it deletes from skips no entry.  Two     *)
(* things are asked for: that nobody else puts a link into the directory,  *)
(* by a rename or otherwise, as between the look at an entry's type and    *)
(* read_dir; and that the names in it are UTF-8, for it deletes what the   *)
(* lossy name leads to.                                                    *)
Under(t, p) ==
  \/ IsPrefix(task[t].path, p)
  \/ <<"init", task[t].path, "link">> \in changes /\ IsPrefix(<<Out>>, p)
LinkPut(t) == \E c \in changes : c[1] \notin {"init", t} /\ c[3] = "link" /\ Under(t, c[2])
AllText(t) == \A c \in changes : Under(t, c[2]) => IsText(c[2])
RemoveExact ==
  \A t \in Threads :
    task[t].op = "remove_dir_all" /\ AllText(t) =>
      /\ ~LinkPut(t) => \A c \in changes : c[1] = t => Under(t, c[2])
      /\ <<"init", task[t].path, "dir">> \in changes /\ ~(\E c \in changes : c[1] \in Threads \ {t}) =>
           /\ ret[t] # "err"
           /\ ret[t] = "ok" => \A p \in Paths : IsPrefix(task[t].path, p) => tree[p] = "none"

(* create_dir_all makes the whole path, and remove_dir_all removes the     *)
(* whole directory and nothing else, under the conditions above.           *)
DirsExact == CreateMakesDirs /\ RemoveExact

(* "Recursively create a directory and all of its parents": after Ok there *)
(* is a directory, as long as nobody removes it.                           *)
OkMeansDirectory ==
  \A t \in Threads :
    task[t].op = "create_dir_all" /\ ret[t] = "ok" => Stat(task[t].path) = "dir"
=============================================================================
