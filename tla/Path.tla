-------------------------------- MODULE Path --------------------------------
(***************************************************************************)
(* Path and PathBuf: text operations on '/'-separated names, read against  *)
(* the components the same text denotes.  A path is a sequence of          *)
(* characters; the only ones the code looks at are '/' and '.'.            *)
(***************************************************************************)
EXTENDS Naturals, Sequences, SequencesExt

CONSTANTS Letters,    \* the characters that are neither '/' nor '.'
          MaxArg,     \* bound: the length of an argument
          MaxPath     \* bound: the length of a buffer an operation starts from

Sep == "/"
Dot == "."
NoPath == <<"None">>

Chars == Letters \cup {Sep, Dot}
PathAssumption == Sep \notin Letters /\ Dot \notin Letters /\ MaxArg <= MaxPath

VARIABLES path,       \* the PathBuf
          was,        \* its text before the last call
          called      \* that call: its name, its argument and its result

vars == <<path, was, called>>

(* rfind(c), from 1; 0 when there is none.                                 *)
RFind(s, c) == SelectLastInSeq(s, LAMBDA x : x = c)
From(s, i) == SubSeq(s, i, Len(s))
TrimEnd(s) == SubSeq(s, 1, SelectLastInSeq(s, LAMBDA x : x # Sep))
TrimStart(s) == LET i == SelectInSeq(s, LAMBDA x : x # Sep)
                IN  IF i = 0 THEN <<>> ELSE From(s, i)

IsAbsolute(p) == p # <<>> /\ Head(p) = Sep

FileName(p) ==
  IF p = <<>> \/ Last(p) = Sep THEN NoPath ELSE From(p, RFind(p, Sep) + 1)

(* None when the text, without trailing separators, has no separator.      *)
Parent(p) ==
  LET trimmed == TrimEnd(p)
      i == RFind(trimmed, Sep)
  IN  IF i = 0 THEN NoPath
      ELSE IF i = 1 THEN <<Sep>> ELSE SubSeq(trimmed, 1, i - 1)

(* The file name without its extension, and the extension; a leading dot   *)
(* does not start one.                                                     *)
FileStem(p) ==
  LET name == FileName(p)
  IN  IF name = NoPath \/ RFind(name, Dot) <= 1 THEN name
      ELSE SubSeq(name, 1, RFind(name, Dot) - 1)

Extension(p) ==
  LET name == FileName(p)
  IN  IF name = NoPath \/ RFind(name, Dot) <= 1 THEN NoPath
      ELSE From(name, RFind(name, Dot) + 1)

PushRootsEmpty(p, q) ==
  IF IsAbsolute(q) THEN q
  ELSE IF p = <<>> \/ Last(p) # Sep THEN p \o <<Sep>> \o q ELSE p \o q

(* push: an absolute argument replaces the buffer.                         *)
Push(p, q) ==
  IF IsAbsolute(q) THEN q
  ELSE IF p # <<>> /\ Last(p) # Sep THEN p \o <<Sep>> \o q ELSE p \o q

(* pop leaves a path without a parent alone.                               *)
Pop(p) == IF Parent(p) = NoPath THEN p ELSE Parent(p)

SetFileName(p, name) == Push(IF FileName(p) # NoPath THEN Pop(p) ELSE p, name)

SetExtension(p, ext) ==
  IF FileStem(p) = NoPath THEN p
  ELSE SetFileName(p, FileStem(p) \o (IF ext = <<>> THEN <<>> ELSE <<Dot>> \o ext))

StartsWith(p, b) ==
  LET base == TrimEnd(b)
      me == TrimEnd(p)
  IN  base = <<>> \/ me = base \/ IsPrefix(Append(base, Sep), me)

(* strip_prefix compares text: no separator need follow the base.          *)
StripPrefix(p, b) ==
  LET base == TrimEnd(b)
  IN  IF base = <<>> THEN p
      ELSE IF IsPrefix(base, p) THEN TrimStart(From(p, Len(base) + 1)) ELSE NoPath

EndsWith(p, c) ==
  LET child == TrimStart(TrimEnd(c))
      me == TrimEnd(p)
  IN  me = child \/ IsSuffix(<<Sep>> \o child, me)

WithFileName(p, name) == IF Parent(p) = NoPath THEN name ELSE Push(Parent(p), name)

(* Components::next until it returns None: the segments that are not "."   *)
RECURSIVE Segments(_)
Segments(text) ==
  LET rest == TrimStart(text)
      i == SelectInSeq(rest, LAMBDA x : x = Sep)
      end == IF i = 0 THEN Len(rest) ELSE i - 1
      seg == SubSeq(rest, 1, end)
  IN  IF rest = <<>> THEN <<>>
      ELSE (IF seg = <<Dot>> THEN <<>> ELSE <<seg>>) \o Segments(From(rest, end + 1))

Components(p) == (IF IsAbsolute(p) THEN <<<<Sep>>>> ELSE <<>>) \o Segments(p)

(* Ancestors::next until it returns None: the path, its parent, ...        *)
RECURSIVE Ancestors(_)
Ancestors(p) ==
  <<p>> \o (IF Parent(p) = NoPath THEN <<>> ELSE Ancestors(Parent(p)))

Init ==
  /\ path \in BoundedSeq(Chars, MaxPath)
  /\ was = path
  /\ called = [op |-> "none", arg |-> <<>>, ret |-> TRUE]

Does(op, arg, ret, new) ==
  /\ was' = path
  /\ path' = new
  /\ called' = [op |-> op, arg |-> arg, ret |-> ret]

Next ==
  /\ Len(path) <= MaxPath
  /\ \/ Does("pop", <<>>, Parent(path) # NoPath, Pop(path))
     \/ \E arg \in BoundedSeq(Chars, MaxArg) :
          \/ Does("push", arg, TRUE, Push(path, arg))
          \/ Does("set_file_name", arg, TRUE, SetFileName(path, arg))
          \/ Does("set_extension", arg, FileStem(path) # NoPath, SetExtension(path, arg))

Spec == Init /\ [][Next]_vars

-----------------------------------------------------------------------------
(* A single name, and a text whose last segment is a "." that denotes      *)
(* nothing.                                                                *)
IsName(s) == s # <<>> /\ s # <<Dot>> /\ RFind(s, Sep) = 0
EndsInDot(p) == FileName(TrimEnd(p)) = <<Dot>>

(* The components after a new file name: it takes the place of the last    *)
(* one, but is added when the text has no file name (it ends in a          *)
(* separator), is a single relative name, which pop refuses, or ends in a  *)
(* ".".                                                                    *)
Renamed(p, name) ==
  IF FileName(p) = NoPath \/ Parent(p) = NoPath \/ EndsInDot(p)
  THEN Append(Components(p), name) ELSE Append(Front(Components(p)), name)

(* What the text operations mean in components.  push appends components,  *)
(* or starts over at the root.  pop removes exactly the last component,    *)
(* and refuses only a path of at most one.  set_file_name replaces the     *)
(* last component or adds one, as above; with_file_name also replaces a    *)
(* single relative name.  set_extension keeps the stem, renames the last   *)
(* component the way set_file_name does (so that a single relative name    *)
(* gets a second component), and refuses only a text without a file name.  *)
(* Separators that trail, lead or are doubled make no difference but for   *)
(* that: after a trailing one there is no file name.                       *)
EditLaws ==
  LET old == Components(was)
      new == Components(path)
      arg == called.arg
  IN  /\ called.op = "push" =>
           new = IF IsAbsolute(arg) THEN Components(arg) ELSE old \o Components(arg)
      /\ called.op = "pop" =>
           IF called.ret
           THEN new = IF EndsInDot(was) THEN old ELSE Front(old)
           ELSE path = was /\ Len(old) <= 1
      /\ called.op = "set_file_name" /\ IsName(arg) => new = Renamed(was, arg)
      /\ called.op = "set_file_name" /\ IsName(arg) /\ FileName(was) # NoPath =>
           /\ Components(WithFileName(was, arg)) =
                IF EndsInDot(was) THEN Append(old, arg) ELSE Append(Front(old), arg)
           /\ EndsWith(path, arg)
      /\ called.op = "set_extension" /\ ~called.ret => path = was /\ FileName(was) = NoPath
      /\ called.op = "set_extension" /\ IsName(arg) /\ called.ret /\ RFind(arg, Dot) = 0 =>
           /\ FileStem(path) = FileStem(was) /\ Extension(path) = arg
           /\ new = Renamed(was, FileStem(was) \o <<Dot>> \o arg)

(* starts_with, strip_prefix and ancestors agree with each other and with  *)
(* the components: each ancestor of a path is a prefix of it, whose rest   *)
(* joined to it denotes the path again, and the last ancestor has no       *)
(* component but the root or one name.                                     *)
AncestorLaws ==
  LET as == Ancestors(path)
  IN  /\ Len(Components(as[Len(as)])) <= 1
      /\ \A i \in DOMAIN as :
           LET a == as[i]
               rest == StripPrefix(path, a)
           IN  /\ StartsWith(path, a)
               /\ rest # NoPath
               /\ IsPrefix(Components(a), Components(path))
               /\ TrimEnd(a) # <<>> => Components(Push(a, rest)) = Components(path)

(* Every operation on paths means the same to the components.              *)
PathLaws == EditLaws /\ AncestorLaws
=============================================================================
