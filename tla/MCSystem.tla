------------------------------ MODULE MCSystem ------------------------------
(***************************************************************************)
(* What talks to the system, side by side: paths, directories, sockets,    *)
(* the resolver, the environment, timeouts and the clocks.  A behaviour is *)
(* a behaviour of the one that `unit` names, while the others rest in an   *)
(* initial state.  The names of Net are as they are in Net, those of the   *)
(* environment, the timeouts and the clocks as in the proof modules.       *)
(***************************************************************************)
EXTENDS SystemProofs, EnvProofs

CONSTANTS Letters, MaxArg, MaxPath,     \* see Path
          MaxDepth, Batch,              \* see Fs
          Bad, Ports, Cuts, MaxDup, MaxFaults      \* see Resolver

VARIABLES unit,
          path, was, called,
          tree, node, made, typed, text, task, stack, ret, changes,
          host, rpc, qtype, port, id, found, net, dup, faults, lost, stale, hurt

-----------------------------------------------------------------------------
(* Fs: an empty tree, one with a link to elsewhere deep in it, one with    *)
(* links at the top and a file in the way, and one with a link beside a    *)
(* directory; names that are all text, or "b" not UTF-8 and shown as "a".  *)
Files == {"a", "b"}
Tops == Files \cup {"out"}
Everywhere == {<<x>> : x \in Tops} \cup (Tops \X Files) \cup (Tops \X Files \X Files)
Tree(ds, fs, ls) ==
  [p \in Everywhere |->
     CASE p \in ds \cup {<<"out">>} -> "dir"
       [] p \in fs \cup {<<"out", "a">>} -> "file"
       [] p \in ls -> "link"
       [] OTHER -> "none"]
Trees == {Tree({}, {}, {}),
          Tree({<<"a">>, <<"a", "b">>}, {<<"a", "a">>}, {<<"a", "b", "b">>}),
          Tree({<<"a">>}, {<<"a", "b">>}, {<<"b">>, <<"a", "a">>}),
          Tree({<<"a">>, <<"a", "b">>}, {}, {<<"a", "a">>})}
Shown == {[n \in Files |-> n], [n \in Files |-> "a"]}
Tasks ==
  [op : {"create_dir_all"}, path : {<<"a", "b", "a">>, <<"b", "a">>, <<"a", "b">>}]
  \cup [op : {"create_dir"}, path : {<<"a">>}]
  \cup [op : {"remove_dir_all"}, path : {<<"a">>, <<"b">>}]
  \cup [op : {"rename", "swap"}, path : {<<"a", "b">>}, to : {<<"b">>}]
  \cup [op : {"remove_dir", "create"}, path : {<<"a", "b">>}]
  \cup [op : {"remove_file"}, path : {<<"a", "a">>}]

(* Net: no address, one, and one of each family.                           *)
AddrLists == {<<>>, <<"v4">>, <<"v4", "v6">>}

(* Resolver: a host with an alias and IPv4 addresses, one with IPv6 ones,  *)
(* one that /etc/hosts has (on a line that does not parse, first), in two  *)
(* spellings, a name that is none, and an address.                         *)
Hosts == {"four", "six", "local", "LOCAL", "a..b", "::1"}
Lower == [h \in Hosts |-> IF h = "LOCAL" THEN "local" ELSE h]
HostsFile == <<[ip |-> Bad, names |-> {"local"}], [ip |-> "lo", names |-> {"local"}],
               [ip |-> "lo2", names |-> {"local"}]>>
ResolvConf == <<Bad, "ns">>
Zone ==
  [h \in Hosts |->
     CASE h = "four" -> <<[type |-> 3, data |-> 7], [type |-> 1, data |-> 11], [type |-> 1, data |-> 12]>>
       [] h = "six" -> <<[type |-> 2, data |-> 13], [type |-> 2, data |-> 14]>>
       [] OTHER -> <<>>]

(* Env: the loader's vector has a variable twice and an entry without '='; *)
(* the Commands keep or clear what they inherit; HOME=bin has a NUL.       *)
MCOrder == <<"HOME", "PATH">>
MCValues == {<<"bin">>, <<"", "sbin", "usr">>}
MCDefault == <<"usr">>
MCEnvp == <<<<"HOME", <<"bin">>>>, <<"junk">>, <<"HOME", <<"", "sbin", "usr">>>>>>
MCNul == {<<"HOME", <<"bin">>>>}
MCRequests ==
  [op : {"var"}, key : {"HOME"}] \cup [op : {"remove_var"}, key : {"PATH"}]
  \cup [op : {"set_var"}, key : {"HOME", "PATH"}, value : MCValues]
  \cup {[op |-> "spawn", slash |-> s, clear |-> FALSE, env |-> [HOME |-> Keep, PATH |-> Keep]] :
           s \in BOOLEAN}
  \cup {[op |-> "spawn", slash |-> FALSE, clear |-> TRUE, env |-> [HOME |-> <<"bin">>, PATH |-> Unset]]}

-----------------------------------------------------------------------------
P == INSTANCE Path
F == INSTANCE Fs WITH Names <- Files, Out <- "out", Texts <- Shown
R == INSTANCE Resolver WITH Names <- Hosts, Numeric <- {"::1"},
                            BadLabel <- {"a..b"}, pc <- rpc, out <- found

ASSUME SystemAssumption ==
  /\ P!PathAssumption /\ F!FsAssumption /\ NetAssumption
  /\ R!ResolverAssumption /\ E!EnvAssumption /\ T!TimeoutAssumption
  /\ C!ClockAssumption

pathVars == <<path, was, called>>
fsVars == <<tree, node, made, typed, text, task, stack, ret, changes>>
resolverVars == <<host, rpc, qtype, port, id, found, net, dup, faults, lost, stale, hurt>>
envVars == <<map, seeded, owner, epc, req, eat, copy, dirs, eout, hist, span, ecalls>>
timeVars == <<target, call, secs, nanos, now, tpc, alarm, left, early>>
clockVars == <<board, time, wall, mark, got>>
allVars == <<unit, pathVars, fsVars, vars, resolverVars, envVars, timeVars, clockVars>>

MCInit ==
  /\ unit \in {"path", "fs", "net", "resolver", "env", "timeout", "clock"}
  /\ unit # "path" => path = <<>>
  /\ unit # "fs" => /\ tree = CHOOSE t \in Trees : TRUE
                    /\ typed = TRUE /\ text = [n \in Files |-> n]
                    /\ task = [t \in Threads |-> CHOOSE k \in Tasks : TRUE]
  /\ unit # "resolver" => host = [t \in Threads |-> "::1"]
  /\ unit # "timeout" => target = "linux" /\ call = "sleep" /\ secs = 0 /\ nanos = 0
  /\ unit # "clock" => board = "linux" /\ wall = 0
  /\ P!Init /\ F!Init /\ Init /\ R!Init /\ E!Init /\ T!Init /\ C!Init

MCNext ==
  /\ \/ unit = "path" /\ P!Next
     \/ unit = "fs" /\ F!Next
     \/ unit = "net" /\ Next
     \/ unit = "resolver" /\ R!Next
     \/ unit = "env" /\ E!Next
     \/ unit = "timeout" /\ T!Next
     \/ unit = "clock" /\ C!Next
  /\ unit # "path" => UNCHANGED pathVars
  /\ unit # "fs" => UNCHANGED fsVars
  /\ unit # "net" => UNCHANGED vars
  /\ unit # "resolver" => UNCHANGED resolverVars
  /\ unit # "env" => UNCHANGED envVars
  /\ unit # "timeout" => UNCHANGED timeVars
  /\ unit # "clock" => UNCHANGED clockVars
  /\ UNCHANGED unit

MCSpec == MCInit /\ [][MCNext]_allVars

FsSpec == unit = "fs" /\ MCSpec

-----------------------------------------------------------------------------
(* Path: push, pop, set_file_name, set_extension, ancestors and            *)
(* strip_prefix do to the components what they say.                        *)
PathLaws == unit = "path" => P!PathLaws

(* Fs: create_dir_all makes the whole path and remove_dir_all removes the  *)
(* whole directory and nothing else, while other calls create, remove and  *)
(* rename in the tree, as long as no link is put and names are UTF-8.      *)
DirsExact == unit = "fs" => F!DirsExact

(* Resolver: a host's own addresses, over a network that loses,            *)
(* duplicates, reorders and cuts and with calls that fail; only a lost     *)
(* datagram hangs resolve.                                                 *)
Resolves == unit = "resolver" => R!Resolves

(* Fs: after create_dir_all's Ok there is a directory.                     *)
OkMeansDirectory == unit = "fs" => F!OkMeansDirectory
=============================================================================
