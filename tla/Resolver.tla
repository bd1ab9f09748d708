------------------------------ MODULE Resolver ------------------------------
(***************************************************************************)
(* net::resolve: a numeric address, /etc/hosts, then DNS over UDP.  Each   *)
(* query has a socket of its own, at a port that may have been another's;  *)
(* datagrams may be lost, duplicated, reordered and cut short.  A message  *)
(* is a sequence of bytes, with the fields the parser reads in as few      *)
(* bytes as keep them apart: 2 for the header's 12, 1 for the 4 after a    *)
(* question's name, 2 for the 10 after a record's, and 1 or 2 for the      *)
(* address of an A or AAAA record.                                         *)
(***************************************************************************)
EXTENDS Naturals, Sequences, FiniteSets, SequencesExt

CONSTANTS Threads,
          Names, Lower,   \* host names, and each in lower case
          Numeric,        \* the host names that are addresses
          BadLabel,       \* the host names with an empty or an overlong label
          HostsFile,      \* the lines of /etc/hosts: [ip, names]
          ResolvConf,     \* the lines of /etc/resolv.conf
          Bad,            \* what does not parse as an address
          Zone,           \* the records [type, data] the server has of a name
          Ports,          \* the local ports
          Cuts,           \* bytes a cut answer may lack
          MaxDup,         \* bound: datagrams duplicated
          MaxFaults       \* bound: calls that fail

A == 1
AAAA == 2
CNAME == 3
Label == 1      \* a length byte
Ptr == 9        \* the first byte of a compression pointer
Size(type) == IF type = AAAA THEN 2 ELSE 1

ResolverAssumption ==
  /\ Lower \in [Names -> Names] /\ Numeric \cup BadLabel \subseteq Names
  /\ MaxDup \in Nat /\ MaxFaults \in Nat
  /\ \A n \in Names : \A i \in DOMAIN Zone[n] : Zone[n][i].type \in {A, AAAA, CNAME}

VARIABLES host,       \* the name each thread resolves
          pc,         \* where it is
          qtype,      \* the type of its query
          port,       \* the local port of its query's socket, 0: none
          id,         \* its queries so far: <<t, id[t]>> stands for the random id
          out,        \* the addresses it has
          net,        \* datagrams on their way
          dup, faults,    \* duplicates, and calls that failed, so far
          lost,       \* ghost: the queries whose datagram was lost
          stale,      \* ghost: who took the answer to another query
          hurt        \* ghost: who had a call fail or an answer cut short

vars == <<host, pc, qtype, port, id, out, net, dup, faults, lost, stale, hurt>>

-----------------------------------------------------------------------------
(* skip_name: the position after the name at p, or 0.                      *)
RECURSIVE SkipName(_, _)
SkipName(msg, p) ==
  IF p > Len(msg) THEN 0
  ELSE IF msg[p] = Ptr THEN p + 2
  ELSE IF msg[p] = 0 THEN p + 1
  ELSE SkipName(msg, p + 1 + msg[p])

RECURSIVE SkipQuestions(_, _, _)
SkipQuestions(msg, p, n) ==
  IF n = 0 \/ p = 0 THEN p
  ELSE LET q == SkipName(msg, p)
       IN  SkipQuestions(msg, IF q = 0 THEN 0 ELSE q + 1, n - 1)

(* The loop over the answers; <<Bad>> is parse_dns_answers' None.          *)
RECURSIVE AnswersFrom(_, _, _, _, _)
AnswersFrom(msg, p, n, type, found) ==
  LET q == SkipName(msg, p)
      d == q + 2                            \* the record's data
      len == msg[q + 1]
  IN  IF n = 0 THEN found
      ELSE IF q = 0 THEN <<Bad>>
      ELSE IF d - 1 > Len(msg) \/ d + len - 1 > Len(msg) THEN found
      ELSE AnswersFrom(msg, d + len, n - 1, type,
             IF msg[q] = type /\ len = Size(type) THEN Append(found, msg[d]) ELSE found)

ParseBrokenSkip(msg, type) ==
  LET p == IF Len(msg) < 2 THEN 0 ELSE SkipQuestions(msg, 3, msg[1])
  IN  IF p = 0 THEN <<Bad>> ELSE AnswersFrom(msg, p, msg[2], msg[p + 1], <<>>)

ParseDnsAnswers(msg, type) ==
  LET p == IF Len(msg) < 2 THEN 0 ELSE SkipQuestions(msg, 3, msg[1])
  IN  IF p = 0 THEN <<Bad>> ELSE AnswersFrom(msg, p, msg[2], type, <<>>)

-----------------------------------------------------------------------------
(* The server's reply: the question, and the records of that type with the *)
(* aliases among them; the names are pointers to the question's, written   *)
(* out after an alias.                                                     *)
Relevant(h, type) == SelectSeq(Zone[h], LAMBDA r : r.type \in {type, CNAME})
Record(r) ==
  (IF r.type = CNAME THEN <<Ptr, 0>> ELSE <<Label, 7, 0>>)
    \o <<r.type, Size(r.type)>> \o [i \in 1..Size(r.type) |-> r.data]
Replies ==
  [h \in Names, type \in {A, AAAA} |->
     LET rs == Relevant(h, type)
     IN  <<1, Len(rs), Label, 7, 0, type>> \o FlattenSeq([i \in DOMAIN rs |-> Record(rs[i])])]
Reply(h, type) == Replies[h, type]

Datas(h, type) ==
  LET rs == SelectSeq(Zone[h], LAMBDA r : r.type = type) IN [i \in DOMAIN rs |-> rs[i].data]

-----------------------------------------------------------------------------
(* hosts_lookup: the address of the first line that has the name and whose *)
(* address parses.                                                         *)
HostsLines(h) ==
  SelectSeq(HostsFile, LAMBDA l : l.ip # Bad /\ \E n \in l.names : Lower[n] = Lower[h])

HaveNameserver == \E i \in DOMAIN ResolvConf : ResolvConf[i] # Bad

PC == {"start", "hosts", "conf", "query", "send", "recv", "done"}
TypeOK ==
  /\ host \in [Threads -> Names] /\ pc \in [Threads -> PC]
  /\ qtype \in [Threads -> {A, AAAA}] /\ port \in [Threads -> Ports \cup {0}]
  /\ id \in [Threads -> 0..2] /\ stale \cup hurt \subseteq Threads
  /\ \A d \in net : d.port \in Ports /\ d.id[2] \in 1..id[d.id[1]]

Init ==
  /\ host \in [Threads -> Names]
  /\ pc = [t \in Threads |-> "start"]
  /\ qtype = [t \in Threads |-> A]
  /\ port = [t \in Threads |-> 0]
  /\ id = [t \in Threads |-> 0]
  /\ out = [t \in Threads |-> <<>>]
  /\ net = {} /\ dup = 0 /\ faults = 0 /\ lost = {} /\ stale = {} /\ hurt = {}

Goto(t, l) == pc' = [pc EXCEPT ![t] = l]

(* A call fails, if b.                                                     *)
Faults(t, b) ==
  /\ b => faults < MaxFaults
  /\ faults' = IF b THEN faults + 1 ELSE faults
  /\ hurt' = IF b THEN hurt \cup {t} ELSE hurt

Finish(t, addrs) == Goto(t, "done") /\ out' = [out EXCEPT ![t] = addrs]

(* resolve: a numeric address needs no lookup.                             *)
Start(t) ==
  /\ pc[t] = "start"
  /\ IF host[t] \in Numeric THEN Finish(t, <<host[t]>>) ELSE Goto(t, "hosts") /\ UNCHANGED out
  /\ UNCHANGED <<host, qtype, port, id, net, dup, faults, lost, stale, hurt>>

(* resolve: /etc/hosts.  One that cannot be opened or read, or is not      *)
(* UTF-8, is as good as an empty one.                                      *)
LookInHosts(t) ==
  /\ pc[t] = "hosts"
  /\ \E readable \in BOOLEAN :
       /\ IF readable /\ HostsLines(host[t]) # <<>>
          THEN Finish(t, <<Head(HostsLines(host[t])).ip>>)
          ELSE Goto(t, "conf") /\ UNCHANGED out
       /\ Faults(t, ~readable)
  /\ UNCHANGED <<host, qtype, port, id, net, dup, lost, stale>>

(* resolve: without a name server, or an /etc/resolv.conf that can be      *)
(* read, there is nobody to ask.                                           *)
LookInConf(t) ==
  /\ pc[t] = "conf"
  /\ \E readable \in BOOLEAN :
       /\ Goto(t, IF readable /\ HaveNameserver THEN "query" ELSE "done")
       /\ Faults(t, ~readable)
  /\ UNCHANGED <<host, qtype, port, id, out, net, dup, lost, stale>>

(* A query is over: its error is dropped, and AAAA is only asked for when  *)
(* A gave nothing.                                                         *)
AfterQuery(t, addrs) ==
  /\ out' = [out EXCEPT ![t] = addrs]
  /\ IF qtype[t] = A /\ addrs = <<>>
     THEN qtype' = [qtype EXCEPT ![t] = AAAA] /\ Goto(t, "query")
     ELSE Goto(t, "done") /\ UNCHANGED qtype

(* dns_query: build the query, and bind a socket to a port no other socket *)
(* has; either may fail.                                                   *)
Bind(t) ==
  /\ pc[t] = "query"
  /\ \/ /\ host[t] \notin BadLabel
        /\ \E p \in Ports : /\ \A u \in Threads : port[u] # p
                           /\ port' = [port EXCEPT ![t] = p]
        /\ id' = [id EXCEPT ![t] = @ + 1]
        /\ Goto(t, "send")
        /\ UNCHANGED <<qtype, out, faults, hurt>>
     \/ /\ AfterQuery(t, <<>>)
        /\ Faults(t, host[t] \notin BadLabel)
        /\ UNCHANGED <<id, port>>
  /\ UNCHANGED <<host, net, dup, lost, stale>>

(* dns_query: send_to or recv fails, and the socket is dropped.            *)
Fails(t) ==
  /\ pc[t] \in {"send", "recv"}
  /\ AfterQuery(t, <<>>)
  /\ Faults(t, TRUE)
  /\ port' = [port EXCEPT ![t] = 0]
  /\ UNCHANGED <<host, id, net, dup, lost, stale>>

(* dns_query: send_to.                                                     *)
SendTo(t) ==
  /\ pc[t] = "send"
  /\ net' = net \cup {[port |-> port[t], id |-> <<t, id[t]>>, host |-> host[t],
                       type |-> qtype[t], msg |-> <<>>]}
  /\ Goto(t, "recv")
  /\ UNCHANGED <<host, qtype, port, id, out, dup, faults, lost, stale, hurt>>

(* The server answers a query; the answer may be cut short, and a query    *)
(* that arrived twice is answered twice.                                   *)
Answer ==
  /\ \E d \in net, cut \in Cuts, twice \in BOOLEAN :
       LET r == Reply(d.host, d.type)
       IN  /\ d.msg = <<>> /\ cut < Len(r) - 2
           /\ twice => dup < MaxDup
           /\ dup' = IF twice THEN dup + 1 ELSE dup
           /\ net' = (IF twice THEN net ELSE net \ {d})
                       \cup {[d EXCEPT !.msg = SubSeq(r, 1, Len(r) - cut)]}
  /\ UNCHANGED <<host, pc, qtype, port, id, out, faults, lost, stale, hurt>>

(* dns_query: recv takes what arrives at its port; the records of the      *)
(* query's type are the result.  Nobody looks at the id.  The socket is    *)
(* dropped.                                                                *)
Receive(t) ==
  /\ pc[t] = "recv"
  /\ \E d \in net :
       /\ d.port = port[t] /\ d.msg # <<>>
       /\ LET found == ParseDnsAnswers(d.msg, qtype[t])
          IN  AfterQuery(t, IF found = <<Bad>> THEN <<>> ELSE found)
       /\ net' = net \ {d}
       /\ stale' = IF d.id = <<t, id[t]>> THEN stale ELSE stale \cup {t}
       /\ hurt' = IF d.msg = Reply(d.host, d.type) THEN hurt ELSE hurt \cup {t}
  /\ port' = [port EXCEPT ![t] = 0]
  /\ UNCHANGED <<host, id, dup, faults, lost>>

(* Does the query of datagram d still wait for an answer?                  *)
Awaited(d) == \E t \in Threads : pc[t] = "recv" /\ d.id = <<t, id[t]>>

(* The network loses a datagram; one to a closed port is lost anyway.      *)
Lose ==
  /\ \E d \in net :
       /\ net' = net \ {d}
       /\ lost' = IF (\E e \in net' : e.id = d.id) \/ ~Awaited(d) THEN lost ELSE lost \cup {d.id}
  /\ UNCHANGED <<host, pc, qtype, port, id, out, dup, faults, stale, hurt>>

Proceed(t) ==
  Start(t) \/ LookInHosts(t) \/ LookInConf(t) \/ Bind(t) \/ SendTo(t) \/ Receive(t)
  \/ Fails(t)

Next == (\E t \in Threads : Proceed(t)) \/ Answer \/ Lose

Spec == Init /\ [][Next]_vars

-----------------------------------------------------------------------------
(* What a cut answer yields is nothing at all or the beginning of what the *)
(* whole answer yields, and that is the zone's.                            *)
CutAnswers ==
  \A h \in Names, type \in {A, AAAA} : \A k \in 0 .. Len(Reply(h, type)) :
    LET found == ParseDnsAnswers(SubSeq(Reply(h, type), 1, k), type)
    IN  /\ found = <<Bad>> \/ IsPrefix(found, Datas(h, type))
        /\ k = Len(Reply(h, type)) => found = Datas(h, type)

(* resolve: a name in /etc/hosts has that address and asks nobody; another *)
(* gets all its addresses of one type, in the server's order, of IPv4 if   *)
(* it has any.  A file that cannot be read, a socket that fails and a      *)
(* datagram that is cut short can hide addresses, not make up any.  The    *)
(* only way to another host's address is a port that a late answer finds   *)
(* reused: the id of an answer is not compared.                            *)
ResolvesRight ==
  /\ (\A t \in Threads : id[t] = 0) => CutAnswers
  /\ \A t \in Threads :
    LET h == host[t]
        all(type) == Datas(h, type)
    IN
    pc[t] = "done" /\ t \notin stale =>
      IF h \in Numeric THEN out[t] = <<h>>
      ELSE IF HostsLines(h) # <<>> /\ t \notin hurt
      THEN out[t] = <<Head(HostsLines(h)).ip>> /\ id[t] = 0
      ELSE IF h \in BadLabel \/ ~HaveNameserver
      THEN out[t] = <<>>
      ELSE /\ \E type \in {A, AAAA} : IsPrefix(out[t], all(type))
           /\ t \notin hurt => out[t] = IF all(A) # <<>> THEN all(A) ELSE all(AAAA)

(* recv waits without a timeout, and nothing is sent again: a resolve that *)
(* waits has its query or an answer on the way, or one of them was lost,   *)
(* and then it waits for ever.                                             *)
WaitsOnlyForLost ==
  \A t \in Threads :
    pc[t] = "recv" => <<t, id[t]>> \in lost \/ \E d \in net : d.id = <<t, id[t]>> /\ d.port = port[t]

(* resolve returns the host's addresses, and only a lost datagram hangs it. *)
Resolves == ResolvesRight /\ WaitsOnlyForLost
=============================================================================
