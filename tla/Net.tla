-------------------------------- MODULE Net --------------------------------
(***************************************************************************)
(* Sockets: TcpStream::connect, TcpListener::bind and accept,              *)
(* UdpSocket::bind, try_clone and drop, one system call per step, by       *)
(* threads that share the process's descriptors.  What the kernel answers  *)
(* is left open; `log` keeps it.                                           *)
(***************************************************************************)
EXTENDS Naturals, Sequences

CONSTANTS Threads,
          Fds, NoFd,    \* the descriptors of the process, and none
          Addrs,        \* socket addresses
          Lists,        \* what to_socket_addrs may return
          Errors,       \* the errors of socket, connect, bind and listen
          MaxCalls      \* bound: calls of each thread

NetAssumption ==
  /\ Fds \subseteq Nat /\ NoFd \notin Fds /\ MaxCalls \in Nat
  /\ Lists \subseteq Seq(Addrs) /\ "Ok" \notin Errors

VARIABLES kind,         \* kernel: the kind of socket behind each descriptor
          held,         \* the descriptors in the handles of each thread
          pc, op,       \* where each thread is, in which operation
          list, at,     \* the addresses of its call, the one in work
          sock,         \* the descriptor of its local Socket, or NoFd
          last,         \* the error it will return
          out,          \* what its last call returned
          log,          \* ghost: the address and answer of each attempt
          calls         \* calls it has left

vars == <<kind, held, pc, op, list, at, sock, last, out, log, calls>>

Kinds == {"closed", "fresh", "stream", "bound", "listener", "datagram"}
PC == {"idle", "next", "connect", "bind", "listen", "close"}

DescriptorTypes ==
  /\ kind \in [Fds -> Kinds]
  /\ held \in [Threads -> SUBSET Fds]
  /\ pc \in [Threads -> PC]
  /\ sock \in [Threads -> Fds \cup {NoFd}]

ListTypes ==
  /\ pc \in [Threads -> PC]
  /\ op \in [Threads -> {"none", "connect", "bind", "udp_bind"}]
  /\ list \in [Threads -> Seq(Addrs)] /\ at \in [Threads -> Nat \ {0}]
  /\ log \in [Threads -> Seq(Addrs \X (Errors \cup {"Ok"}))]
  /\ last \in [Threads -> Errors \cup {"none", "InvalidInput"}]
  /\ out \in [Threads -> Addrs \cup Errors \cup {"none", "InvalidInput"}]

TypeOK == DescriptorTypes /\ ListTypes

Init ==
  /\ kind = [f \in Fds |-> "closed"]
  /\ held = [t \in Threads |-> {}]
  /\ pc = [t \in Threads |-> "idle"]
  /\ op = [t \in Threads |-> "none"]
  /\ list = [t \in Threads |-> <<>>]
  /\ at = [t \in Threads |-> 1]
  /\ sock = [t \in Threads |-> NoFd]
  /\ last = [t \in Threads |-> "none"]
  /\ out = [t \in Threads |-> "none"]
  /\ log = [t \in Threads |-> <<>>]
  /\ calls = [t \in Threads |-> MaxCalls]

Set(f, t, v) == [f EXCEPT ![t] = v]

(* The kernel gives the lowest free descriptor.                            *)
Free == {f \in Fds : kind[f] = "closed"}
Lowest(f) == f \in Free /\ \A g \in Free : f <= g

Logs(t, answer) == log' = [log EXCEPT ![t] = Append(@, <<list[t][at[t]], answer>>)]

(* connect, bind and UdpSocket::bind have resolved their argument.         *)
Call(t) ==
  /\ pc[t] = "idle" /\ calls[t] > 0
  /\ calls' = [calls EXCEPT ![t] = @ - 1]
  /\ \E o \in {"connect", "bind", "udp_bind"}, l \in Lists :
       op' = Set(op, t, o) /\ list' = Set(list, t, l)
  /\ at' = Set(at, t, 1)
  /\ last' = Set(last, t, "InvalidInput")
  /\ log' = Set(log, t, <<>>)
  /\ pc' = Set(pc, t, "next")
  /\ UNCHANGED <<kind, held, sock, out>>

ExhaustedForgets(t) ==
  /\ pc[t] = "next" /\ at[t] > Len(list[t])
  /\ out' = Set(out, t, "InvalidInput")
  /\ pc' = Set(pc, t, "idle")
  /\ UNCHANGED <<kind, held, op, list, at, sock, last, log, calls>>

(* The loop over the addresses: none left, the last error is returned ...  *)
Exhausted(t) ==
  /\ pc[t] = "next" /\ at[t] > Len(list[t])
  /\ out' = Set(out, t, last[t])
  /\ pc' = Set(pc, t, "idle")
  /\ UNCHANGED <<kind, held, op, list, at, sock, last, log, calls>>

(* ... or Socket::new for the next one, which may fail.                    *)
NewSocket(t) ==
  /\ pc[t] = "next" /\ at[t] <= Len(list[t])
  /\ \/ \E f \in Fds :
          /\ Lowest(f)
          /\ kind' = Set(kind, f, "fresh")
          /\ sock' = Set(sock, t, f)
          /\ pc' = Set(pc, t, IF op[t] = "connect" THEN "connect" ELSE "bind")
          /\ UNCHANGED <<at, last, log>>
     \/ \E e \in Errors :
          /\ last' = Set(last, t, e) /\ Logs(t, e)
          /\ at' = Set(at, t, at[t] + 1)
          /\ UNCHANGED <<kind, pc, sock>>
  /\ UNCHANGED <<held, op, list, out, calls>>

(* The call succeeds: the Socket becomes the handle it returns.            *)
Succeeds(t, k) ==
  /\ kind' = Set(kind, sock[t], k)
  /\ held' = Set(held, t, held[t] \cup {sock[t]})
  /\ sock' = Set(sock, t, NoFd)
  /\ out' = Set(out, t, list[t][at[t]])
  /\ Logs(t, "Ok")
  /\ pc' = Set(pc, t, "idle")
  /\ UNCHANGED <<op, list, at, last, calls>>

(* A system call on the Socket fails: the Socket is about to be dropped,   *)
(* the loop will go on with the next address.                              *)
Fails(t) ==
  /\ \E e \in Errors : last' = Set(last, t, e) /\ Logs(t, e)
  /\ at' = Set(at, t, at[t] + 1)
  /\ pc' = Set(pc, t, "close")
  /\ UNCHANGED <<kind, held, op, list, sock, out, calls>>

(* connect_one: connect.                                                   *)
Connect(t) == pc[t] = "connect" /\ (Succeeds(t, "stream") \/ Fails(t))

(* bind_one and UdpSocket::bind: bind; a datagram socket is ready then.    *)
Bind(t) ==
  /\ pc[t] = "bind"
  /\ \/ op[t] = "udp_bind" /\ Succeeds(t, "datagram")
     \/ /\ op[t] = "bind"
        /\ kind' = Set(kind, sock[t], "bound") /\ pc' = Set(pc, t, "listen")
        /\ UNCHANGED <<held, op, list, at, sock, last, out, log, calls>>
     \/ Fails(t)

(* bind_one: listen.                                                       *)
Listen(t) == pc[t] = "listen" /\ (Succeeds(t, "listener") \/ Fails(t))

DropLeaks(t) ==
  /\ pc[t] = "close"
  /\ sock' = Set(sock, t, NoFd)
  /\ pc' = Set(pc, t, "next")
  /\ UNCHANGED <<kind, held, op, list, at, last, out, log, calls>>

(* Socket::drop of the local Socket, before the loop goes on.              *)
DropSocket(t) ==
  /\ pc[t] = "close"
  /\ kind' = Set(kind, sock[t], "closed")
  /\ sock' = Set(sock, t, NoFd)
  /\ pc' = Set(pc, t, "next")
  /\ UNCHANGED <<held, op, list, at, last, out, log, calls>>

(* accept: the kernel gives the connection a descriptor.  (A signal makes  *)
(* the loop call again; an error changes nothing.)                         *)
Accept(t) ==
  /\ pc[t] = "idle"
  /\ \E f \in held[t], g \in Fds :
       /\ kind[f] = "listener" /\ Lowest(g)
       /\ kind' = Set(kind, g, "stream")
       /\ held' = Set(held, t, held[t] \cup {g})
  /\ UNCHANGED <<pc, op, list, at, sock, last, out, log, calls>>

(* try_clone: dup; any thread may get the clone.                           *)
TryClone(t) ==
  /\ pc[t] = "idle"
  /\ \E f \in held[t], g \in Fds, u \in Threads :
       /\ Lowest(g)
       /\ kind' = Set(kind, g, kind[f])
       /\ held' = Set(held, u, held[u] \cup {g})
  /\ UNCHANGED <<pc, op, list, at, sock, last, out, log, calls>>

(* A handle is dropped.                                                    *)
DropHandle(t) ==
  /\ pc[t] = "idle"
  /\ \E f \in held[t] :
       kind' = Set(kind, f, "closed") /\ held' = Set(held, t, held[t] \ {f})
  /\ UNCHANGED <<pc, op, list, at, sock, last, out, log, calls>>

Next ==
  \E t \in Threads :
    \/ Call(t) \/ Exhausted(t) \/ NewSocket(t) \/ Connect(t) \/ Bind(t) \/ Listen(t)
    \/ DropSocket(t) \/ Accept(t) \/ TryClone(t) \/ DropHandle(t)

Spec == Init /\ [][Next]_vars

-----------------------------------------------------------------------------
(* Every open descriptor has one owner, a handle or the local Socket of a  *)
(* call in progress, and every owner's descriptor is open: no error path   *)
(* of connect or bind leaks a descriptor, and none is closed twice, when   *)
(* it may already be another thread's.                                     *)
SocketsAccounted ==
  /\ \A f \in Fds : kind[f] # "closed" <=> \E t \in Threads : f \in held[t] \/ f = sock[t]
  /\ \A t \in Threads : sock[t] \notin held[t]
  /\ \A t, u \in Threads :
       t # u => /\ held[t] \cap held[u] = {} /\ sock[t] \notin held[u]
                /\ sock[t] = sock[u] => sock[t] = NoFd

(* What makes it inductive: the local Socket exists from Socket::new until *)
(* the call succeeds or drops it.                                          *)
HasSocket(t) == pc[t] \in {"connect", "bind", "listen", "close"}
SocketInCall == \A t \in Threads : sock[t] # NoFd <=> HasSocket(t)

(* connect and bind try the addresses in order, none twice, up to the      *)
(* first that works, which they return; the error is that of the last one, *)
(* InvalidInput only if there was none.                                    *)
TriesInOrder(t) ==
  LET n == Len(log[t]) IN
  /\ \A i \in 1..n : log[t][i][1] = list[t][i] /\ (i < n => log[t][i][2] \in Errors)
  /\ pc[t] = "idle" /\ op[t] # "none" =>
       IF n > 0 /\ log[t][n][2] = "Ok" THEN out[t] = list[t][n]
       ELSE n = Len(list[t]) /\ out[t] = IF n = 0 THEN "InvalidInput" ELSE log[t][n][2]
FirstThatWorks == \A t \in Threads : TriesInOrder(t)

(* What makes it inductive: during a call each address before the one in   *)
(* work has failed, the last one with the error in `last`.                 *)
Tried(t) ==
  pc[t] # "idle" =>
    /\ Len(log[t]) = at[t] - 1 /\ Len(log[t]) <= Len(list[t])
    /\ \A i \in 1..Len(log[t]) : log[t][i][2] \in Errors
    /\ last[t] = IF log[t] = <<>> THEN "InvalidInput" ELSE log[t][Len(log[t])][2]
    /\ pc[t] \in {"connect", "bind", "listen"} => at[t] <= Len(list[t])
    /\ op[t] # "none"
TriedSoFar == \A t \in Threads : Tried(t)
=============================================================================
