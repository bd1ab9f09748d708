---------------------------- MODULE SystemProofs ----------------------------
(***************************************************************************)
(* Sockets, timeouts and the clocks: what MCSystem checks of them on a     *)
(* small instance, for all of them.  The clocks are declared where their   *)
(* proofs begin.                                                           *)
(***************************************************************************)
EXTENDS Net, Integers, TLAPS

(* Net: descriptors and address lists, for any number of threads,          *)
(* descriptors and addresses.                                              *)
Owned == DescriptorTypes /\ SocketInCall /\ SocketsAccounted

LEMMA InitOwned == ASSUME NetAssumption PROVE Init => Owned
BY DEF NetAssumption, Init, Owned, DescriptorTypes, Kinds, PC, SocketInCall, HasSocket,
       SocketsAccounted

(* A step that moves no descriptor.                                        *)
LEMMA SameDescriptors ==
  ASSUME Owned, UNCHANGED <<kind, held, sock>>,
         NEW t \in Threads, NEW l \in PC, pc' = [pc EXCEPT ![t] = l],
         HasSocket(t) <=> l \in {"connect", "bind", "listen", "close"}
  PROVE  Owned'
<1>1. DescriptorTypes' /\ SocketInCall'
  BY DEF Owned, DescriptorTypes, SocketInCall, HasSocket
<1>2. QED
  BY <1>1 DEF Owned, SocketsAccounted

(* A local Socket becomes a handle.                                        *)
LEMMA SucceedsOwned ==
  ASSUME NetAssumption, Owned, NEW t \in Threads, NEW k \in Kinds \ {"closed"},
         HasSocket(t), Succeeds(t, k)
  PROVE  Owned'
<1> USE DEF Owned, Set
<1>1. sock[t] \in Fds
  BY DEF DescriptorTypes, SocketInCall, NetAssumption
<1>2. /\ kind' = [kind EXCEPT ![sock[t]] = k]
      /\ held' = [held EXCEPT ![t] = held[t] \cup {sock[t]}]
      /\ sock' = [sock EXCEPT ![t] = NoFd]
      /\ pc' = [pc EXCEPT ![t] = "idle"]
  BY DEF Succeeds
<1>3. DescriptorTypes' /\ SocketInCall'
  BY <1>1, <1>2 DEF DescriptorTypes, SocketInCall, HasSocket, PC
<1>4. SocketsAccounted'
  BY <1>1, <1>2 DEF DescriptorTypes, SocketsAccounted, NetAssumption
<1>5. QED  BY <1>3, <1>4

(* A failure moves no descriptor.                                          *)
LEMMA FailsOwned ==
  ASSUME Owned, NEW t \in Threads, HasSocket(t), Fails(t)
  PROVE  Owned'
BY SameDescriptors, Zenon DEF Fails, Set, PC

(* One more descriptor for the handles of u.                               *)
LEMMA GainOwned ==
  ASSUME NetAssumption, Owned, NEW u \in Threads, NEW g \in Fds, Lowest(g),
         NEW k \in Kinds \ {"closed"}, UNCHANGED <<pc, sock>>,
         kind' = [kind EXCEPT ![g] = k], held' = [held EXCEPT ![u] = held[u] \cup {g}]
  PROVE  Owned'
<1> USE DEF Owned
<1>1. kind[g] = "closed"
  BY DEF Lowest, Free
<1>2. DescriptorTypes' /\ SocketInCall'
  BY DEF DescriptorTypes, SocketInCall, HasSocket
<1>3. SocketsAccounted'
  BY <1>1 DEF DescriptorTypes, SocketsAccounted
<1>4. QED  BY <1>2, <1>3

LEMMA NextOwned ==
  ASSUME NetAssumption, Owned, [Next]_vars
  PROVE  Owned'
<1>1. CASE UNCHANGED vars
  BY <1>1 DEF vars, Owned, DescriptorTypes, SocketInCall, HasSocket, SocketsAccounted
<1>2. ASSUME NEW t \in Threads, Call(t) PROVE Owned'
  BY <1>2, SameDescriptors, Zenon DEF Call, Set, PC, HasSocket
<1>3. ASSUME NEW t \in Threads, Exhausted(t) PROVE Owned'
  BY <1>3, SameDescriptors, Zenon DEF Exhausted, Set, PC, HasSocket
<1>4. ASSUME NEW t \in Threads, NewSocket(t) PROVE Owned'
  <2>1. CASE UNCHANGED <<kind, pc, sock>>
    BY <1>4, <2>1 DEF NewSocket, Owned, DescriptorTypes, SocketInCall, HasSocket, SocketsAccounted
  <2>2. ASSUME NEW f \in Fds, Lowest(f), kind' = Set(kind, f, "fresh"), sock' = Set(sock, t, f),
               pc' = Set(pc, t, IF op[t] = "connect" THEN "connect" ELSE "bind")
        PROVE  Owned'
    <3> USE DEF Owned, Set
    <3>1. kind[f] = "closed" /\ held' = held /\ sock[t] = NoFd
      BY <1>4, <2>2 DEF NewSocket, Lowest, Free, SocketInCall, HasSocket
    <3>2. DescriptorTypes' /\ SocketInCall'
      BY <2>2, <3>1 DEF DescriptorTypes, SocketInCall, HasSocket, PC, Kinds, NetAssumption
    <3>3. SocketsAccounted'
      BY <2>2, <3>1 DEF DescriptorTypes, SocketsAccounted, NetAssumption
    <3>4. QED  BY <3>2, <3>3
  <2>3. QED
    BY <1>4, <2>1, <2>2 DEF NewSocket
<1>5. ASSUME NEW t \in Threads, Connect(t) PROVE Owned'
  BY <1>5, SucceedsOwned, FailsOwned DEF Connect, HasSocket, Kinds
<1>6. ASSUME NEW t \in Threads, Bind(t) PROVE Owned'
  <2>1. CASE kind' = Set(kind, sock[t], "bound") /\ pc' = Set(pc, t, "listen")
             /\ UNCHANGED <<held, sock>>
    <3> USE DEF Owned, Set
    <3>1. sock[t] \in Fds /\ kind[sock[t]] # "closed"
      BY <1>6 DEF Bind, DescriptorTypes, SocketInCall, HasSocket, SocketsAccounted, NetAssumption
    <3>2. DescriptorTypes' /\ SocketInCall'
      BY <1>6, <2>1, <3>1 DEF Bind, DescriptorTypes, SocketInCall, HasSocket, PC, Kinds
    <3>3. SocketsAccounted'
      BY <2>1, <3>1 DEF DescriptorTypes, SocketsAccounted
    <3>4. QED  BY <3>2, <3>3
  <2>2. QED
    BY <1>6, <2>1, SucceedsOwned, FailsOwned DEF Bind, HasSocket, Kinds
<1>7. ASSUME NEW t \in Threads, Listen(t) PROVE Owned'
  BY <1>7, SucceedsOwned, FailsOwned DEF Listen, HasSocket, Kinds
<1>8. ASSUME NEW t \in Threads, DropSocket(t) PROVE Owned'
  <2> USE DEF Owned, Set
  <2>1. sock[t] \in Fds
    BY <1>8 DEF DropSocket, DescriptorTypes, SocketInCall, HasSocket, NetAssumption
  <2>2. DescriptorTypes' /\ SocketInCall'
    BY <1>8, <2>1 DEF DropSocket, DescriptorTypes, SocketInCall, HasSocket, PC, Kinds
  <2>3. SocketsAccounted'
    BY <1>8, <2>1 DEF DropSocket, DescriptorTypes, SocketsAccounted, NetAssumption
  <2>4. QED  BY <2>2, <2>3
<1>9. ASSUME NEW t \in Threads, Accept(t) PROVE Owned'
  <2>1. PICK g \in Fds : /\ Lowest(g)
                        /\ kind' = Set(kind, g, "stream")
                        /\ held' = Set(held, t, held[t] \cup {g})
    BY <1>9 DEF Accept
  <2>2. UNCHANGED <<pc, sock>> /\ "stream" \in Kinds \ {"closed"}
    BY <1>9 DEF Accept, Kinds
  <2>3. QED
    BY <2>1, <2>2, GainOwned, Zenon DEF Set
<1>10. ASSUME NEW t \in Threads, TryClone(t) PROVE Owned'
  <2>1. PICK f \in held[t], g \in Fds, u \in Threads :
           /\ Lowest(g)
           /\ kind' = Set(kind, g, kind[f])
           /\ held' = Set(held, u, held[u] \cup {g})
    BY <1>10, Zenon DEF TryClone
  <2>2. kind[f] \in Kinds \ {"closed"}
    BY DEF Owned, DescriptorTypes, SocketsAccounted
  <2>3. UNCHANGED <<pc, sock>>
    BY <1>10 DEF TryClone
  <2>4. QED
    BY <2>1, <2>2, <2>3, GainOwned, Zenon DEF Set
<1>11. ASSUME NEW t \in Threads, DropHandle(t) PROVE Owned'
  <2> USE DEF Owned, Set
  <2>1. DescriptorTypes' /\ SocketInCall'
    BY <1>11 DEF DropHandle, DescriptorTypes, SocketInCall, HasSocket, Kinds
  <2>2. SocketsAccounted'
    BY <1>11 DEF DropHandle, DescriptorTypes, SocketsAccounted
  <2>3. QED  BY <2>1, <2>2
<1>12. QED
  BY <1>1, <1>2, <1>3, <1>4, <1>5, <1>6, <1>7, <1>8, <1>9, <1>10, <1>11 DEF Next

(* Whatever fails in connect and bind, every open descriptor has exactly   *)
(* one owner, and no owner has a closed one.                               *)
THEOREM SocketsAccountedHolds ==
  ASSUME NetAssumption
  PROVE  Spec => []SocketsAccounted
<1>1. Owned => SocketsAccounted
  BY DEF Owned
<1>2. QED
  BY <1>1, InitOwned, NextOwned, PTL DEF Spec

-----------------------------------------------------------------------------
Listed == ListTypes /\ TriedSoFar /\ FirstThatWorks

listVars(t) == <<pc[t], op[t], list[t], at[t], last[t], out[t], log[t]>>

LEMMA InitListed == ASSUME NetAssumption PROVE Init => Listed
BY DEF Init, Listed, ListTypes, PC, TriedSoFar, Tried, FirstThatWorks, TriesInOrder

(* A step of t touches only its own call.                                  *)
LEMMA OnlyOwn ==
  ASSUME Listed, NEW t \in Threads, ListTypes', Tried(t)', TriesInOrder(t)',
         \A u \in Threads \ {t} : UNCHANGED listVars(u)
  PROVE  Listed'
<1>1. ASSUME NEW u \in Threads \ {t} PROVE Tried(u)' /\ TriesInOrder(u)'
  <2>1. Tried(u) /\ TriesInOrder(u)
    BY DEF Listed, TriedSoFar, FirstThatWorks
  <2>2. /\ pc'[u] = pc[u] /\ op'[u] = op[u] /\ list'[u] = list[u] /\ at'[u] = at[u]
        /\ last'[u] = last[u] /\ out'[u] = out[u] /\ log'[u] = log[u]
    BY DEF listVars
  <2>3. Tried(u)'
    BY <2>1, <2>2 DEF Tried
  <2>4. TriesInOrder(u)'
    BY <2>1, <2>2 DEF TriesInOrder
  <2>5. QED
    BY <2>3, <2>4
<1>2. QED
  BY <1>1 DEF Listed, TriedSoFar, FirstThatWorks

(* A step that leaves the calls alone.                                     *)
LEMMA SameCalls ==
  ASSUME Listed, UNCHANGED <<pc, op, list, at, last, out, log>>
  PROVE  Listed'
BY DEF Listed, ListTypes, TriedSoFar, FirstThatWorks, Tried, TriesInOrder

(* One more element at the end of a sequence.                              *)
LEMMA OneMore ==
  ASSUME NEW S, NEW s \in Seq(S), NEW e \in S, NEW n \in Nat \ {0}, Len(s) = n - 1
  PROVE  /\ Len(Append(s, e)) = n /\ Append(s, e)[n] = e
         /\ \A i \in 1 .. n - 1 : Append(s, e)[i] = s[i]
OBVIOUS

(* One more attempt in the log.                                            *)
LEMMA LogsOne ==
  ASSUME Listed, NEW t \in Threads, NEW a \in Errors \cup {"Ok"}, Logs(t, a),
         pc[t] # "idle", at[t] <= Len(list[t])
  PROVE  /\ log' \in [Threads -> Seq(Addrs \X (Errors \cup {"Ok"}))]
         /\ log'[t] # <<>>
         /\ Len(log'[t]) = at[t]
         /\ log'[t][at[t]] = <<list[t][at[t]], a>>
         /\ \A i \in 1 .. at[t] - 1 : log'[t][i] = log[t][i]
         /\ \A u \in Threads \ {t} : log'[u] = log[u]
<1>1. list[t][at[t]] \in Addrs
  BY DEF Listed, ListTypes
<1>2. <<list[t][at[t]], a>> \in Addrs \X (Errors \cup {"Ok"})
  BY <1>1
<1>3. /\ log[t] \in Seq(Addrs \X (Errors \cup {"Ok"}))
      /\ at[t] \in Nat \ {0} /\ Len(log[t]) = at[t] - 1
  BY DEF Listed, ListTypes, TriedSoFar, Tried
<1>4. log'[t] = Append(log[t], <<list[t][at[t]], a>>)
  BY DEF Logs, Listed, ListTypes
<1>5. log'[t] \in Seq(Addrs \X (Errors \cup {"Ok"}))
  BY <1>2, <1>3, <1>4
<1>6. log' = [log EXCEPT ![t] = log'[t]]
  BY <1>4, Zenon DEF Logs
<1>7. /\ log' \in [Threads -> Seq(Addrs \X (Errors \cup {"Ok"}))]
      /\ \A u \in Threads \ {t} : log'[u] = log[u]
  BY <1>5, <1>6, Zenon DEF Listed, ListTypes
<1>8. /\ Len(log'[t]) = at[t]
      /\ log'[t][at[t]] = <<list[t][at[t]], a>>
      /\ \A i \in 1 .. at[t] - 1 : log'[t][i] = log[t][i]
  BY <1>2, <1>3, <1>4, OneMore, SMTT(30)
<1>9. log'[t] # <<>>
  BY <1>3, <1>8
<1>10. QED
  BY <1>7, <1>8, <1>9

(* What the log says after one more attempt.                               *)
LEMMA LogNow ==
  ASSUME Listed, NEW t \in Threads, NEW a \in Errors \cup {"Ok"}, Logs(t, a),
         pc[t] # "idle", at[t] <= Len(list[t])
  PROVE  \A i \in 1 .. at[t] : /\ log'[t][i][1] = list[t][i]
                               /\ i < at[t] => log'[t][i][2] \in Errors
<1> SUFFICES ASSUME NEW i \in 1 .. at[t]
             PROVE  log'[t][i][1] = list[t][i] /\ (i < at[t] => log'[t][i][2] \in Errors)
  OBVIOUS
<1>1. /\ at[t] \in Nat \ {0} /\ Len(log[t]) = at[t] - 1
      /\ log'[t][at[t]] = <<list[t][at[t]], a>>
      /\ \A j \in 1 .. at[t] - 1 : log'[t][j] = log[t][j]
  BY LogsOne DEF Listed, ListTypes, TriedSoFar, Tried
<1>2. CASE i = at[t]
  BY <1>1, <1>2
<1>3. CASE i # at[t]
  <2>1. i \in 1 .. Len(log[t])
    BY <1>1, <1>3
  <2>2. log[t][i][1] = list[t][i] /\ log[t][i][2] \in Errors
    BY <2>1 DEF Listed, TriedSoFar, Tried, FirstThatWorks, TriesInOrder
  <2>3. QED
    BY <1>1, <2>1, <2>2
<1>4. QED  BY <1>2, <1>3

(* An attempt fails, and the loop goes on, at "next" or by way of "close". *)
LEMMA FailureListed ==
  ASSUME NetAssumption, Listed, NEW t \in Threads, NEW e \in Errors, NEW l \in {"next", "close"},
         last' = Set(last, t, e), Logs(t, e), at' = Set(at, t, at[t] + 1),
         pc' = Set(pc, t, l), UNCHANGED <<op, list, out>>,
         pc[t] # "idle", at[t] <= Len(list[t])
  PROVE  Listed'
<1> USE DEF Set
<1>1. /\ at[t] \in Nat \ {0} /\ list[t] \in Seq(Addrs)
      /\ pc'[t] = l /\ at'[t] = at[t] + 1 /\ last'[t] = e /\ list'[t] = list[t] /\ op'[t] = op[t]
  BY DEF Listed, ListTypes
<1>2. ListTypes'
  <2>1. log' \in [Threads -> Seq(Addrs \X (Errors \cup {"Ok"}))]
    BY LogsOne
  <2>2. pc' \in [Threads -> PC]
    BY DEF Listed, ListTypes, PC
  <2>3. at' \in [Threads -> Nat \ {0}]
    BY <1>1 DEF Listed, ListTypes
  <2>4. last' \in [Threads -> Errors \cup {"none", "InvalidInput"}]
    BY DEF Listed, ListTypes
  <2>5. QED
    BY <2>1, <2>2, <2>3, <2>4 DEF Listed, ListTypes
<1>3. Tried(t)'
  <2>1. \A i \in 1 .. at[t] : log'[t][i][2] \in Errors
    BY <1>1, LogsOne, LogNow
  <2>2. QED
    BY <1>1, <2>1, LogsOne, SMTT(20) DEF Listed, TriedSoFar, Tried
<1>4. TriesInOrder(t)'
  <2>1. \A i \in 1 .. at[t] : log'[t][i][1] = list[t][i] /\ log'[t][i][2] \in Errors
    BY <1>1, LogsOne, LogNow
  <2>2. QED
    BY <1>1, <2>1, LogsOne DEF TriesInOrder
<1>5. \A u \in Threads \ {t} : UNCHANGED listVars(u)
  BY LogsOne, SMTT(30) DEF Listed, ListTypes, listVars
<1>6. QED
  BY <1>2, <1>3, <1>4, <1>5, OnlyOwn

(* An attempt succeeds.                                                    *)
LEMMA SuccessListed ==
  ASSUME NetAssumption, Listed, NEW t \in Threads, NEW k, Succeeds(t, k),
         pc[t] # "idle", at[t] <= Len(list[t])
  PROVE  Listed'
<1> USE DEF Set
<1>1. /\ at[t] \in Nat \ {0} /\ list[t] \in Seq(Addrs) /\ list[t][at[t]] \in Addrs
      /\ pc'[t] = "idle" /\ list'[t] = list[t] /\ op'[t] = op[t]
      /\ out'[t] = list[t][at[t]]
  BY DEF Succeeds, Listed, ListTypes
<1>2. Logs(t, "Ok")
  BY DEF Succeeds
<1>3. ListTypes'
  <2>1. log' \in [Threads -> Seq(Addrs \X (Errors \cup {"Ok"}))]
    BY <1>2, LogsOne
  <2>2. QED
    BY <1>1, <2>1, Zenon DEF Succeeds, Listed, ListTypes, PC
<1>4. Tried(t)'
  BY <1>1 DEF Tried
<1>5. TriesInOrder(t)'
  <2>1. Len(log'[t]) = at[t] /\ log'[t][at[t]][2] = "Ok"
    BY <1>2, LogsOne
  <2>2. \A i \in 1 .. at[t] : /\ log'[t][i][1] = list[t][i]
                              /\ i < at[t] => log'[t][i][2] \in Errors
    BY <1>2, LogNow
  <2>3. QED
    BY <1>1, <2>1, <2>2, SMTT(20) DEF TriesInOrder
<1>6. \A u \in Threads \ {t} : UNCHANGED listVars(u)
  BY <1>2, LogsOne DEF Succeeds, Listed, ListTypes, listVars
<1>7. QED
  BY <1>3, <1>4, <1>5, <1>6, OnlyOwn

LEMMA NextListed ==
  ASSUME NetAssumption, Listed, [Next]_vars
  PROVE  Listed'
<1>1. CASE UNCHANGED vars
  BY <1>1, SameCalls DEF vars
<1>2. ASSUME NEW t \in Threads, Call(t) PROVE Listed'
  <2> USE DEF Set
  <2>1. ListTypes'
    BY <1>2 DEF Call, Listed, ListTypes, PC, NetAssumption
  <2>2. /\ pc'[t] = "next" /\ log'[t] = <<>> /\ at'[t] = 1 /\ last'[t] = "InvalidInput"
        /\ op'[t] # "none" /\ list'[t] \in Seq(Addrs)
    BY <1>2, <2>1 DEF Call, Listed, ListTypes
  <2>3. Tried(t)' /\ TriesInOrder(t)'
    <3>1. Tried(t)'
      BY <2>2 DEF Tried
    <3>2. TriesInOrder(t)'
      BY <2>2 DEF TriesInOrder
    <3>3. QED
      BY <3>1, <3>2
  <2>4. \A u \in Threads \ {t} : UNCHANGED listVars(u)
    BY <1>2 DEF Call, Listed, ListTypes, listVars
  <2>5. QED
    BY <2>1, <2>3, <2>4, OnlyOwn
<1>3. ASSUME NEW t \in Threads, Exhausted(t) PROVE Listed'
  <2> USE DEF Set
  <2>1. ListTypes'
    BY <1>3 DEF Exhausted, Listed, ListTypes, PC
  <2>2. /\ pc'[t] = "idle" /\ out'[t] = last[t] /\ log'[t] = log[t] /\ list'[t] = list[t]
        /\ op'[t] = op[t] /\ pc[t] = "next" /\ at[t] > Len(list[t])
    BY <1>3 DEF Exhausted, Listed, ListTypes
  <2>lengths. /\ log[t] \in Seq(Addrs \X (Errors \cup {"Ok"})) /\ list[t] \in Seq(Addrs)
        /\ at[t] \in Nat /\ Len(log[t]) = at[t] - 1 /\ Len(log[t]) <= Len(list[t])
    BY <2>2 DEF Listed, ListTypes, TriedSoFar, Tried
  <2>3. /\ Len(log[t]) \in Nat /\ Len(list[t]) \in Nat /\ Len(log[t]) = Len(list[t])
        /\ log[t] = <<>> <=> Len(log[t]) = 0
    BY <2>2, <2>lengths
  <2>tried. /\ \A i \in 1 .. Len(log[t]) : log[t][i][2] \in Errors
            /\ last[t] = IF log[t] = <<>> THEN "InvalidInput" ELSE log[t][Len(log[t])][2]
    BY <2>2 DEF Listed, TriedSoFar, Tried
  <2>4. Len(log[t]) > 0 => log[t][Len(log[t])][2] \in Errors
    BY <2>3, <2>tried
  <2>5. last[t] = IF Len(log[t]) = 0 THEN "InvalidInput" ELSE log[t][Len(log[t])][2]
    BY <2>3, <2>tried
  <2>order. \A i \in 1 .. Len(log[t]) :
              log[t][i][1] = list[t][i] /\ (i < Len(log[t]) => log[t][i][2] \in Errors)
    BY DEF Listed, FirstThatWorks, TriesInOrder
  <2>6. Tried(t)' /\ TriesInOrder(t)'
    <3>1. Tried(t)'
      BY <2>2, SMTT(30) DEF Tried
    <3>2. TriesInOrder(t)'
      BY <2>2, <2>3, <2>4, <2>5, <2>order DEF TriesInOrder, NetAssumption
    <3>3. QED
      BY <3>1, <3>2
  <2>7. \A u \in Threads \ {t} : UNCHANGED listVars(u)
    BY <1>3 DEF Exhausted, Listed, ListTypes, listVars
  <2>8. QED
    BY <2>1, <2>6, <2>7, OnlyOwn
<1>4. ASSUME NEW t \in Threads, at[t] <= Len(list[t]), pc[t] # "idle", Fails(t) PROVE Listed'
  BY <1>4, FailureListed DEF Fails
<1>5. ASSUME NEW t \in Threads, NewSocket(t) PROVE Listed'
  <2>1. CASE pc' = pc
    <3>1. pc' = Set(pc, t, "next") /\ pc[t] = "next" /\ at[t] <= Len(list[t])
      BY <1>5, <2>1 DEF NewSocket, Set, Listed, ListTypes
    <3>2. PICK e \in Errors : last' = Set(last, t, e) /\ Logs(t, e) /\ at' = Set(at, t, at[t] + 1)
      BY <1>5, <2>1, <3>1 DEF NewSocket, Set, Listed, ListTypes
    <3>3. QED
      BY <1>5, <3>1, <3>2, FailureListed DEF NewSocket
  <2>2. ASSUME NEW l \in {"connect", "bind"}, pc' = Set(pc, t, l), UNCHANGED <<at, last, log>>
        PROVE  Listed'
    <3>1. /\ ListTypes' /\ pc'[t] = l
          /\ \A u \in Threads \ {t} : UNCHANGED listVars(u)
      BY <1>5, <2>2, SMTT(30) DEF NewSocket, Set, Listed, ListTypes, PC, listVars
    <3>2. Tried(t)' /\ TriesInOrder(t)'
      BY <1>5, <2>2, <3>1, SMTT(30) DEF NewSocket, Tried, TriesInOrder, Listed, TriedSoFar, FirstThatWorks
    <3>3. QED
      BY <3>1, <3>2, OnlyOwn
  <2>3. QED
    BY <1>5, <2>1, <2>2 DEF NewSocket
<1>6. ASSUME NEW t \in Threads, pc[t] \in {"connect", "bind", "listen"} PROVE at[t] <= Len(list[t])
  BY <1>6 DEF Listed, TriedSoFar, Tried
<1>7. ASSUME NEW t \in Threads, Connect(t) PROVE Listed'
  BY <1>4, <1>6, <1>7, SuccessListed DEF Connect
<1>8. ASSUME NEW t \in Threads, Bind(t) PROVE Listed'
  <2>1. CASE pc' = Set(pc, t, "listen") /\ UNCHANGED <<op, list, at, last, out, log>>
    <3>1. /\ ListTypes' /\ pc'[t] = "listen"
          /\ \A u \in Threads \ {t} : UNCHANGED listVars(u)
      BY <2>1, SMTT(30) DEF Set, Listed, ListTypes, PC, listVars
    <3>2. Tried(t)' /\ TriesInOrder(t)'
      BY <1>8, <2>1, <3>1 DEF Bind, Tried, TriesInOrder, Listed, TriedSoFar, FirstThatWorks
    <3>3. QED
      BY <3>1, <3>2, OnlyOwn
  <2>2. QED
    BY <1>4, <1>6, <1>8, <2>1, SuccessListed DEF Bind
<1>9. ASSUME NEW t \in Threads, Listen(t) PROVE Listed'
  BY <1>4, <1>6, <1>9, SuccessListed DEF Listen
<1>10. ASSUME NEW t \in Threads, DropSocket(t) PROVE Listed'
  <2>1. /\ ListTypes' /\ pc'[t] = "next"
        /\ \A u \in Threads \ {t} : UNCHANGED listVars(u)
    BY <1>10, SMTT(30) DEF DropSocket, Set, Listed, ListTypes, PC, listVars
  <2>2. Tried(t)' /\ TriesInOrder(t)'
    BY <1>10, <2>1, SMTT(30) DEF DropSocket, Tried, TriesInOrder, Listed, TriedSoFar, FirstThatWorks
  <2>3. QED
    BY <2>1, <2>2, OnlyOwn
<1>11. ASSUME NEW t \in Threads, Accept(t) \/ TryClone(t) \/ DropHandle(t) PROVE Listed'
  BY <1>11, SameCalls DEF Accept, TryClone, DropHandle
<1>12. QED
  BY <1>1, <1>2, <1>3, <1>5, <1>7, <1>8, <1>9, <1>10, <1>11 DEF Next

(* connect and bind use the first address that works and report the last   *)
(* error, for lists of any length.                                         *)
THEOREM FirstThatWorksHolds ==
  ASSUME NetAssumption
  PROVE  Spec => []FirstThatWorks
<1>1. Listed => FirstThatWorks
  BY DEF Listed
<1>2. QED
  BY <1>1, InitListed, NextListed, PTL DEF Spec

-----------------------------------------------------------------------------
CONSTANTS TimeoutTargets, SEC, US, MAX, WORD,   \* see Timeout
          ClockTargets, FREQ, MaxTime,          \* see Clock
          Never                                 \* no time

VARIABLES target, call, secs, nanos, now, tpc, alarm, left, early,
          board, time, wall, mark, got

T == INSTANCE Timeout WITH Targets <- TimeoutTargets, pc <- tpc
C == INSTANCE Clock WITH Targets <- ClockTargets, None <- Never, target <- board

(* Timeout, Clock: which waits end in time and which have no timeout, how  *)
(* long a sleep is on each target, and what Instant and SystemTime tell of *)
(* the time between two calls, except on 32-bit Linux.                     *)
TimesRight == T!TimeoutsKept /\ C!ElapsedRight

(* Division with remainder.                                                *)
LEMMA DivMod ==
  ASSUME NEW a \in Nat, NEW b \in Nat \ {0}
  PROVE  /\ a \div b \in Nat /\ a % b \in 0..b - 1
         /\ a = (a \div b) * b + (a % b)
OBVIOUS

(* A quotient from its bounds.                                             *)
LEMMA DivIs ==
  ASSUME NEW a \in Nat, NEW b \in Nat \ {0}, NEW q \in Nat, q * b <= a, a < q * b + b
  PROVE  a \div b = q
BY DivMod

(* Products.                                                               *)
LEMMA TimesMono ==
  ASSUME NEW a \in Nat, NEW b \in Nat, NEW c \in Nat, a <= b
  PROVE  a * c \in Nat /\ b * c \in Nat /\ a * c <= b * c
OBVIOUS

LEMMA TimesPlus ==
  ASSUME NEW a \in Int, NEW b \in Int, NEW c \in Int
  PROVE  (a + b) * c = a * c + b * c /\ (a - b) * c = a * c - b * c
OBVIOUS

(* The invariant of Timeout: the types;                                    *)
TimeoutTypes ==
  /\ target \in TimeoutTargets
  /\ secs \in T!Seconds /\ nanos \in 0..SEC - 1
  /\ now \in Nat /\ alarm \in Nat \cup {Never} /\ left \in Nat
  /\ tpc \in {"start", "blocked", "done"} /\ early \in BOOLEAN
(* a wait has no alarm after its Duration, and none at all only if it is   *)
(* Untimed;                                                                *)
Waits ==
  call # "sleep" =>
    /\ tpc = "start" => now = 0
    /\ tpc = "blocked" /\ alarm # Never => now <= alarm /\ alarm <= T!Dur
    /\ tpc = "blocked" => (alarm = Never <=> T!Untimed)
(* one wait of Linux is the whole sleep, or less of it on a 32-bit one;    *)
Sleeps ==
  /\ call = "sleep" /\ target = "linux" =>
       /\ tpc = "start" => now = 0
       /\ tpc = "blocked" => alarm = T!Dur /\ ~T!Negative(secs)
       /\ tpc = "done" /\ ~early => now = IF T!Negative(secs) THEN 0 ELSE T!Dur
  /\ call = "sleep" /\ target = "linux32" =>
       /\ tpc = "start" => now = 0
       /\ tpc = "blocked" => alarm # Never /\ alarm <= T!Dur
       /\ tpc = "done" /\ ~early => now <= T!Dur
(* on macOS the time slept and what is left are the whole sleep.           *)
SleepsOn ==
  call = "sleep" /\ target = "macos" /\ ~early =>
    /\ tpc = "start" => now + left * US = T!Micros * US
    /\ tpc = "blocked" => alarm # Never /\ alarm + (left - T!Chunk(left)) * US = T!Micros * US
    /\ tpc = "done" => now = T!Micros * US
TimeoutInv == TimeoutTypes /\ Waits /\ Sleeps /\ SleepsOn

(* A Duration in whole microseconds is short of it by less than one.       *)
LEMMA Durations ==
  ASSUME T!TimeoutAssumption, TimeoutTypes
  PROVE  /\ SEC \in Nat \ {0} /\ US \in Nat \ {0} /\ MAX \in Nat \ {0} /\ WORD \in Nat \ {0}
         /\ SEC = (SEC \div US) * US /\ SEC \div US \in Nat \ {0}
         /\ secs \in Nat /\ nanos \in Nat /\ nanos < SEC
         /\ T!Dur \in Nat /\ T!Micros \in Nat
         /\ T!Micros * US \in Nat /\ T!Micros * US <= T!Dur /\ T!Dur < T!Micros * US + US
<1>1. US \in Nat \ {0} /\ MAX \in Nat \ {0} /\ WORD \in Nat \ {0}
  BY DEF T!TimeoutAssumption
<1>2. PICK k \in 1..SEC : SEC = k * US
  BY DEF T!TimeoutAssumption
<1>3. SEC \in Nat \ {0} /\ k \in Nat \ {0}
  BY <1>1, <1>2
<1>4. SEC \div US = k
  <2>1. k * US <= SEC /\ SEC < k * US + US
    BY <1>1, <1>2, <1>3
  <2>2. QED
    BY <1>1, <1>3, <2>1, DivIs
<1>5. secs \in Nat /\ nanos \in Nat /\ nanos < SEC
  BY <1>1, <1>3 DEF TimeoutTypes, T!Seconds
<1>6. T!Dur \in Nat
  BY <1>3, <1>5 DEF T!Dur
<1>7. /\ T!Micros \in Nat /\ T!Dur % US \in 0..US - 1
      /\ T!Dur = T!Micros * US + (T!Dur % US)
  BY <1>1, <1>6, DivMod, Zenon DEF T!Micros
<1>8. T!Micros * US \in Nat
  BY <1>1, <1>7
<1>9. T!Micros * US <= T!Dur /\ T!Dur < T!Micros * US + US
  <2> DEFINE r == T!Dur % US
             m == T!Micros * US
  <2>1. m \in Nat /\ r \in 0..US - 1 /\ T!Dur = m + r
    BY <1>7, <1>8
  <2> HIDE DEF r, m
  <2>2. m <= T!Dur /\ T!Dur < m + US
    BY <1>1, <1>6, <2>1
  <2>3. QED
    BY <2>2 DEF m
<1>10. SEC = (SEC \div US) * US
  BY <1>2, <1>4
<1>11. QED
  BY <1>1, <1>3, <1>4, <1>5, <1>6, <1>7, <1>8, <1>9, <1>10, Zenon

(* The invariant holds at first,                                           *)
LEMMA TimeoutInitInv == ASSUME T!TimeoutAssumption PROVE T!Init => TimeoutInv
<1> SUFFICES ASSUME T!Init PROVE TimeoutInv
  OBVIOUS
<1>1. target \in TimeoutTargets /\ secs \in T!Seconds /\ nanos \in 0..SEC - 1
  BY DEF T!Init
<1>2. US \in Nat \ {0} /\ WORD \in Nat \ {0} /\ \E k \in 1..SEC : SEC = k * US
  BY DEF T!TimeoutAssumption
<1>3. SEC \in Nat \ {0}
  BY <1>2
<1>4. secs \in Nat /\ nanos \in Nat
  BY <1>1, <1>2, <1>3 DEF T!Seconds
<1>5. T!Dur \in Nat
  BY <1>3, <1>4 DEF T!Dur
<1>6. T!Micros \in Nat
  BY <1>2, <1>5, DivMod DEF T!Micros
<1>7. T!Micros * US \in Nat
  BY <1>2, <1>6
<1>8. TimeoutTypes
  BY <1>1, <1>6, Zenon DEF T!Init, TimeoutTypes
<1>9. Waits /\ Sleeps /\ SleepsOn
  BY <1>6, <1>7 DEF T!Init, Waits, Sleeps, SleepsOn
<1>10. QED
  BY <1>8, <1>9 DEF TimeoutInv

(* What the kernel is asked to wait is no more than the Duration.          *)
LEMMA SpecWithin ==
  ASSUME T!TimeoutAssumption, TimeoutTypes
  PROVE  /\ T!SpecSecs \in Nat /\ T!SpecNanos \in Nat
         /\ T!SpecSecs * SEC + T!SpecNanos <= T!Dur
         /\ T!SpecSecs <= secs
         /\ T!SpecSecs = secs \/ (target = "linux32" /\ secs >= WORD)
<1>1. /\ SEC \in Nat \ {0} /\ WORD \in Nat \ {0} /\ secs \in Nat /\ nanos \in Nat
  BY Durations
<1>2. CASE target = "linux32"
  <2> DEFINE q == secs \div WORD
             r == secs % WORD
  <2>1. q \in Nat /\ r \in Nat /\ secs = q * WORD + r
    BY <1>1, DivMod
  <2>2. T!SpecSecs = r /\ T!SpecNanos = q
    BY <1>2 DEF T!SpecSecs, T!SpecNanos
  <2>3. secs >= WORD \/ r = secs
    BY <1>1
  <2> HIDE DEF q, r
  <2>4. q * WORD \in Nat /\ q <= q * WORD
    BY <1>1, <2>1
  <2>5. secs * SEC = (q * WORD) * SEC + r * SEC
    BY <1>1, <2>1, <2>4, TimesPlus
  <2>6. q <= (q * WORD) * SEC
    BY <1>1, <2>1, <2>4
  <2>7. QED
    BY <1>1, <1>2, <2>1, <2>2, <2>3, <2>4, <2>5, <2>6 DEF T!Dur
<1>3. CASE target # "linux32"
  BY <1>1, <1>3 DEF T!SpecSecs, T!SpecNanos, T!Dur
<1>4. QED
  BY <1>2, <1>3

(* What is left of a sleep after one wait.                                 *)
LEMMA ChunkWithin ==
  ASSUME T!TimeoutAssumption, NEW n \in Nat
  PROVE  /\ T!Chunk(n) \in Nat /\ T!Chunk(n) <= n /\ n - T!Chunk(n) \in Nat
         /\ n > 0 => T!Chunk(n) > 0
         /\ T!Chunk(n) * US \in Nat /\ T!Chunk(n) * US <= n * US
         /\ n * US = T!Chunk(n) * US + (n - T!Chunk(n)) * US
<1>1. US \in Nat \ {0} /\ MAX \in Nat \ {0}
  BY DEF T!TimeoutAssumption
<1>2. /\ T!Chunk(n) \in Nat /\ T!Chunk(n) <= n /\ n - T!Chunk(n) \in Nat
      /\ n > 0 => T!Chunk(n) > 0
  BY <1>1 DEF T!Chunk
<1>3. QED
  BY <1>1, <1>2, TimesMono, TimesPlus

(* every step keeps it,                                                    *)
LEMMA TimeoutNextInv ==
  ASSUME T!TimeoutAssumption
  PROVE  TimeoutInv /\ [T!Next]_(T!vars) => TimeoutInv'
<1> SUFFICES ASSUME TimeoutInv, [T!Next]_(T!vars) PROVE TimeoutInv'
  OBVIOUS
<1> USE DEF TimeoutInv
<1>0. /\ Never \notin Nat
      /\ SEC \in Nat \ {0} /\ US \in Nat \ {0} /\ MAX \in Nat \ {0} /\ WORD \in Nat \ {0}
      /\ secs \in Nat /\ nanos \in Nat
      /\ T!Dur \in Nat /\ T!Micros \in Nat
      /\ T!Micros * US \in Nat /\ T!Micros * US <= T!Dur /\ T!Dur < T!Micros * US + US
      /\ now \in Nat /\ left \in Nat
  BY Durations, Zenon DEF T!TimeoutAssumption, TimeoutTypes
<1>s. ASSUME UNCHANGED T!input
      PROVE  /\ UNCHANGED <<target, call, secs, nanos, T!Dur, T!Micros, T!Untimed, T!Negative(secs)>>
             /\ (target \in TimeoutTargets /\ secs \in T!Seconds /\ nanos \in 0..SEC - 1)'
  BY <1>s DEF T!input, T!Dur, T!Micros, T!Untimed, T!SpecSecs, T!Negative, TimeoutTypes
<1>1. ASSUME NEW n \in Nat \cup {Never}, T!Block(n), tpc = "start",
             call # "sleep" => /\ n # Never => now <= n /\ n <= T!Dur
                               /\ n = Never <=> T!Untimed,
             call = "sleep" /\ target = "linux" => n = T!Dur /\ ~T!Negative(secs),
             call = "sleep" /\ target = "linux32" => n # Never /\ n <= T!Dur,
             call = "sleep" /\ target = "macos" /\ ~early =>
               n # Never /\ n + (left - T!Chunk(left)) * US = T!Micros * US
      PROVE  TimeoutInv'
  <2>1. UNCHANGED T!input /\ UNCHANGED <<now, left, early>> /\ alarm' = n /\ tpc' = "blocked"
    BY <1>1 DEF T!Block
  <2>2. T!Chunk(left)' = T!Chunk(left)
    BY <2>1 DEF T!Chunk
  <2>3. TimeoutTypes'
    BY <1>s, <1>1, <2>1, SMTT(30) DEF TimeoutTypes
  <2>4. Waits' /\ Sleeps' /\ SleepsOn'
    BY <1>s, <1>1, <2>1, <2>2 DEF Waits, Sleeps, SleepsOn
  <2>5. QED
    BY <2>3, <2>4
<1>2. ASSUME T!Return, tpc = "start",
             call = "sleep" /\ target = "linux" => T!Negative(secs) /\ now = 0,
             call = "sleep" /\ target = "macos" /\ ~early => now = T!Micros * US
      PROVE  TimeoutInv'
  <2>1. UNCHANGED T!input /\ UNCHANGED <<now, alarm, left, early>> /\ tpc' = "done"
    BY <1>2 DEF T!Return
  <2>2. QED
    BY <1>0, <1>s, <1>2, <2>1 DEF TimeoutTypes, Waits, Sleeps, SleepsOn
<1>3. CASE T!UlockWait
  <2> DEFINE c == T!Chunk(T!Micros)
  <2>1. c \in Nat /\ (T!Micros > 0 => c > 0) /\ c * US \in Nat /\ c * US <= T!Micros * US
    BY <1>0, ChunkWithin, Zenon
  <2>2. /\ tpc = "start" /\ call = "futex_wait_timeout" /\ target = "macos"
        /\ T!Block(IF c = 0 THEN Never ELSE now + c * US)
    BY <1>3 DEF T!UlockWait
  <2>3. now = 0
    BY <2>2 DEF Waits
  <2> HIDE DEF c
  <2>4. CASE c = 0
    <3>1. T!Untimed
      BY <1>0, <2>1, <2>2, <2>4 DEF T!Untimed
    <3>2. T!Block(Never)
      BY <2>2, <2>4
    <3>3. QED
      BY <1>1, <2>2, <3>1, <3>2, Zenon
  <2>5. CASE c # 0
    <3>1. T!Block(now + c * US)
      BY <2>2, <2>5
    <3>2. /\ now + c * US \in Nat /\ now + c * US # Never
          /\ now <= now + c * US /\ now + c * US <= T!Dur
      BY <1>0, <2>1, <2>3
    <3>3. ~T!Untimed
      BY <1>0, <2>1, <2>2, <2>5 DEF T!Untimed
    <3>4. QED
      BY <1>1, <2>2, <3>1, <3>2, <3>3
  <2>6. QED
    BY <2>4, <2>5
<1>4. CASE T!UlockSleep
  <2>1. tpc = "start" /\ call = "sleep" /\ target = "macos"
    BY <1>4 DEF T!UlockSleep
  <2>2. ~early => now + left * US = T!Micros * US
    BY <2>1 DEF SleepsOn
  <2>3. CASE left = 0
    <3>1. T!Return
      BY <1>4, <2>3 DEF T!UlockSleep
    <3>2. ~early => now = T!Micros * US
      BY <1>0, <2>2, <2>3
    <3>3. QED
      BY <1>2, <2>1, <3>1, <3>2
  <2>4. CASE left # 0
    <3> DEFINE c == T!Chunk(left)
               d == (left - T!Chunk(left)) * US
    <3>1. T!Block(now + c * US)
      BY <1>4, <2>4 DEF T!UlockSleep
    <3>2. c * US \in Nat /\ left * US = c * US + d /\ c \in Nat /\ left - c \in Nat
      BY <1>0, ChunkWithin, Zenon
    <3>3. d \in Nat
      BY <1>0, <3>2
    <3> HIDE DEF c, d
    <3>4. /\ now + c * US \in Nat /\ now + c * US # Never
          /\ ~early => now + c * US + d = T!Micros * US
      BY <1>0, <2>2, <3>2, <3>3
    <3>5. QED
      BY <1>1, <2>1, <3>1, <3>4 DEF d
  <2>5. QED
    BY <2>3, <2>4
<1>5. CASE T!Timespec
  <2>1. tpc = "start" /\ call # "recv" /\ target # "macos"
    BY <1>5 DEF T!Timespec
  <2>2. CASE T!Return
    <3>1. ASSUME call = "sleep", target = "linux" PROVE T!Negative(secs) /\ now = 0
      <4>1. T!SpecSecs = secs /\ T!SpecNanos = nanos /\ nanos < SEC
        BY <3>1, Durations DEF T!SpecSecs, T!SpecNanos
      <4>2. T!Negative(secs)
        BY <1>0, <1>5, <2>2, <4>1 DEF T!Timespec, T!Return, T!Block
      <4>3. QED
        BY <2>1, <3>1, <4>2 DEF Sleeps
    <3>2. QED
      BY <1>2, <2>1, <2>2, <3>1
  <2>3. CASE T!Block(now + T!SpecSecs * SEC + T!SpecNanos)
    <3> DEFINE w == T!SpecSecs * SEC
               n == now + w + T!SpecNanos
    <3>1. w \in Nat /\ T!SpecNanos \in Nat /\ w + T!SpecNanos <= T!Dur
      BY <1>0, SpecWithin
    <3>2. call = "sleep" /\ target = "linux" => w + T!SpecNanos = T!Dur /\ ~T!Negative(secs)
      BY <1>5, <2>3 DEF T!Timespec, T!Return, T!Block, T!SpecSecs, T!SpecNanos, T!Dur
    <3>3. now = 0 /\ ~T!Untimed
      BY <2>1 DEF Waits, Sleeps, T!Untimed, TimeoutTypes, T!TimeoutAssumption
    <3> HIDE DEF w
    <3>4. /\ n \in Nat /\ n # Never /\ now <= n /\ n <= T!Dur
          /\ call = "sleep" /\ target = "linux" => n = T!Dur /\ ~T!Negative(secs)
      BY <1>0, <3>1, <3>2, <3>3
    <3>5. T!Block(n)
      BY <2>3 DEF w
    <3> HIDE DEF n
    <3>6. QED
      BY <1>1, <2>1, <3>3, <3>4, <3>5
  <2>4. QED
    BY <1>5, <2>2, <2>3 DEF T!Timespec
<1>6. CASE T!Timeval
  <2> DEFINE k == SEC \div US
             m == nanos \div US
             us == T!SpecSecs * k + m
  <2>1. tpc = "start" /\ call = "recv" /\ now = 0
    BY <1>6 DEF T!Timeval, Waits
  <2>2. T!Return \/ T!Block(IF us = 0 THEN Never ELSE now + us * US)
    BY <1>6 DEF T!Timeval
  <2>3. k \in Nat \ {0} /\ SEC = k * US
    BY Durations, Zenon
  <2>4. m \in Nat /\ m * US <= nanos /\ nanos < m * US + US /\ m * US \in Nat
    <3>1. m \in Nat /\ nanos % US \in 0..US - 1 /\ nanos = m * US + (nanos % US)
      BY <1>0, DivMod, Zenon
    <3>2. m * US \in Nat
      BY <1>0, <3>1
    <3> HIDE DEF m
    <3>3. QED
      BY <1>0, <3>1, <3>2
  <2>5. /\ T!SpecSecs \in Nat /\ T!SpecSecs <= secs
        /\ T!SpecSecs = secs \/ (target = "linux32" /\ secs >= WORD)
    BY SpecWithin, Zenon
  <2>6. T!SpecSecs * SEC \in Nat /\ T!SpecSecs * SEC <= secs * SEC /\ secs * SEC \in Nat
    BY <1>0, <2>5, TimesMono
  <2> HIDE DEF k, m
  <2>7. T!SpecSecs * k \in Nat /\ (T!SpecSecs * k) * US = T!SpecSecs * SEC
    BY <1>0, <2>3, <2>5
  <2>8. us \in Nat /\ us * US = T!SpecSecs * SEC + m * US
    BY <1>0, <2>4, <2>7, TimesPlus
  <2>9. us = 0 <=> T!SpecSecs = 0 /\ m = 0
    BY <2>3, <2>4, <2>5, <2>7
  <2> HIDE DEF us
  <2>10. us * US \in Nat /\ us * US <= T!Dur
    BY <1>0, <2>4, <2>6, <2>8 DEF T!Dur
  <2>11. us = 0 <=> T!Untimed
    BY <1>0, <2>1, <2>4, <2>5, <2>9 DEF T!Untimed
  <2>12. CASE T!Return
    BY <1>2, <2>1, <2>12
  <2>13. CASE us = 0 /\ T!Block(Never)
    BY <1>1, <2>1, <2>11, <2>13, Zenon
  <2>14. CASE us # 0 /\ T!Block(now + us * US)
    <3>1. /\ now + us * US \in Nat /\ now + us * US # Never
          /\ now <= now + us * US /\ now + us * US <= T!Dur
      BY <1>0, <2>1, <2>10
    <3>2. QED
      BY <1>1, <2>1, <2>11, <2>14, <3>1
  <2>15. QED
    BY <2>2, <2>12, <2>13, <2>14
<1>7. CASE T!Unblock
  <2>1. /\ UNCHANGED T!input /\ UNCHANGED <<now, alarm>>
        /\ tpc = "blocked" /\ tpc' \in {"start", "done"}
    BY <1>7 DEF T!Unblock
  <2>2. early' \in BOOLEAN /\ (~early' => ~early /\ now = alarm)
    <3>1. early \in BOOLEAN /\ early' \in {early, TRUE} /\ (early' \/ now = alarm)
      BY <1>7, ZenonT(60) DEF T!Unblock, TimeoutTypes
    <3>2. QED
      BY <3>1, Zenon
  <2>3. CASE call = "sleep" /\ target = "macos"
    <3>1. left' = left - T!Chunk(left) /\ tpc' = "start"
      BY <1>7, <2>3 DEF T!Unblock
    <3>2. left' \in Nat
      BY <1>0, <3>1, ChunkWithin
    <3>3. ~early' => now + left' * US = T!Micros * US
      BY <2>1, <2>2, <2>3, <3>1, SMTT(30) DEF SleepsOn
    <3>4. QED
      BY <1>s, <2>1, <2>2, <2>3, <3>1, <3>2, <3>3 DEF TimeoutTypes, Waits, Sleeps, SleepsOn
  <2>4. CASE ~(call = "sleep" /\ target = "macos")
    <3>1. left' = left /\ tpc' = "done"
      BY <1>7, <2>4 DEF T!Unblock
    <3>2. call = "sleep" /\ ~early' =>
            /\ target = "linux" => now = T!Dur /\ ~T!Negative(secs)
            /\ target = "linux32" => now <= T!Dur
      BY <2>1, <2>2 DEF Sleeps
    <3>3. QED
      BY <1>s, <2>1, <2>2, <2>4, <3>1, <3>2 DEF TimeoutTypes, Waits, Sleeps, SleepsOn
  <2>5. QED
    BY <2>3, <2>4
<1>8. CASE T!Tick
  <2>1. UNCHANGED T!input /\ UNCHANGED <<tpc, alarm, left, early>> /\ now' = now + 1
        /\ tpc = "blocked" /\ now # alarm
    BY <1>8 DEF T!Tick
  <2>2. T!Chunk(left)' = T!Chunk(left)
    BY <2>1 DEF T!Chunk
  <2>3. TimeoutTypes'
    BY <1>0, <1>s, <2>1 DEF TimeoutTypes
  <2>4. Waits'
    <3>1. alarm # Never => alarm \in Nat
      BY DEF TimeoutTypes
    <3>2. QED
      BY <1>0, <1>s, <2>1, <3>1 DEF Waits
  <2>5. Sleeps' /\ SleepsOn'
    BY <1>s, <2>1, <2>2, SMTT(30) DEF Sleeps, SleepsOn
  <2>6. QED
    BY <2>3, <2>4, <2>5
<1>9. CASE UNCHANGED T!vars
  <2>1. UNCHANGED T!input /\ UNCHANGED <<tpc, alarm, left, early, now>>
    BY <1>9 DEF T!vars, T!input
  <2>2. T!Chunk(left)' = T!Chunk(left)
    BY <2>1 DEF T!Chunk
  <2>3. QED
    BY <1>s, <2>1, <2>2 DEF TimeoutTypes, Waits, Sleeps, SleepsOn
<1>10. QED
  BY <1>3, <1>4, <1>5, <1>6, <1>7, <1>8, <1>9 DEF T!Next

(* and it says that timeouts are kept.                                     *)
LEMMA TimeoutInvKept == ASSUME T!TimeoutAssumption PROVE TimeoutInv => T!TimeoutsKept
<1> SUFFICES ASSUME TimeoutInv PROVE T!TimeoutsKept
  OBVIOUS
<1>1. /\ T!Dur \in Nat /\ T!Micros * US \in Nat /\ T!Micros * US <= T!Dur /\ US \in Nat
      /\ now \in Nat /\ (alarm # Never => alarm \in Nat)
      /\ target \in {"macos", "linux", "linux32"}
  BY Durations DEF TimeoutInv, TimeoutTypes, T!TimeoutAssumption
<1>2. ASSUME tpc = "blocked", call # "sleep"
      PROVE  IF T!Untimed THEN alarm = Never ELSE now <= T!Dur
  BY <1>1, <1>2 DEF TimeoutInv, Waits
<1>3. ASSUME tpc = "done", call = "sleep", ~early
      PROVE  /\ target = "macos" => now = T!Micros * US
             /\ target = "linux" => now = IF T!Negative(secs) THEN 0 ELSE T!Dur
             /\ target = "linux32" => now <= T!Dur
  BY <1>1, <1>3 DEF TimeoutInv, Sleeps, SleepsOn
<1>4. QED
  BY <1>2, <1>3 DEF T!TimeoutsKept

(* A larger dividend has no smaller quotient.                              *)
LEMMA DivMono ==
  ASSUME NEW a \in Nat, NEW b \in Nat, NEW c \in Nat \ {0}, a <= b
  PROVE  a \div c <= b \div c
BY DivMod

(* What an Instant of macOS says at time t, and a time in whole            *)
(* microseconds.                                                           *)
Ticks(t) == (((t * FREQ) \div SEC) * SEC) \div FREQ
Whole(w) == (w \div US) * US

(* The invariant of Clock: what was taken is what the clocks said then,    *)
(* and what was returned is the difference to what they say now.           *)
ClockInv ==
  /\ board \in ClockTargets /\ time \in Nat /\ wall \in Nat
  /\ mark # Never =>
       /\ mark.time \in Nat /\ mark.wall \in Nat /\ mark.time <= time
       /\ board = "linux" => mark.instant = mark.time
       /\ board = "macos" => mark.instant = Ticks(mark.time)
       /\ board = "macos_x86" => mark.instant = Whole(mark.wall)
       /\ board # "linux32" => mark.system = Whole(mark.wall)
  /\ got # Never =>
       /\ mark # Never
       /\ got.instant = C!InstantSince(C!InstantNow, mark.instant)
       /\ got.system = C!SystemSince(C!SystemNow, mark.system)

(* A second is so many whole microseconds.                                 *)
LEMMA ClockConstants ==
  ASSUME C!ClockAssumption
  PROVE  /\ US \in Nat \ {0} /\ SEC \in Nat \ {0} /\ FREQ \in Nat \ {0}
         /\ SEC \div US \in Nat /\ SEC = (SEC \div US) * US
<1>1. PICK k \in 1..SEC : SEC = k * US
  BY DEF C!ClockAssumption
<1>2. US \in Nat \ {0} /\ FREQ \in 1..SEC
  BY DEF C!ClockAssumption
<1>3. SEC \in Nat \ {0} /\ k \in Nat \ {0} /\ FREQ \in Nat \ {0}
  BY <1>1, <1>2
<1>4. k * US <= SEC /\ SEC < k * US + US
  BY <1>1, <1>2, <1>3
<1>5. SEC \div US = k
  BY <1>2, <1>3, <1>4, DivIs
<1>6. QED
  BY <1>1, <1>2, <1>3, <1>5

(* The counter of macOS is less than a tick, and a nanosecond, late,       *)
LEMMA TicksRight ==
  ASSUME C!ClockAssumption, NEW t \in Nat
  PROVE  /\ Ticks(t) \in Nat /\ Ticks(t) <= t /\ SEC \div FREQ \in Nat
         /\ t <= Ticks(t) + (SEC \div FREQ) + 1
<1>1. SEC \in Nat \ {0} /\ FREQ \in Nat \ {0}
  BY ClockConstants
<1> DEFINE p == t * FREQ
           c == p \div SEC
           d == c * SEC
           i == Ticks(t)
           e == SEC \div FREQ
<1>2. p \in Nat
  BY <1>1
<1>3. c \in Nat /\ d \in Nat /\ d <= p /\ p < d + SEC
  <2>1. c \in Nat /\ p % SEC \in 0..SEC - 1 /\ p = d + (p % SEC)
    BY <1>1, <1>2, DivMod, Zenon
  <2>2. d \in Nat
    BY <1>1, <2>1
  <2> HIDE DEF c, d, p
  <2>3. QED
    BY <1>1, <1>2, <2>1, <2>2
<1>4. i \in Nat /\ i * FREQ \in Nat /\ i * FREQ <= d /\ d < i * FREQ + FREQ
  <2>1. i \in Nat /\ d % FREQ \in 0..FREQ - 1 /\ d = i * FREQ + (d % FREQ)
    BY <1>1, <1>3, DivMod, Zenon DEF Ticks
  <2>2. i * FREQ \in Nat
    BY <1>1, <2>1
  <2> HIDE DEF i, d
  <2>3. QED
    BY <1>1, <1>3, <2>1, <2>2
<1>5. e \in Nat /\ e * FREQ \in Nat /\ SEC < e * FREQ + FREQ
  <2>1. e \in Nat /\ SEC % FREQ \in 0..FREQ - 1 /\ SEC = e * FREQ + (SEC % FREQ)
    BY <1>1, DivMod
  <2>2. e * FREQ \in Nat
    BY <1>1, <2>1
  <2> HIDE DEF e
  <2>3. QED
    BY <1>1, <2>1, <2>2
<1> HIDE DEF i, d, c, e
<1>6. i <= t
  <2>1. SUFFICES ASSUME i >= t + 1 PROVE FALSE
    BY <1>4
  <2>2. (t + 1) * FREQ <= i * FREQ /\ (t + 1) * FREQ = p + FREQ
    BY <1>1, <1>4, <2>1, TimesMono, TimesPlus
  <2> HIDE DEF p
  <2>3. QED
    BY <1>1, <1>2, <1>3, <1>4, <2>2
<1>7. t <= i + e + 1
  <2>1. SUFFICES ASSUME i + e + 2 <= t PROVE FALSE
    BY <1>4, <1>5
  <2>2. (i + e + 2) * FREQ <= p
    BY <1>1, <1>4, <1>5, <2>1, TimesMono
  <2>3. (i + e + 2) * FREQ = i * FREQ + e * FREQ + FREQ + FREQ
    BY <1>1, <1>4, <1>5
  <2> HIDE DEF p
  <2>4. QED
    BY <1>1, <1>2, <1>3, <1>4, <1>5, <2>2, <2>3
<1>8. QED
  BY <1>4, <1>5, <1>6, <1>7 DEF i, e

(* and never goes back.                                                    *)
LEMMA TicksMono ==
  ASSUME C!ClockAssumption, NEW a \in Nat, NEW b \in Nat, a <= b
  PROVE  Ticks(a) <= Ticks(b)
<1>1. SEC \in Nat \ {0} /\ FREQ \in Nat \ {0}
  BY ClockConstants
<1>2. a * FREQ \in Nat /\ b * FREQ \in Nat /\ a * FREQ <= b * FREQ
  BY <1>1, TimesMono
<1>3. /\ (a * FREQ) \div SEC \in Nat /\ (b * FREQ) \div SEC \in Nat
      /\ (a * FREQ) \div SEC <= (b * FREQ) \div SEC
  BY <1>1, <1>2, DivMono, DivMod
<1> DEFINE x == (a * FREQ) \div SEC
           y == (b * FREQ) \div SEC
<1> HIDE DEF x, y
<1>4. x * SEC \in Nat /\ y * SEC \in Nat /\ x * SEC <= y * SEC
  BY <1>1, <1>3, TimesMono, SMTT(30) DEF x, y
<1>5. QED
  BY <1>1, <1>4, DivMono DEF Ticks, x, y

(* What the clocks say.                                                    *)
LEMMA NowIs ==
  ASSUME C!ClockAssumption, time \in Nat, wall \in Nat
  PROVE  /\ board = "linux" => C!InstantNow = time
         /\ board = "macos" => C!InstantNow = Ticks(time)
         /\ board = "macos_x86" => C!InstantNow = Whole(wall)
         /\ board # "linux32" => C!SystemNow = Whole(wall)
<1>0. /\ US \in Nat \ {0} /\ SEC \in Nat \ {0} /\ FREQ \in Nat \ {0}
      /\ SEC \div US \in Nat /\ SEC = (SEC \div US) * US
  BY ClockConstants
<1>1. (wall \div SEC) * SEC + ((wall % SEC) \div US) * US = Whole(wall)
  <2> DEFINE s == wall \div SEC
             r == wall % SEC
             m == r \div US
             k == SEC \div US
  <2>1. s \in Nat /\ r \in Nat /\ wall = s * SEC + r
    BY <1>0, DivMod
  <2>2. m \in Nat /\ r % US \in 0..US - 1 /\ r = m * US + (r % US)
    <3> HIDE DEF r
    <3>1. QED
      BY <1>0, <2>1, DivMod, Zenon
  <2>3. k \in Nat /\ SEC = k * US
    BY <1>0
  <2> HIDE DEF s, r, m, k
  <2>4. m * US \in Nat /\ s * SEC \in Nat /\ s * k \in Nat /\ s * SEC = (s * k) * US
    BY <1>0, <2>1, <2>2, <2>3
  <2>5. (s * k + m) * US = s * SEC + m * US
    BY <1>0, <2>2, <2>4, TimesPlus
  <2>6. (s * k + m) * US <= wall /\ wall < (s * k + m) * US + US
    BY <1>0, <2>1, <2>2, <2>4, <2>5
  <2>7. wall \div US = s * k + m
    <3> DEFINE w == s * k + m
    <3>1. w \in Nat /\ w * US <= wall /\ wall < w * US + US
      BY <2>2, <2>4, <2>6
    <3> HIDE DEF w
    <3>2. wall \div US = w
      BY <1>0, <3>1, DivIs, SMTT(30)
    <3>3. QED
      BY <3>2 DEF w
  <2>8. QED
    BY <2>5, <2>7 DEF Whole, s, m, r
<1>2. CASE board = "linux"
  <2>1. C!InstantNow = (time \div SEC) * SEC + (time % SEC)
    BY <1>2 DEF C!InstantNow, C!Monotonic
  <2>2. C!SystemNow = (wall \div SEC) * SEC + ((wall % SEC) \div US) * US
    BY <1>2 DEF C!SystemNow, C!GetTimeOfDay
  <2>3. QED
    BY <1>0, <1>1, <1>2, <2>1, <2>2, DivMod
<1>3. CASE board = "macos"
  <2> DEFINE c == (time * FREQ) \div SEC
  <2>1. C!InstantNow = (c \div FREQ) * SEC + (((c % FREQ) * SEC) \div FREQ)
    BY <1>3 DEF C!InstantNow, C!Monotonic
  <2>2. c \in Nat
    BY <1>0, DivMod
  <2>3. C!InstantNow = (c * SEC) \div FREQ
    <3> HIDE DEF c
    <3> DEFINE q == c \div FREQ
               r == c % FREQ
               n == (r * SEC) \div FREQ
    <3>1. q \in Nat /\ r \in Nat /\ c = q * FREQ + r
      BY <1>0, <2>2, DivMod
    <3>2. r * SEC \in Nat
      BY <1>0, <3>1
    <3>3. n \in Nat /\ (r * SEC) % FREQ \in 0..FREQ - 1 /\ r * SEC = n * FREQ + ((r * SEC) % FREQ)
      BY <1>0, <3>2, DivMod, Zenon
    <3>4. C!InstantNow = q * SEC + n
      BY <2>1
    <3> HIDE DEF q, r, n
    <3>5. q * SEC \in Nat /\ c * SEC = (q * SEC) * FREQ + r * SEC
      BY <1>0, <3>1
    <3>6. (q * SEC + n) * FREQ = (q * SEC) * FREQ + n * FREQ
      BY <1>0, <3>3, <3>5, TimesPlus
    <3>7. n * FREQ \in Nat /\ (q * SEC) * FREQ \in Nat /\ c * SEC \in Nat
      BY <1>0, <2>2, <3>3, <3>5, SMTT(30)
    <3>8. (q * SEC + n) * FREQ <= c * SEC /\ c * SEC < (q * SEC + n) * FREQ + FREQ
      BY <1>0, <3>2, <3>3, <3>5, <3>6, <3>7
    <3>9. (c * SEC) \div FREQ = q * SEC + n
      <4> DEFINE w == q * SEC + n
                 d == c * SEC
      <4>1. w \in Nat /\ d \in Nat /\ w * FREQ <= d /\ d < w * FREQ + FREQ
        BY <3>3, <3>5, <3>7, <3>8
      <4> HIDE DEF w, d
      <4>2. d \div FREQ = w
        BY <1>0, <4>1, DivIs
      <4>3. QED
        BY <4>2 DEF w, d
    <3>10. QED
      BY <3>4, <3>9
  <2>4. C!SystemNow = (wall \div SEC) * SEC + ((wall % SEC) \div US) * US
    BY <1>3 DEF C!SystemNow, C!GetTimeOfDay
  <2>5. QED
    BY <1>1, <1>3, <2>3, <2>4 DEF Ticks
<1>4. CASE board = "macos_x86"
  <2>1. C!InstantNow = (wall \div SEC) * SEC + ((wall % SEC) \div US) * US
    BY <1>4 DEF C!InstantNow, C!Monotonic
  <2>2. C!SystemNow = (wall \div SEC) * SEC + ((wall % SEC) \div US) * US
    BY <1>4 DEF C!SystemNow, C!GetTimeOfDay
  <2>3. QED
    BY <1>1, <1>4, <2>1, <2>2
<1>5. CASE board \notin {"linux", "macos", "macos_x86", "linux32"}
  <2>1. C!SystemNow = (wall \div SEC) * SEC + ((wall % SEC) \div US) * US
    BY <1>5 DEF C!SystemNow, C!GetTimeOfDay
  <2>2. QED
    BY <1>1, <1>5, <2>1
<1>6. QED
  BY <1>2, <1>3, <1>4, <1>5

(* Whole microseconds are a number of nanoseconds.                         *)
LEMMA WholeNat ==
  ASSUME C!ClockAssumption, NEW w \in Nat
  PROVE  Whole(w) \in Nat
<1>1. US \in Nat \ {0}
  BY ClockConstants
<1>2. w \div US \in Nat
  BY <1>1, DivMod
<1>3. QED
  BY <1>1, <1>2 DEF Whole

(* The invariant holds at first,                                           *)
LEMMA ClockInitInv ==
  ASSUME C!ClockAssumption, C!Init
  PROVE  ClockInv
<1>1. 0..MaxTime \subseteq Nat
  BY SMTT(30) DEF C!ClockAssumption
<1>2. QED
  BY <1>1, SMTT(30) DEF C!Init, ClockInv

(* every step keeps it,                                                    *)
LEMMA ClockNextInv ==
  ASSUME C!ClockAssumption, ClockInv, [C!Next]_C!vars
  PROVE  ClockInv'
<1>0. 0..MaxTime \subseteq Nat
  BY SMTT(30) DEF C!ClockAssumption
<1> USE DEF ClockInv
<1>1. CASE C!Now
  BY <1>1, NowIs, SMTT(30) DEF C!Now
<1>2. CASE C!Elapsed
  <2>1. UNCHANGED <<board, time, wall, mark>> /\ mark # Never
    BY <1>2 DEF C!Elapsed
  <2>2. C!InstantNow' = C!InstantNow /\ C!SystemNow' = C!SystemNow
    BY <2>1, SMTT(30) DEF C!InstantNow, C!SystemNow, C!Monotonic, C!GetTimeOfDay
  <2>3. got'.instant = C!InstantSince(C!InstantNow, mark.instant)
        /\ got'.system = C!SystemSince(C!SystemNow, mark.system)
    BY <1>2, SMTT(30) DEF C!Elapsed
  <2>4. QED
    BY <2>1, <2>2, <2>3, SMTT(30) DEF C!InstantSince, C!SystemSince
<1>3. CASE C!Tick
  BY <1>3, SMTT(30) DEF C!Tick
<1>4. CASE C!SetWall
  BY <1>0, <1>4, SMTT(30) DEF C!SetWall
<1>5. CASE UNCHANGED C!vars
  <2>1. C!InstantNow' = C!InstantNow /\ C!SystemNow' = C!SystemNow
    BY <1>5, SMTT(30) DEF C!vars, C!InstantNow, C!SystemNow, C!Monotonic, C!GetTimeOfDay
  <2>2. QED
    BY <1>5, <2>1 DEF C!vars, C!InstantSince, C!SystemSince
<1>6. QED
  BY <1>1, <1>2, <1>3, <1>4, <1>5 DEF C!Next

(* and it says that the elapsed times are right.                           *)
LEMMA ClockInvElapsed ==
  ASSUME C!ClockAssumption, ClockInv
  PROVE  C!ElapsedRight
<1>1. SUFFICES ASSUME got # Never, board # "linux32" PROVE C!ElapsedRight
  BY DEF C!ElapsedRight
<1>2. /\ time \in Nat /\ wall \in Nat /\ mark # Never
      /\ mark.time \in Nat /\ mark.wall \in Nat /\ mark.time <= time
  BY <1>1 DEF ClockInv
<1>3. Whole(wall) \in Nat /\ Whole(mark.wall) \in Nat
  BY <1>2, WholeNat
<1>4. C!SystemNow = Whole(wall) /\ mark.system = Whole(mark.wall)
  BY <1>1, <1>2, NowIs, SMTT(30) DEF ClockInv
<1> DEFINE moved == Whole(wall) - Whole(mark.wall)
           passed == time - mark.time
           tick == SEC \div FREQ + 2
<1>5. got.system = IF moved < 0 THEN <<"Err", -moved>> ELSE <<"Ok", moved>>
  BY <1>1, <1>3, <1>4, SMTT(30) DEF ClockInv, C!SystemSince
<1>6. board = "linux" => got.instant = passed
  BY <1>1, <1>2, NowIs, SMTT(30) DEF ClockInv, C!InstantSince
<1>7. board = "macos" => /\ C!InstantNow >= mark.instant
                         /\ got.instant - passed \in -tick..tick
  <2>1. SUFFICES ASSUME board = "macos"
                 PROVE  /\ C!InstantNow >= mark.instant
                        /\ got.instant - passed \in -tick..tick
    OBVIOUS
  <2>2. /\ C!InstantNow = Ticks(time) /\ mark.instant = Ticks(mark.time)
        /\ got.instant = C!InstantSince(Ticks(time), Ticks(mark.time))
    BY <1>1, <1>2, <2>1, NowIs, SMTT(30) DEF ClockInv
  <2> DEFINE a == Ticks(mark.time)
             b == Ticks(time)
             e == SEC \div FREQ
  <2>3. /\ a \in Nat /\ b \in Nat /\ e \in Nat /\ a <= b
        /\ a <= mark.time /\ mark.time <= a + e + 1
        /\ b <= time /\ time <= b + e + 1
    BY <1>2, TicksRight, TicksMono, SMTT(30)
  <2>4. got.instant = b - a
    BY <2>2, <2>3, SMTT(30) DEF C!InstantSince
  <2> HIDE DEF a, b, e
  <2>5. QED
    BY <1>2, <2>2, <2>3, <2>4 DEF a, b, e
<1>8. board = "macos_x86" => got.instant = IF moved < 0 THEN 0 ELSE moved
  BY <1>1, <1>2, <1>3, NowIs DEF ClockInv, C!InstantSince
<1>9. QED
  BY <1>5, <1>6, <1>7, <1>8, SMTT(30) DEF C!ElapsedRight, Whole

(* For every Duration, every clock rate and however the wall clock is set: *)
(* a wait ends with its timeout unless it is Untimed, a sleep lasts its    *)
(* Duration on Linux (below 2^63 seconds), the whole microseconds of it on *)
(* macOS and no more than it on 32-bit Linux; an Instant tells the time    *)
(* passed on Linux and, to a tick, on macOS arm64, and what the wall clock *)
(* moved on macOS x86_64; a SystemTime tells what the wall clock moved.    *)
(* Nothing is said of the clocks of 32-bit Linux.                          *)
THEOREM TimesRightHolds ==
  ASSUME T!TimeoutAssumption, C!ClockAssumption
  PROVE  T!Spec /\ C!Spec => []TimesRight
<1>1. TimeoutInv /\ ClockInv => TimesRight
  BY TimeoutInvKept, ClockInvElapsed DEF TimesRight
<1>2. QED
  BY <1>1, TimeoutInitInv, TimeoutNextInv, ClockInitInv, ClockNextInv, PTL DEF T!Spec, C!Spec
=============================================================================
