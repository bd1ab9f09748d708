--------------------------- MODULE CondvarProofs ---------------------------
(***************************************************************************)
(* The three users of a condition variable, wait_while, Barrier and        *)
(* Channel, and what they promise, for any number of threads, messages and *)
(* calls: no notification is lost, a barrier lets its threads through      *)
(* together, and a channel delivers.                                       *)
(***************************************************************************)
EXTENDS Naturals, Sequences, FiniteSetTheorems, TLAPS

(* The channel delivers, for any number of senders, messages and receives. *)

CONSTANTS Senders, Receiver, First, MaxSend, MaxRecv, \* see Channel
          Nobody, SeqLimit                            \* None and SeqSize of Channel

VARIABLES qOwner, qSeq, qAsleep, qCv, qSeen, queue, senders, receiver_gone, qPc,
          tries, sent, got, qCalls, received

Q == INSTANCE Channel WITH None <- Nobody, SeqSize <- SeqLimit, owner <- qOwner,
                           seq <- qSeq, asleep <- qAsleep, cv <- qCv, seen <- qSeen,
                           pc <- qPc, calls <- qCalls, result <- received

ASSUME SendingAssumption == Q!ChannelAssumption

(* Channel: messages arrive once, in each sender's order, and Disconnected *)
(* is final.                                                               *)
Delivers == Q!Delivers

(* The channel's finite sets and cardinalities are the library's.          *)
LEMMA ChannelFinite ==
  ASSUME NEW S
  PROVE  (Q!IsFiniteSet(S) <=> IsFiniteSet(S)) /\ Q!Cardinality(S) = Cardinality(S)
BY DEF Q!IsFiniteSet, IsFiniteSet, Q!Cardinality, Cardinality

(* The threads that own a Sender.                                          *)
Live == {t \in Senders : qPc[t] \in {"ready", "slock", "push", "notify"}}

(* The inductive strengthening of Delivers: `senders` counts the Senders,  *)
(* only the receiver waits on the condition variable, it holds the queue's *)
(* mutex from the pop that found nothing to the test of `senders`, and so  *)
(* the queue is still empty when it makes that test.                       *)
ChannelTypes ==
  /\ queue \in Seq(Senders \X Nat) /\ got \in Seq(Senders \X Nat)
  /\ sent \in [Senders -> Seq(Senders \X Nat)] /\ tries \in [Senders -> Nat]
  /\ qPc \in [Q!Threads -> Q!SenderPC \cup Q!ReceiverPC]
  /\ qCv \in [Q!Threads -> Q!C!CvPC]
  /\ senders \in Nat /\ senders = Cardinality(Live)
Holding ==
  /\ \A t \in Senders : qPc[t] \in Q!SenderPC /\ qCv[t] \in {"out", "wake1", "wakeall"}
  /\ qCv[Receiver] \in {"out", "unlock", "wait", "relock"}
  /\ qCv[Receiver] # "out" => qPc[Receiver] = "pop"
  /\ qPc[Receiver] \in {"pop", "tpop", "senders", "tsenders"} /\ qCv[Receiver] = "out" =>
       qOwner = Receiver
  /\ qPc[Receiver] \in {"senders", "tsenders"} => queue = <<>>
Final == received = "disconnected" => queue = <<>> /\ senders = 0

ChannelInv == ChannelTypes /\ Holding /\ Final /\ Q!NothingLost

LEMMA SenderSubsets ==
  ASSUME Q!ChannelAssumption, NEW S \in SUBSET Senders
  PROVE  IsFiniteSet(S) /\ Cardinality(S) \in Nat
BY ChannelFinite, FS_Subset, FS_CardinalityType DEF Q!ChannelAssumption

(* Moving the head of q to the end of g leaves g \o q as it was.           *)
LEMMA PopCarries ==
  ASSUME NEW S, NEW g \in Seq(S), NEW q \in Seq(S), q # <<>>
  PROVE  /\ Append(g, Head(q)) \in Seq(S) /\ Tail(q) \in Seq(S)
         /\ Append(g, Head(q)) \o Tail(q) = g \o q
<1>1. /\ Append(g, Head(q)) \in Seq(S) /\ Tail(q) \in Seq(S) /\ Len(q) > 0
      /\ Len(Append(g, Head(q))) = Len(g) + 1 /\ Len(Tail(q)) = Len(q) - 1
      /\ Len(g) \in Nat /\ Len(q) \in Nat
  OBVIOUS
<1> DEFINE l == Append(g, Head(q)) \o Tail(q)
           r == g \o q
<1>2. l \in Seq(S) /\ r \in Seq(S) /\ Len(l) = Len(g) + Len(q) /\ Len(r) = Len(g) + Len(q)
  BY <1>1
<1>3. ASSUME NEW i \in 1..(Len(g) + Len(q)) PROVE l[i] = r[i]
  <2>1. CASE i <= Len(g)
    BY <1>1, <2>1
  <2>2. CASE i = Len(g) + 1
    BY <1>1, <2>2
  <2>3. CASE i > Len(g) + 1
    BY <1>1, <2>3
  <2>4. QED
    BY <2>1, <2>2, <2>3
<1> HIDE DEF l, r
<1>4. l = r
  BY <1>2, <1>3
<1>5. QED
  BY <1>1, <1>4 DEF l, r

(* Appending to q appends to g \o q.                                       *)
LEMMA PushCarries ==
  ASSUME NEW S, NEW g \in Seq(S), NEW q \in Seq(S), NEW m \in S
  PROVE  /\ Append(q, m) \in Seq(S) /\ g \o q \in Seq(S)
         /\ g \o Append(q, m) = Append(g \o q, m)
<1> DEFINE l == g \o Append(q, m)
           r == Append(g \o q, m)
<1>1. /\ l \in Seq(S) /\ r \in Seq(S) /\ g \o q \in Seq(S) /\ Len(g) \in Nat /\ Len(q) \in Nat
      /\ Len(l) = Len(g) + Len(q) + 1 /\ Len(r) = Len(g) + Len(q) + 1
  OBVIOUS
<1>2. ASSUME NEW i \in 1..(Len(g) + Len(q) + 1) PROVE l[i] = r[i]
  <2>1. CASE i <= Len(g)
    BY <1>1, <2>1
  <2>2. CASE i > Len(g)
    BY <1>1, <2>2
  <2>3. QED
    BY <1>1, <2>1, <2>2
<1> HIDE DEF l, r
<1>3. l = r
  BY <1>1, <1>2, SMTT(30)
<1>4. QED
  BY <1>1, <1>3 DEF l, r

(* The message that push_back adds is the last of its sender's on both     *)
(* sides.                                                                  *)
LEMMA PushKeeps ==
  ASSUME ChannelTypes, Q!NothingLost, NEW t \in Senders, Q!Push(t)
  PROVE  Q!NothingLost'
<1> DEFINE c == Q!Carried
           m == Q!Message(t)
           P(u, k) == Q!PlacesOf(u, k)
<1>1. /\ c \in Seq(Senders \X Nat) /\ m \in Senders \X Nat /\ m[1] = t
      /\ c' = Append(c, m) /\ sent' = [sent EXCEPT ![t] = Append(sent[t], m)]
  <2>1. m \in Senders \X Nat /\ m[1] = t
    BY DEF ChannelTypes, Q!Message
  <2>2. queue' = Append(queue, m) /\ got' = got /\ sent' = [sent EXCEPT ![t] = Append(sent[t], m)]
    BY Zenon DEF Q!Push
  <2>3. got \in Seq(Senders \X Nat) /\ queue \in Seq(Senders \X Nat)
    BY DEF ChannelTypes
  <2>4. got \o queue \in Seq(Senders \X Nat) /\ got \o Append(queue, m) = Append(got \o queue, m)
    BY <2>1, <2>3, PushCarries, SMTT(30)
  <2>5. QED
    BY <2>1, <2>2, <2>4, SMTT(30) DEF Q!Carried
<1>0. PICK n \in Nat : n = Len(c)
  BY <1>1
<1>2. n \in Nat /\ n = Len(c) /\ Len(c') = n + 1 /\ c'[n + 1] = m /\ \A i \in 1..n : c'[i] = c[i]
  BY <1>0, <1>1
<1>3. ASSUME NEW u \in Senders, NEW k \in 0..n
      PROVE  P(u, k)' = P(u, k) /\ IsFiniteSet(P(u, k)) /\ Cardinality(P(u, k)) \in Nat
  <2>1. P(u, k)' = P(u, k)
    BY <1>2, <1>3, SMTT(30) DEF Q!PlacesOf
  <2>2. P(u, k) \in SUBSET (1..k)
    BY SMTT(30) DEF Q!PlacesOf
  <2>3. IsFiniteSet(1..k)
    BY <1>2, FS_Interval, SMTT(30)
  <2>4. IsFiniteSet(P(u, k))
    BY <2>2, <2>3, FS_Subset, SMTT(30)
  <2>5. QED
    BY <2>1, <2>4, FS_CardinalityType, SMTT(30)
<1>4. /\ P(t, n + 1)' = P(t, n) \cup {n + 1} /\ n + 1 \notin P(t, n)
      /\ \A u \in Senders \ {t} : P(u, n + 1)' = P(u, n)
  <2>1. n + 1 \notin P(t, n) /\ n + 1 \in P(t, n + 1)'
    BY <1>1, <1>2, SMTT(30) DEF Q!PlacesOf
  <2>2. ASSUME NEW u \in Senders, NEW i
        PROVE  i \in P(u, n + 1)' <=> i \in P(u, n) \/ (i = n + 1 /\ u = t)
    BY <1>1, <1>2 DEF Q!PlacesOf
  <2>3. QED
    BY <2>1, <2>2, ZenonT(60)
<1>5. Cardinality(P(t, n + 1)') = Cardinality(P(t, n)) + 1
  BY <1>2, <1>3, <1>4, FS_AddElement, n \in 0..n, ZenonT(60)
<1> SUFFICES ASSUME NEW u \in Senders
             PROVE  /\ Cardinality(P(u, n + 1)') = Len(sent'[u])
                    /\ \A i \in P(u, n + 1)' : c'[i] = sent'[u][Cardinality(P(u, i)')]
  <2>1. \A v, i : Q!Cardinality(P(v, i)') = Cardinality(P(v, i)')
    BY ChannelFinite, Zenon
  <2>2. ASSUME NEW v \in Senders
        PROVE  /\ Q!Cardinality(P(v, Len(c))') = Len(sent'[v])
               /\ \A i \in P(v, Len(c))' : c'[i] = sent'[v][Q!Cardinality(P(v, i)')]
    <3>1. P(v, Len(c))' = P(v, n + 1)'
      BY <1>2, SMTT(30)
    <3>2. QED
      BY <2>1, <3>1, SMTT(30)
  <2>3. QED
    BY <2>2, Zenon DEF Q!NothingLost
<1>6. /\ Cardinality(P(u, n)) = Len(sent[u]) /\ sent[u] \in Seq(Senders \X Nat)
      /\ \A i \in P(u, n) : c[i] = sent[u][Cardinality(P(u, i))]
  BY <1>2, ChannelFinite, SMTT(30) DEF Q!NothingLost, ChannelTypes
<1>7. ASSUME NEW i \in P(u, n)
      PROVE  /\ i \in 1..n /\ P(u, i)' = P(u, i)
             /\ Cardinality(P(u, i)) \in 1..Len(sent[u])
  <2>1. i \in 1..n /\ i \in 0..n /\ i \in P(u, i) /\ P(u, i) \in SUBSET P(u, n)
    BY <1>2, SMTT(30) DEF Q!PlacesOf
  <2>2. Cardinality(P(u, i)) <= Cardinality(P(u, n)) /\ Cardinality(P(u, i)) # 0
    BY <1>2, <1>3, <2>1, FS_Subset, FS_EmptySet, n \in 0..n, SMTT(30)
  <2>3. QED
    BY <1>3, <1>6, <2>1, <2>2, SMTT(30)
<1>8. CASE u = t
  <2>1. sent'[u] = Append(sent[u], m) /\ Len(sent'[u]) = Len(sent[u]) + 1
    BY <1>1, <1>6, <1>8, SMTT(30) DEF ChannelTypes
  <2>2. ASSUME NEW i \in P(u, n) PROVE c'[i] = sent'[u][Cardinality(P(u, i)')]
    <3>1. c'[i] = c[i] /\ c[i] = sent[u][Cardinality(P(u, i))] /\ P(u, i)' = P(u, i)
      BY <1>2, <1>6, <1>7, SMTT(30)
    <3>2. ASSUME NEW j \in 1..Len(sent[u]) PROVE Append(sent[u], m)[j] = sent[u][j]
      BY <1>1, <1>6, SMTT(30)
    <3>3. QED
      BY <1>7, <2>1, <3>1, <3>2, SMTT(30)
  <2>3. c'[n + 1] = sent'[u][Cardinality(P(u, n + 1)')]
    BY <1>1, <1>2, <1>5, <1>6, <1>8, <2>1, SMTT(30)
  <2>4. QED
    <3>1. P(u, n + 1)' = P(u, n) \cup {n + 1} /\ Cardinality(P(u, n + 1)') = Len(sent'[u])
      BY <1>4, <1>5, <1>6, <1>8, <2>1, SMTT(30)
    <3>2. QED
      BY <2>2, <2>3, <3>1, ZenonT(60)
<1>9. CASE u # t
  <2>1. sent'[u] = sent[u]
    BY <1>1, <1>9, SMTT(30) DEF ChannelTypes
  <2>2. QED
    BY <1>2, <1>4, <1>6, <1>7, <1>9, <2>1, SMTT(30)
<1>10. QED
  BY <1>8, <1>9

LEMMA CarriedRests ==
  ASSUME Q!NothingLost, UNCHANGED <<sent, Q!Carried>>
  PROVE  Q!NothingLost'
BY DEF Q!NothingLost, Q!PlacesOf

LEMMA HeadMoves ==
  ASSUME ChannelTypes, queue # <<>>
  PROVE  /\ Append(got, Head(queue)) \in Seq(Senders \X Nat) /\ Tail(queue) \in Seq(Senders \X Nat)
         /\ Append(got, Head(queue)) \o Tail(queue) = got \o queue
BY PopCarries, ZenonT(60) DEF ChannelTypes

LEMMA ChannelInitInv == ASSUME Q!ChannelAssumption PROVE Q!Init => ChannelInv
<1> SUFFICES ASSUME Q!Init PROVE ChannelInv
  OBVIOUS
<1> USE DEF Q!Init, Q!C!CvInit, Q!Threads, Q!ChannelAssumption
<1>1. Live = {First}
  BY Zenon DEF Live
<1>2. Cardinality(Live) = 1
  BY <1>1, FS_Singleton, ZenonT(60)
<1>3. ChannelTypes /\ Holding /\ Final
  BY <1>2 DEF ChannelTypes, Holding, Final, Q!SenderPC, Q!ReceiverPC, Q!C!CvPC
<1>4. Q!Carried = <<>>
  BY DEF Q!Carried
<1>5. \A t \in Senders : Q!PlacesOf(t, Len(Q!Carried)) = {}
  <2>1. 1..Len(Q!Carried) = {}
    BY <1>4
  <2>2. QED
    BY <2>1, ZenonT(60) DEF Q!PlacesOf
<1>6. Q!NothingLost
  BY <1>5, ChannelFinite, FS_EmptySet, ZenonT(60) DEF Q!NothingLost
<1>7. QED
  BY <1>3, <1>6 DEF ChannelInv

(* A sender's steps.                                                       *)
LEMMA SenderStep ==
  ASSUME Q!ChannelAssumption, ChannelInv, NEW t \in Senders,
         Q!Send(t) \/ Q!DropSender(t) \/ Q!SenderProceeds(t)
  PROVE  ChannelInv'
<1> USE DEF ChannelInv, ChannelTypes, Holding, Final, Q!Threads, Q!ChannelAssumption, Q!Goto,
            Q!SenderPC, Q!ReceiverPC, Q!C!CvPC, Q!C!At, Q!C!Goto
<1>1. IsFiniteSet(Live) /\ Cardinality(Live) \in Nat /\ (t \in Live => senders # 0)
  <2>1. IsFiniteSet(Live) /\ Cardinality(Live) \in Nat
    BY SenderSubsets DEF Live
  <2>2. QED
    BY <2>1, FS_EmptySet, SMTT(30)
<1>2. CASE Q!Send(t)
  <2>1. Live' = Live
    BY <1>2, SMTT(30) DEF Q!Send, Q!Ready, Live
  <2>2. Q!NothingLost'
    BY <1>2, CarriedRests DEF Q!Send, Q!shared, Q!Carried
  <2>3. tries' \in [Senders -> Nat] /\ qPc' \in [Q!Threads -> Q!SenderPC \cup Q!ReceiverPC]
    <3>1. qPc' = [qPc EXCEPT ![t] = "ready"] \/ qPc' = [qPc EXCEPT ![t] = "slock"]
      BY <1>2, ZenonT(60) DEF Q!Send
    <3>2. tries' = [tries EXCEPT ![t] = tries[t] + 1]
      BY <1>2 DEF Q!Send
    <3>3. tries' \in [Senders -> Nat]
      BY <3>2, SMTT(30)
    <3>4. qPc' \in [Q!Threads -> Q!SenderPC \cup Q!ReceiverPC]
      BY <3>1, Zenon
    <3>5. QED
      BY <3>3, <3>4, ZenonT(60)
  <2>4. ChannelTypes'
    BY <1>2, <2>1, <2>3, ZenonT(60) DEF Q!Send, Q!shared, Q!cvVars
  <2>5. Holding' /\ Final'
    BY <1>2, SMTT(30) DEF Q!Send, Q!shared, Q!cvVars
  <2>6. QED
    BY <2>2, <2>4, <2>5, ZenonT(60)
<1>3. CASE Q!DropSender(t)
  <2>1. t \in Live /\ Live' = Live \ {t}
    BY <1>3, SMTT(30) DEF Q!DropSender, Q!Ready, Live
  <2>2. Cardinality(Live') = Cardinality(Live) - 1
    BY <1>1, <2>1, FS_RemoveElement, Zenon
  <2>3. Q!NothingLost'
    BY <1>3, CarriedRests, SMTT(30) DEF Q!DropSender, Q!ghosts, Q!Carried
  <2>4. senders # 0 /\ senders' = senders - 1 /\ senders' = Cardinality(Live') /\ senders' \in Nat
    BY <1>1, <1>3, <2>1, <2>2, SMTT(30) DEF Q!DropSender
  <2>5. qPc' \in [Q!Threads -> Q!SenderPC \cup Q!ReceiverPC]
    BY <1>3 DEF Q!DropSender
  <2>6. ChannelTypes'
    <3>1. UNCHANGED <<queue, got, sent, tries, qCv>>
      BY <1>3, SMTT(30) DEF Q!DropSender, Q!ghosts, Q!cvVars
    <3>2. QED
      BY <2>4, <2>5, <3>1, ZenonT(60)
  <2>7. Holding' /\ Final'
    BY <1>3, <2>4, SMTT(30) DEF Q!DropSender, Q!ghosts, Q!cvVars
  <2>8. QED
    BY <2>3, <2>6, <2>7, Zenon
<1>4. CASE Q!SendLock(t)
  <2>1. Live' = Live
    BY <1>4, SMTT(30) DEF Q!SendLock, Live
  <2>2. Q!NothingLost'
    BY <1>4, CarriedRests DEF Q!SendLock, Q!shared, Q!ghosts, Q!Carried
  <2>3. QED
    BY <1>4, <2>1, <2>2, SMTT(30) DEF Q!SendLock, Q!C!MutexLock, Q!shared, Q!ghosts
<1>5. CASE Q!Push(t)
  <2>1. t \in Live /\ Live' = Live
    BY <1>5, SMTT(30) DEF Q!Push, Live
  <2>2. Q!NothingLost'
    BY <1>5, PushKeeps, Zenon
  <2>3. Q!Message(t) \in Senders \X Nat
    BY Zenon DEF Q!Message
  <2>4. queue' \in Seq(Senders \X Nat) /\ sent' \in [Senders -> Seq(Senders \X Nat)]
    <3>1. /\ queue' = Append(queue, Q!Message(t))
          /\ sent' = [sent EXCEPT ![t] = Append(@, Q!Message(t))]
      BY <1>5, ZenonT(60) DEF Q!Push
    <3>2. Append(queue, Q!Message(t)) \in Seq(Senders \X Nat)
          /\ Append(sent[t], Q!Message(t)) \in Seq(Senders \X Nat)
      <4>1. queue \in Seq(Senders \X Nat) /\ sent[t] \in Seq(Senders \X Nat)
        BY Zenon
      <4>2. QED
        BY ONLY <2>3, <4>1, PushCarries, Zenon
    <3>3. QED
      BY <3>1, <3>2, SMTT(30)
  <2>5. QED
    BY <1>1, <1>5, <2>1, <2>2, <2>4, ZenonT(60) DEF Q!Push, Q!C!MutexUnlock
<1>6. CASE Q!SendNotify(t)
  <2>1. Live' = Live
    BY <1>6, SMTT(30) DEF Q!SendNotify, Live
  <2>2. Q!NothingLost'
    BY <1>6, CarriedRests, SMTT(30) DEF Q!SendNotify, Q!shared, Q!ghosts, Q!Carried
  <2>3. QED
    BY <1>6, <2>1, <2>2, SMTT(30) DEF Q!SendNotify, Q!C!Notify, Q!shared, Q!ghosts
<1>7. CASE Q!LastSenderNotifies(t)
  <2>1. Live' = Live
    BY <1>7, Zenon DEF Q!LastSenderNotifies, Live
  <2>2. Q!NothingLost'
    BY <1>7, CarriedRests DEF Q!LastSenderNotifies, Q!shared, Q!ghosts, Q!Carried
  <2>3. QED
    BY <1>7, <2>1, <2>2, SMTT(30) DEF Q!LastSenderNotifies, Q!C!Notify, Q!shared, Q!ghosts
<1>8. CASE Q!InCondvar(t)
  <2>1. Q!C!NotifyWake(t)
    BY <1>8, ZenonT(60) DEF Q!InCondvar, Q!C!Inside, Q!C!WaitUnlock, Q!C!WaitSleep, Q!C!WaitReturns,
       Q!C!WaitRelock
  <2>2. Live' = Live
    BY <1>8, SMTT(30) DEF Q!InCondvar, Live
  <2>3. Q!NothingLost'
    BY <1>8, CarriedRests DEF Q!InCondvar, Q!shared, Q!ghosts, Q!Carried
  <2>4. QED
    BY <1>8, <2>1, <2>2, <2>3, ZenonT(60) DEF Q!InCondvar, Q!C!NotifyWake, Q!shared, Q!ghosts
<1>9. QED
  BY <1>2, <1>3, <1>4, <1>5, <1>6, <1>7, <1>8, ZenonT(60) DEF Q!SenderProceeds

(* Sender::clone.                                                          *)
LEMMA CloneStep ==
  ASSUME Q!ChannelAssumption, ChannelInv, NEW t \in Senders, NEW u \in Senders, Q!Clone(t, u)
  PROVE  ChannelInv'
<1>0. senders = Cardinality(Live) /\ senders' = senders + 1
  BY DEF ChannelInv, ChannelTypes, Q!Clone
<1>1. IsFiniteSet(Live) /\ Cardinality(Live) \in Nat
  BY SenderSubsets DEF Live
<1>2. t \in Live /\ u \notin Live /\ Live' = Live \cup {u}
  BY SMTT(30) DEF Q!Clone, Q!Ready, Live, ChannelInv, ChannelTypes, Q!Threads, Q!Goto
<1>3. Cardinality(Live') = Cardinality(Live) + 1
  BY <1>1, <1>2, FS_AddElement, Zenon
<1>4. senders # 0
  BY <1>0, <1>1, <1>2, FS_EmptySet, SMTT(30)
<1>5. Q!NothingLost'
  BY CarriedRests, SMTT(30) DEF ChannelInv, Q!Clone, Q!ghosts, Q!Carried
<1>6. senders' = Cardinality(Live') /\ senders' \in Nat
  BY <1>0, <1>1, <1>3, SMTT(30)
<1> USE DEF ChannelInv, ChannelTypes, Holding, Final, Q!Threads, Q!ChannelAssumption, Q!Goto,
            Q!SenderPC
<1>7. ChannelTypes'
  <2>1. qPc' = [qPc EXCEPT ![u] = "ready"] /\ UNCHANGED <<queue, got, sent, tries, qCv>>
    BY SMTT(30) DEF Q!Clone, Q!ghosts, Q!cvVars
  <2>2. qPc' \in [Q!Threads -> Q!SenderPC \cup Q!ReceiverPC]
    BY <2>1
  <2>3. QED
    BY <1>6, <2>1, <2>2, ZenonT(60)
<1>8. Holding' /\ Final'
  BY <1>4, Zenon DEF Q!Clone, Q!ghosts, Q!cvVars
<1>9. QED
  BY <1>5, <1>7, <1>8, ZenonT(60)

(* The receiver's steps.                                                   *)
LEMMA ReceiverStep ==
  ASSUME Q!ChannelAssumption, ChannelInv,
         Q!Receive \/ Q!ReceiverProceeds \/ Q!DropReceiver \/ Q!Interrupted(Receiver)
  PROVE  ChannelInv'
<1> USE DEF ChannelInv, ChannelTypes, Holding, Final, Q!Threads, Q!ChannelAssumption, Q!Goto,
            Q!SenderPC, Q!ReceiverPC, Q!C!CvPC, Q!C!At, Q!C!Goto
<1>1. Live' = Live /\ UNCHANGED <<senders, sent, tries>>
  <2>1. /\ \A t \in Senders : qPc'[t] = qPc[t]
        /\ UNCHANGED <<senders, sent, tries>>
    BY ZenonT(60) DEF Q!Receive, Q!ReceiverProceeds, Q!DropReceiver, Q!Interrupted, Q!ReceiveLock, Q!Pop,
       Q!PopEmpty, Q!Disconnected, Q!Empty, Q!RecvMustWait, Q!RecvWait, Q!InCondvar, Q!Return,
       Q!shared, Q!ghosts
  <2>2. QED
    BY <2>1, Zenon DEF Live
<1>2. CASE Q!Pop
  <2>1. /\ queue # <<>> /\ queue' = Tail(queue) /\ got' = Append(got, Head(queue))
        /\ received' = "ok" /\ qPc' = [qPc EXCEPT ![Receiver] = "ready"]
        /\ qOwner' = Nobody /\ qCv' = qCv
    BY <1>2 DEF Q!Pop, Q!Return, Q!C!MutexUnlock
  <2>2. queue' \in Seq(Senders \X Nat) /\ got' \in Seq(Senders \X Nat) /\ UNCHANGED Q!Carried
    <3>1. /\ Append(got, Head(queue)) \in Seq(Senders \X Nat) /\ Tail(queue) \in Seq(Senders \X Nat)
          /\ Append(got, Head(queue)) \o Tail(queue) = got \o queue
      BY <2>1, HeadMoves, ZenonT(60)
    <3>2. QED
      BY <2>1, <3>1, Zenon DEF Q!Carried
  <2>3. Q!NothingLost'
    BY <1>1, <2>2, CarriedRests, SMTT(30)
  <2>4. qCv[Receiver] = "out"
    BY <1>2 DEF Q!Pop, Q!Return, Q!C!MutexUnlock
  <2>5. QED
    BY <1>1, <2>1, <2>2, <2>3, <2>4, Zenon
<1>3. CASE ~Q!Pop
  <2>1. UNCHANGED <<queue, got>>
    BY <1>3, ZenonT(60) DEF Q!Receive, Q!ReceiverProceeds, Q!DropReceiver, Q!Interrupted, Q!ReceiveLock,
       Q!PopEmpty, Q!Disconnected, Q!Empty, Q!RecvMustWait, Q!RecvWait, Q!InCondvar, Q!Return,
       Q!shared, Q!ghosts
  <2>2. Q!NothingLost'
    BY <1>1, <2>1, CarriedRests, SMTT(30) DEF Q!Carried
  <2>3. CASE Q!Receive
    BY <1>1, <2>1, <2>2, <2>3, ZenonT(60) DEF Q!Receive, Q!Ready, Q!cvVars
  <2>4. CASE Q!ReceiveLock
    BY <1>1, <2>1, <2>2, <2>4, ZenonT(60) DEF Q!ReceiveLock, Q!C!MutexLock, Q!ghosts
  <2>5. CASE Q!PopEmpty
    BY <1>1, <2>1, <2>2, <2>5, ZenonT(60) DEF Q!PopEmpty, Q!cvVars, Q!ghosts
  <2>6. CASE Q!Disconnected \/ Q!Empty
    BY <1>1, <2>1, <2>2, <2>6, ZenonT(60) DEF Q!Disconnected, Q!Empty, Q!Return, Q!C!MutexUnlock
  <2>7. CASE Q!RecvMustWait
    BY <1>1, <2>1, <2>2, <2>7, SMTT(30) DEF Q!RecvMustWait, Q!cvVars, Q!ghosts
  <2>8. CASE Q!RecvWait
    BY <1>1, <2>1, <2>2, <2>8, ZenonT(60) DEF Q!RecvWait, Q!C!Wait, Q!ghosts
  <2>9. CASE Q!DropReceiver
    BY <1>1, <2>1, <2>2, <2>9, SMTT(30) DEF Q!DropReceiver, Q!Ready, Q!cvVars, Q!ghosts
  <2>10. CASE Q!InCondvar(Receiver)
    <3>1. /\ qCv' \in [Q!Threads -> Q!C!CvPC] /\ qCv[Receiver] # "out"
          /\ \A t \in Senders : qCv'[t] = qCv[t]
          /\ qCv'[Receiver] \in {"out", "wait", "relock"}
          /\ qCv'[Receiver] = "out" => qOwner' = Receiver
      BY <2>10, ZenonT(60) DEF Q!InCondvar, Q!C!Inside, Q!C!WaitUnlock, Q!C!WaitSleep, Q!C!WaitReturns,
         Q!C!WaitRelock, Q!C!NotifyWake
    <3>2. QED
      <4>1. UNCHANGED <<qPc, received>>
        BY <2>10, SMTT(30) DEF Q!InCondvar, Q!ghosts
      <4>2. ChannelTypes'
        BY <1>1, <2>1, <3>1, <4>1, SMTT(30)
      <4>3. Holding' /\ Final'
        BY <1>1, <2>1, <3>1, <4>1, SMTT(30)
      <4>4. QED
        BY <2>2, <4>2, <4>3, Zenon
  <2>11. CASE Q!Interrupted(Receiver)
    BY <1>1, <2>1, <2>2, <2>11, SMTT(30) DEF Q!Interrupted, Q!C!Spurious, Q!ghosts
  <2>12. QED
    BY <1>3, <2>3, <2>4, <2>5, <2>6, <2>7, <2>8, <2>9, <2>10, <2>11, ZenonT(60) DEF Q!ReceiverProceeds
<1>4. QED
  BY <1>2, <1>3, Zenon

(* A channel, for any number of senders, clones, messages and receives:    *)
(* what recv returned and what is queued are, for each sender, the         *)
(* messages that send accepted, each once and in order; and Disconnected   *)
(* means that nothing is queued and nobody is left to send.                *)
THEOREM DeliversHolds ==
  ASSUME Q!ChannelAssumption
  PROVE  Q!Spec => []Delivers
<1>1. ChannelInv /\ UNCHANGED Q!vars => ChannelInv'
  <2> SUFFICES ASSUME ChannelInv, UNCHANGED Q!vars PROVE ChannelInv'
    OBVIOUS
  <2> USE DEF Q!vars, Q!cvVars, Q!shared, Q!ghosts
  <2>1. Live' = Live
    BY DEF Live
  <2>2. Q!NothingLost'
    BY CarriedRests DEF ChannelInv, Q!Carried
  <2>3. QED
    BY <2>1, <2>2, SMTT(30) DEF ChannelInv, ChannelTypes, Holding, Final
<1>2. ChannelInv /\ [Q!Next]_(Q!vars) => ChannelInv'
  BY <1>1, SenderStep, CloneStep, ReceiverStep, SMTT(30) DEF Q!Next
<1>3. ChannelInv => Delivers
  <2> SUFFICES ASSUME ChannelInv PROVE Q!NothingLost /\ Q!DisconnectedIsFinal
    BY DEF Delivers, Q!Delivers
  <2>1. IsFiniteSet(Live) /\ (senders = 0 => Live = {})
    BY SenderSubsets, FS_EmptySet, Zenon DEF ChannelInv, ChannelTypes, Live
  <2>2. QED
    BY <2>1 DEF ChannelInv, ChannelTypes, Holding, Final, Live, Q!DisconnectedIsFinal, Q!SenderPC,
       Q!Threads
<1>4. QED
  BY <1>2, <1>3, ChannelInitInv, PTL DEF Q!Spec
-----------------------------------------------------------------------------
(* wait_while loses no notification, for any number of producers and       *)
(* consumers.                                                              *)

CONSTANTS None, SeqSize,                    \* see Condvar
          Producers, Consumers, MaxNotify   \* see WaitWhile

VARIABLES wOwner, wSeq, wAsleep, wCv, wSeen, permits, wPc, wLeft

W == INSTANCE WaitWhile WITH owner <- wOwner, seq <- wSeq, asleep <- wAsleep, cv <- wCv,
                             seen <- wSeen, pc <- wPc, left <- wLeft

ASSUME WaitingAssumption == W!WaitWhileAssumption

(* wait_while: no notification between the unlock and the sleep is lost.   *)
NoLostNotify == W!NoLostNotify

(* wait_while's finite sets and cardinalities are the library's.           *)
LEMMA WaitFinite ==
  ASSUME NEW S
  PROVE  (W!IsFiniteSet(S) <=> IsFiniteSet(S)) /\ W!Cardinality(S) = Cardinality(S)
BY DEF W!IsFiniteSet, IsFiniteSet, W!Cardinality, Cardinality

(* Producers whose permit is there and whose sequence number is not: they  *)
(* have not bumped `seq` yet.                                              *)
Producing == {t \in Producers : wPc[t] \in {"unlock", "notify", "held"}}

(* The notifications that were begun.                                      *)
Begun == {n \in Producers \X (1..MaxNotify) : n[2] > wLeft[n[1]]}

(* The inductive strengthening of NoLostNotify.  Sleepers are consumers    *)
(* inside wait_while; `seq` counts the notifications, so that it does not  *)
(* come back to a value that was read; and as long as `seq` is what a      *)
(* waiting consumer read with no permit there, every permit was made by a  *)
(* producer that has still to notify.                                      *)
WaitPlaces ==
  \A t \in W!Threads :
    /\ wCv[t] \in {"unlock", "wait", "relock"} => t \in Consumers /\ wPc[t] = "test"
    /\ wCv[t] \in {"wake1", "wakeall"} => t \in Producers /\ wPc[t] \in {"idle", "drop"}
    /\ t \in wAsleep => wCv[t] = "wait"
    /\ t \in Consumers => wPc[t] \in {"idle", "test", "drop", "done"}
    /\ t \in Producers => wPc[t] \in {"idle", "drop", "unlock", "notify", "held"}
    /\ wSeen[t] <= wSeq
SeqCounts == wSeq + Cardinality(Producing) = Cardinality(Begun)
NoneMissed ==
  \A t \in Consumers :
    wCv[t] \in {"unlock", "wait"} /\ wSeen[t] = wSeq => permits <= Cardinality(Producing)

WaitInv == W!TypeOK /\ WaitPlaces /\ SeqCounts /\ NoneMissed /\ NoLostNotify

(* The sets that are counted are finite.                                   *)
LEMMA WaitSubsets ==
  ASSUME W!WaitWhileAssumption, NEW S \in SUBSET W!Threads
  PROVE  IsFiniteSet(S) /\ Cardinality(S) \in Nat
BY WaitFinite, FS_Subset, FS_CardinalityType DEF W!WaitWhileAssumption

LEMMA BegunFinite ==
  ASSUME W!WaitWhileAssumption, NEW S \in SUBSET (Producers \X (1..MaxNotify))
  PROVE  IsFiniteSet(S) /\ Cardinality(S) \in Nat /\ Cardinality(S) < SeqSize
<1>1. IsFiniteSet(Producers) /\ Cardinality(Producers) \in Nat
  <2>1. Producers \in SUBSET W!Threads
    BY DEF W!Threads
  <2>2. QED
    BY <2>1, WaitSubsets
<1>2. IsFiniteSet(1..MaxNotify) /\ Cardinality(1..MaxNotify) = MaxNotify
  BY FS_Interval DEF W!WaitWhileAssumption
<1>3. /\ IsFiniteSet(Producers \X (1..MaxNotify))
      /\ Cardinality(Producers \X (1..MaxNotify)) = Cardinality(Producers) * MaxNotify
  BY <1>1, <1>2, FS_Product, Zenon
<1>4. IsFiniteSet(S) /\ Cardinality(S) <= Cardinality(Producers \X (1..MaxNotify))
  BY <1>3, FS_Subset
<1>5. Cardinality(S) \in Nat
  BY <1>4, FS_CardinalityType
<1>6. Cardinality(Producers) * MaxNotify \in Nat /\ Cardinality(Producers) * MaxNotify < SeqSize
  BY <1>1, WaitFinite DEF W!WaitWhileAssumption
<1>7. QED
  BY <1>3, <1>4, <1>5, <1>6 DEF W!WaitWhileAssumption

LEMMA WaitInitInv == ASSUME W!WaitWhileAssumption PROVE W!Init => WaitInv
<1> SUFFICES ASSUME W!Init PROVE WaitInv
  OBVIOUS
<1> USE DEF W!Init, W!C!CvInit, W!Threads
<1>1. Producing = {} /\ Begun = {}
  BY DEF Producing, Begun, W!WaitWhileAssumption
<1>2. SeqCounts
  BY <1>1, FS_EmptySet DEF SeqCounts
<1>3. W!TypeOK
  BY DEF W!TypeOK, W!C!CvTypeOK, W!C!CvPC, W!PC, W!WaitWhileAssumption
<1>4. QED
  BY <1>2, <1>3 DEF WaitInv, WaitPlaces, NoneMissed, NoLostNotify, W!NoLostNotify

(* A producer that has not bumped the sequence leaves room for it.         *)
LEMMA SeqHasRoom ==
  ASSUME W!WaitWhileAssumption, WaitInv, NEW t \in Producing
  PROVE  (wSeq + 1) % SeqSize = wSeq + 1 /\ wSeq + 1 < SeqSize
<1>1. IsFiniteSet(Producing) /\ Cardinality(Producing) \in Nat
  BY WaitSubsets DEF Producing, W!Threads
<1>2. Cardinality(Producing) # 0
  BY <1>1, FS_EmptySet
<1>3. Cardinality(Begun) \in Nat /\ Cardinality(Begun) < SeqSize
  BY BegunFinite DEF Begun
<1>4. wSeq \in Nat /\ SeqSize \in Nat \ {0}
  BY DEF WaitInv, W!TypeOK, W!C!CvTypeOK, W!WaitWhileAssumption
<1>5. wSeq + 1 < SeqSize
  BY <1>1, <1>2, <1>3, <1>4, SMTT(30) DEF WaitInv, SeqCounts
<1>6. QED
  BY <1>4, <1>5

(* The types, and where a thread is.                                       *)
LEMMA WaitNextType ==
  ASSUME W!WaitWhileAssumption, WaitInv, [W!Next]_(W!vars)
  PROVE  W!TypeOK' /\ WaitPlaces'
<1> USE DEF WaitInv, W!TypeOK, W!C!CvTypeOK, WaitPlaces, W!Goto, W!C!Goto, W!C!At,
            W!Threads, W!PC, W!C!CvPC
<1>1. CASE UNCHANGED W!vars
  BY <1>1 DEF W!vars
<1>2. ASSUME NEW t \in W!Threads, W!ConsumerLock(t) PROVE W!TypeOK' /\ WaitPlaces'
  BY <1>2 DEF W!ConsumerLock, W!C!MutexLock, W!WaitWhileAssumption
<1>3. ASSUME NEW t \in W!Threads, W!TestWaits(t) PROVE W!TypeOK' /\ WaitPlaces'
  BY <1>3 DEF W!TestWaits, W!C!Wait, W!WaitWhileAssumption
<1>4. ASSUME NEW t \in W!Threads, W!TestEnds(t) PROVE W!TypeOK' /\ WaitPlaces'
  BY <1>4 DEF W!TestEnds, W!cvVars, W!WaitWhileAssumption
<1>5. ASSUME NEW t \in W!Threads, W!Produce(t) PROVE W!TypeOK' /\ WaitPlaces'
  <2>1. wLeft' \in [Producers -> 0..MaxNotify] /\ permits' \in Nat
    BY <1>5 DEF W!Produce, W!WaitWhileAssumption
  <2>2. QED
    BY <1>5, <2>1 DEF W!Produce, W!C!MutexLock, W!WaitWhileAssumption
<1>6. ASSUME NEW t \in W!Threads, W!Notify(t) PROVE W!TypeOK' /\ WaitPlaces'
  <2>1. t \in Producing
    BY <1>6 DEF W!Notify, Producing, W!WaitWhileAssumption
  <2>2. wSeq' = wSeq + 1 /\ wSeq' < SeqSize
    BY <1>6, <2>1, SeqHasRoom DEF W!Notify, W!C!Notify
  <2>3. QED
    BY <1>6, <2>1, <2>2 DEF W!Notify, W!C!Notify, Producing, W!WaitWhileAssumption
<1>7. ASSUME NEW t \in W!Threads, W!Unlock(t) PROVE W!TypeOK' /\ WaitPlaces'
  BY <1>7, SMTT(30) DEF W!Unlock, W!C!MutexUnlock, W!WaitWhileAssumption
<1>8. ASSUME NEW t \in W!Threads, W!InCondvar(t) PROVE W!TypeOK' /\ WaitPlaces'
  <2>1. CASE W!C!WaitUnlock(t)
    BY <1>8, <2>1 DEF W!InCondvar, W!C!WaitUnlock
  <2>3. CASE W!C!WaitReturns(t)
    BY <1>8, <2>3 DEF W!InCondvar, W!C!WaitReturns, W!C!FutexReturns
  <2>4. CASE W!C!WaitSleep(t)
    BY <1>8, <2>4 DEF W!InCondvar, W!C!WaitSleep
  <2>5. CASE W!C!WaitRelock(t)
    BY <1>8, <2>5 DEF W!InCondvar, W!C!WaitRelock
  <2>2. CASE W!C!NotifyWake(t)
    <3>1. wAsleep' \subseteq wAsleep
      BY <2>2 DEF W!C!NotifyWake, W!C!FutexWake, W!C!FutexWakeAll
    <3>2. QED
      BY <1>8, <2>2, <3>1 DEF W!InCondvar, W!C!NotifyWake, W!WaitWhileAssumption
  <2>6. QED
    BY <1>8, <2>1, <2>2, <2>3, <2>4, <2>5 DEF W!InCondvar, W!C!Inside
<1>9. ASSUME NEW t \in W!Threads, W!Interrupted(t) PROVE W!TypeOK' /\ WaitPlaces'
  BY <1>9 DEF W!Interrupted, W!C!Spurious
<1>10. QED
  BY <1>1, <1>2, <1>3, <1>4, <1>5, <1>6, <1>7, <1>8, <1>9, Zenon DEF W!Next, W!Proceed

(* The counts.  In each step the sets of producers and of consumers that   *)
(* are counted grow or shrink by one thread at most.                       *)
LEMMA WaitNextCounts ==
  ASSUME W!WaitWhileAssumption, WaitInv, [W!Next]_(W!vars)
  PROVE  SeqCounts' /\ NoneMissed' /\ NoLostNotify'
<1> DEFINE P == Producing
           G == W!Notifying
           K == W!Coming
<1>1. /\ IsFiniteSet(P) /\ IsFiniteSet(G) /\ IsFiniteSet(K) /\ IsFiniteSet(Begun)
      /\ Cardinality(P) \in Nat /\ Cardinality(G) \in Nat /\ Cardinality(K) \in Nat
      /\ Cardinality(P) <= Cardinality(G)
  <2>1. P \in SUBSET W!Threads /\ G \in SUBSET W!Threads /\ K \in SUBSET W!Threads
    BY DEF Producing, W!Notifying, W!Coming, W!Threads
  <2>2. P \in SUBSET G
    BY DEF Producing, W!Notifying
  <2>3. Begun \in SUBSET (Producers \X (1..MaxNotify))
    BY DEF Begun
  <2>4. QED
    BY <2>1, <2>2, <2>3, WaitSubsets, BegunFinite, FS_Subset
<1>2. wSeq \in Nat /\ permits \in Nat /\ Cardinality(Begun) \in Nat
  BY BegunFinite DEF WaitInv, W!TypeOK, W!C!CvTypeOK, Begun
<1>3. /\ wSeq + Cardinality(P) = Cardinality(Begun) /\ NoneMissed
      /\ wAsleep # {} => permits <= Cardinality(K) + Cardinality(G)
  BY WaitFinite DEF WaitInv, SeqCounts, NoLostNotify, W!NoLostNotify
<1>4. W!TypeOK /\ WaitPlaces
  BY DEF WaitInv
<1> DEFINE Goal == /\ wSeq' + Cardinality(P') = Cardinality(Begun') /\ NoneMissed'
                   /\ wAsleep' # {} => permits' <= Cardinality(K') + Cardinality(G')
<1>0. W!Cardinality(K') = Cardinality(K') /\ W!Cardinality(G') = Cardinality(G')
  BY WaitFinite
<1>5. SUFFICES Goal
  BY <1>0 DEF SeqCounts, NoLostNotify, W!NoLostNotify
<1> USE DEF W!Goto, W!C!Goto, W!C!At
<1>6. CASE UNCHANGED W!vars
  BY <1>3, <1>6 DEF W!vars, Producing, W!Notifying, W!Coming, Begun, NoneMissed
<1>7. ASSUME NEW t \in W!Threads, W!ConsumerLock(t) PROVE Goal
  <2>1. /\ P' = P /\ Begun' = Begun /\ G' = G /\ K' = K \cup {t} /\ t \notin K
        /\ UNCHANGED <<wSeq, wAsleep, wCv, wSeen, permits>>
    BY <1>4, <1>7 DEF W!ConsumerLock, W!C!MutexLock, W!TypeOK, W!Threads, WaitPlaces,
       Producing, W!Notifying, W!Coming, Begun, W!WaitWhileAssumption
  <2>2. Cardinality(K') = Cardinality(K) + 1
    BY <1>1, <2>1, FS_AddElement, Zenon
  <2>3. QED
    BY <1>1, <1>2, <1>3, <2>1, <2>2 DEF NoneMissed
<1>8. ASSUME NEW t \in W!Threads, W!TestWaits(t) PROVE Goal
  <2>1. P' = P /\ Begun' = Begun /\ G' = G /\ K' = K /\ permits' = 0 /\ wSeq' = wSeq
    <3>1. wPc[t] = "test" /\ t \in Consumers /\ t \notin Producers
      BY <1>4, <1>8 DEF W!TestWaits, W!Threads, WaitPlaces, W!WaitWhileAssumption
    <3>2. QED
      BY <1>4, <1>8, <3>1 DEF W!TestWaits, W!C!Wait, W!TypeOK, W!C!CvTypeOK, W!Threads,
         Producing, W!Notifying, W!Coming, Begun
  <2>2. QED
    BY <1>1, <1>3, <2>1 DEF NoneMissed
<1>9. ASSUME NEW t \in W!Threads, W!TestEnds(t) PROVE Goal
  <2>1. /\ P' = P /\ Begun' = Begun /\ G' = G /\ K' = K \ {t} /\ t \in K
        /\ permits > 0 /\ permits' = permits - 1 /\ UNCHANGED <<wSeq, wAsleep, wCv, wSeen>>
    <3>1. wPc[t] = "test" /\ t \in Consumers /\ t \notin Producers /\ t \notin wAsleep
      BY <1>4, <1>9 DEF W!TestEnds, W!Threads, WaitPlaces, W!WaitWhileAssumption
    <3>2. QED
      BY <1>4, <1>9, <3>1 DEF W!TestEnds, W!cvVars, W!TypeOK, W!Threads,
         Producing, W!Notifying, W!Coming, Begun
  <2>2. Cardinality(K') = Cardinality(K) - 1
    BY <1>1, <2>1, FS_RemoveElement, Zenon
  <2>3. QED
    BY <1>1, <1>2, <1>3, <2>1, <2>2 DEF NoneMissed
<1>10. ASSUME NEW t \in W!Threads, W!Produce(t) PROVE Goal
  <2>1. /\ t \in Producers /\ t \notin Consumers /\ wPc[t] = "idle" /\ wCv[t] = "out"
        /\ UNCHANGED <<wSeq, wAsleep, wCv, wSeen>> /\ permits' = permits + 1
    BY <1>4, <1>10 DEF W!Produce, W!C!MutexLock, W!WaitWhileAssumption
  <2>2. /\ P' = P \cup {t} /\ t \notin P /\ G' = G \cup {t} /\ t \notin G
        /\ K' = K
    BY <1>4, <1>10, <2>1 DEF W!Produce, W!TypeOK, W!Threads, Producing, W!Notifying, W!Coming
  <2>3. Begun' = Begun \cup {<<t, wLeft[t]>>} /\ <<t, wLeft[t]>> \notin Begun
    <3>1. wLeft[t] \in 1..MaxNotify /\ wLeft' = [wLeft EXCEPT ![t] = wLeft[t] - 1]
      BY <1>4, <1>10, <2>1 DEF W!Produce, W!TypeOK, W!WaitWhileAssumption
    <3>2. ASSUME NEW u \in Producers, NEW i \in 1..MaxNotify
          PROVE  i > wLeft'[u] <=> i > wLeft[u] \/ <<u, i>> = <<t, wLeft[t]>>
      BY <1>4, <2>1, <3>1 DEF W!TypeOK, W!WaitWhileAssumption
    <3>3. QED
      BY <2>1, <3>1, <3>2 DEF Begun, W!WaitWhileAssumption
  <2>4. /\ Cardinality(P') = Cardinality(P) + 1 /\ Cardinality(G') = Cardinality(G) + 1
        /\ Cardinality(Begun') = Cardinality(Begun) + 1
    BY <1>1, <2>2, <2>3, FS_AddElement, Zenon
  <2>5. QED
    BY <1>1, <1>2, <1>3, <2>1, <2>2, <2>4, SMTT(30) DEF NoneMissed
<1>11. ASSUME NEW t \in W!Threads, W!Notify(t) PROVE Goal
  <2>1. t \in P /\ t \in Producers /\ t \notin Consumers
    BY <1>4, <1>11 DEF W!Notify, Producing, WaitPlaces, W!Threads, W!WaitWhileAssumption
  <2>2. wSeq' = wSeq + 1
    BY <1>11, <2>1, SeqHasRoom DEF W!Notify, W!C!Notify
  <2>3. /\ P' = P \ {t} /\ G' = G /\ K' = K /\ Begun' = Begun
        /\ UNCHANGED <<wAsleep, wSeen, permits>>
    BY <1>4, <1>11, <2>1 DEF W!Notify, W!C!Notify, W!TypeOK, W!C!CvTypeOK, W!Threads,
       Producing, W!Notifying, W!Coming, Begun
  <2>4. Cardinality(P') = Cardinality(P) - 1
    BY <1>1, <2>1, <2>3, FS_RemoveElement, Zenon
  <2>5. NoneMissed'
    BY <1>2, <1>4, <2>2, <2>3 DEF NoneMissed, WaitPlaces, W!TypeOK, W!C!CvTypeOK, W!Threads
  <2>6. QED
    BY <1>1, <1>2, <1>3, <2>2, <2>3, <2>4, <2>5
<1>12. ASSUME NEW t \in W!Threads, W!Unlock(t) PROVE Goal
  <2>1. /\ P' = P /\ G' = G /\ K' = K /\ Begun' = Begun
        /\ UNCHANGED <<wSeq, wAsleep, wCv, wSeen, permits>>
    BY <1>4, <1>12 DEF W!Unlock, W!C!MutexUnlock, W!TypeOK, W!Threads, WaitPlaces,
       Producing, W!Notifying, W!Coming, Begun, W!WaitWhileAssumption
  <2>2. QED
    BY <1>3, <2>1 DEF NoneMissed
<1>13. ASSUME NEW t \in W!Threads, W!InCondvar(t) PROVE Goal
  <2>1. P' = P /\ Begun' = Begun /\ UNCHANGED <<permits, wPc, wLeft>>
    BY <1>13 DEF W!InCondvar, Producing, Begun
  <2>2. CASE W!C!WaitUnlock(t) \/ W!C!WaitReturns(t) \/ W!C!WaitRelock(t)
    <3>1. t \in Consumers /\ t \notin Producers
      BY <1>4, <2>2 DEF W!C!WaitUnlock, W!C!WaitReturns, W!C!WaitRelock, WaitPlaces,
         W!WaitWhileAssumption
    <3>2. /\ UNCHANGED <<wSeq, wAsleep, wSeen>>
          /\ \A u \in W!Threads \ {t} : wCv'[u] = wCv[u]
          /\ wCv'[t] \in {"unlock", "wait"} => wCv[t] \in {"unlock", "wait"}
      BY <1>4, <2>2 DEF W!C!WaitUnlock, W!C!WaitReturns, W!C!WaitRelock, W!TypeOK, W!C!CvTypeOK
    <3>3. G' = G /\ K' = K
      BY <2>1, <3>1, <3>2 DEF W!Notifying, W!Coming, W!Threads
    <3>4. NoneMissed'
      BY <1>3, <2>1, <3>2 DEF NoneMissed, W!Threads
    <3>5. QED
      BY <1>3, <2>1, <3>2, <3>3, <3>4
  <2>3. CASE W!C!WaitSleep(t)
    <3>1. /\ t \in Consumers /\ wCv[t] = "wait" /\ wSeen[t] = wSeq
          /\ UNCHANGED <<wSeq, wCv, wSeen>>
      BY <1>4, <2>3 DEF W!C!WaitSleep, W!C!FutexSleeps, WaitPlaces
    <3>2. G' = G
      BY <2>1, <3>1 DEF W!Notifying
    <3>3. permits <= Cardinality(P) /\ Cardinality(K') \in Nat
      <4>1. K' \in SUBSET W!Threads
        BY DEF W!Coming, W!Threads
      <4>2. QED
        BY <1>3, <3>1, <4>1, WaitSubsets DEF NoneMissed
    <3>4. QED
      BY <1>1, <1>2, <1>3, <2>1, <3>1, <3>2, <3>3 DEF NoneMissed
  <2>4. CASE W!C!NotifyWake(t)
    <3>1. /\ t \in Producers /\ t \notin Consumers /\ t \in G /\ G' = G \ {t}
          /\ UNCHANGED <<wSeq, wSeen>>
          /\ \A u \in Consumers : wCv'[u] = wCv[u]
      BY <1>4, <2>1, <2>4 DEF W!C!NotifyWake, WaitPlaces, W!TypeOK, W!C!CvTypeOK, W!Threads,
         W!Notifying, W!WaitWhileAssumption
    <3>2. NoneMissed'
      BY <1>3, <2>1, <3>1 DEF NoneMissed
    <3>3. CASE wAsleep' = {}
      BY <1>3, <2>1, <3>1, <3>2, <3>3
    <3>4. CASE wAsleep' # {}
      <4>1. PICK s \in wAsleep : wAsleep' = wAsleep \ {s}
        BY <2>4, <3>4 DEF W!C!NotifyWake, W!C!FutexWake, W!C!FutexWakeAll
      <4>2. s \in Consumers /\ wPc[s] = "test"
        BY <1>4, <4>1 DEF W!TypeOK, W!C!CvTypeOK, WaitPlaces
      <4>3. K' = K \cup {s} /\ s \notin K
        BY <2>1, <4>1, <4>2 DEF W!Coming
      <4>4. Cardinality(K') = Cardinality(K) + 1 /\ Cardinality(G') = Cardinality(G) - 1
        BY <1>1, <3>1, <4>3, FS_AddElement, FS_RemoveElement, Zenon
      <4>5. QED
        BY <1>1, <1>2, <1>3, <2>1, <3>1, <3>2, <4>1, <4>4
    <3>5. QED
      BY <3>3, <3>4
  <2>5. QED
    BY <1>13, <2>2, <2>3, <2>4 DEF W!InCondvar, W!C!Inside
<1>14. ASSUME NEW t \in W!Threads, W!Interrupted(t) PROVE Goal
  <2>1. /\ P' = P /\ G' = G /\ Begun' = Begun
        /\ UNCHANGED <<wSeq, wCv, wSeen, permits, wPc>>
        /\ t \in wAsleep /\ wAsleep' = wAsleep \ {t}
    BY <1>14 DEF W!Interrupted, W!C!Spurious, Producing, W!Notifying, Begun
  <2>2. K' = K \cup {t} /\ t \notin K
    BY <1>4, <2>1 DEF WaitPlaces, W!Coming
  <2>3. Cardinality(K') = Cardinality(K) + 1
    BY <1>1, <2>2, FS_AddElement, Zenon
  <2>4. QED
    BY <1>1, <1>2, <1>3, <2>1, <2>3 DEF NoneMissed
<1> HIDE DEF Goal
<1>15. QED
  BY <1>6, <1>7, <1>8, <1>9, <1>10, <1>11, <1>12, <1>13, <1>14 DEF W!Next, W!Proceed

(* wait_while, notify_one and notify_all lose no wakeup, however many      *)
(* threads produce and consume: while a consumer sleeps, there are as many *)
(* consumers awake and notifications under way as there are permits.       *)
THEOREM NoLostNotifyHolds ==
  ASSUME W!WaitWhileAssumption
  PROVE  W!Spec => []NoLostNotify
<1>1. WaitInv /\ [W!Next]_(W!vars) => WaitInv'
  BY WaitNextType, WaitNextCounts DEF WaitInv
<1>2. WaitInv => NoLostNotify
  BY DEF WaitInv
<1>3. QED
  BY WaitInitInv, <1>1, <1>2, PTL DEF W!Spec

-----------------------------------------------------------------------------
(* A barrier lets its threads through together, for any number of threads, *)
(* any n and any number of rounds.                                         *)

CONSTANTS Meeting, N, MaxWaits              \* see Barrier

VARIABLES bOwner, bSeq, bAsleep, bCv, bSeen, count, generation, bPc, gen, bCalls,
          arrived, released, leaders

B == INSTANCE Barrier WITH Threads <- Meeting, owner <- bOwner, seq <- bSeq,
                           asleep <- bAsleep, cv <- bCv, seen <- bSeen, pc <- bPc,
                           calls <- bCalls

ASSUME MeetingAssumption == B!BarrierAssumption

(* Barrier: a generation lets through the n threads that arrived in it,    *)
(* one of them as leader, and nobody earlier.                              *)
Rendezvous == B!Rendezvous

(* The barrier's finite sets and cardinalities are the library's.          *)
LEMMA BarrierFinite ==
  ASSUME NEW S
  PROVE  (B!IsFiniteSet(S) <=> IsFiniteSet(S)) /\ B!Cardinality(S) = Cardinality(S)
BY DEF B!IsFiniteSet, IsFiniteSet, B!Cardinality, Cardinality

(* Threads that were counted in generation g and have not returned, those  *)
(* of them that lead it, threads about to be counted, and calls made.      *)
Within(g) == {t \in Meeting : gen[t] = g /\ bPc[t] \in {"test", "lead", "follow", "leave"}}
Leading(g) == {t \in Meeting : gen[t] = g /\ bPc[t] \in {"lead", "leave"}}
Entering == {t \in Meeting : bPc[t] = "locked"}
Called == {n \in Meeting \X (1..MaxWaits) : n[2] > bCalls[n[1]]}

(* The inductive strengthening of Rendezvous: where the threads of each    *)
(* generation are accounts for what was counted.                           *)
BarrierTypes ==
  /\ count \in Nat /\ count < B!Quorum /\ generation \in Nat
  /\ bPc \in [Meeting -> B!PC] /\ gen \in [Meeting -> Nat]
  /\ bCalls \in [Meeting -> 0..MaxWaits]
  /\ arrived \in [0..B!MaxGen -> Nat]
  /\ released \in [0..B!MaxGen -> Nat]
  /\ leaders \in [0..B!MaxGen -> Nat]
OwnGeneration ==
  \A t \in Meeting :
    /\ bPc[t] = "test" => gen[t] <= generation
    /\ bPc[t] \in {"lead", "follow", "leave"} => gen[t] < generation
Accounts ==
  \A g \in 0..B!MaxGen :
    /\ arrived[g] = IF g < generation THEN B!Quorum ELSE IF g = generation THEN count ELSE 0
    /\ g >= generation => released[g] = 0
    /\ released[g] + Cardinality(Within(g)) = arrived[g]
    /\ leaders[g] + Cardinality(Leading(g)) = IF g < generation THEN 1 ELSE 0
CallsBound == generation + count + Cardinality(Entering) <= Cardinality(Called)

BarrierInv == BarrierTypes /\ OwnGeneration /\ Accounts /\ CallsBound

(* The sets that are counted are finite.                                   *)
LEMMA MeetingSubsets ==
  ASSUME B!BarrierAssumption, NEW S \in SUBSET Meeting
  PROVE  IsFiniteSet(S) /\ Cardinality(S) \in Nat
BY BarrierFinite, FS_Subset, FS_CardinalityType DEF B!BarrierAssumption

LEMMA CalledFinite ==
  ASSUME B!BarrierAssumption, NEW S \in SUBSET (Meeting \X (1..MaxWaits))
  PROVE  /\ B!MaxGen \in Nat
         /\ IsFiniteSet(S) /\ Cardinality(S) \in Nat /\ Cardinality(S) <= B!MaxGen
<1>1. IsFiniteSet(Meeting) /\ Cardinality(Meeting) \in Nat
  BY MeetingSubsets
<1>2. IsFiniteSet(1..MaxWaits) /\ Cardinality(1..MaxWaits) = MaxWaits
  BY FS_Interval, SMTT(30) DEF B!BarrierAssumption
<1>3. /\ IsFiniteSet(Meeting \X (1..MaxWaits))
      /\ Cardinality(Meeting \X (1..MaxWaits)) = Cardinality(Meeting) * MaxWaits
  BY <1>1, <1>2, FS_Product, Zenon
<1>4. IsFiniteSet(S) /\ Cardinality(S) <= Cardinality(Meeting \X (1..MaxWaits))
  BY <1>3, FS_Subset
<1>5. Cardinality(S) \in Nat
  BY <1>4, FS_CardinalityType
<1>6. B!MaxGen = Cardinality(Meeting) * MaxWaits /\ B!MaxGen \in Nat
  BY <1>1, BarrierFinite DEF B!MaxGen, B!BarrierAssumption
<1>7. QED
  BY <1>3, <1>4, <1>5, <1>6

LEMMA GhostCounts ==
  ASSUME NEW f \in [0..B!MaxGen -> Nat], NEW g
  PROVE  [f EXCEPT ![g] = f[g] + 1] \in [0..B!MaxGen -> Nat]
<1>1. CASE g \in 0..B!MaxGen
  BY <1>1
<1>2. CASE g \notin 0..B!MaxGen
  BY <1>2, Zenon
<1>3. QED
  BY <1>1, <1>2

LEMMA BarrierInitInv == ASSUME B!BarrierAssumption PROVE B!Init => BarrierInv
<1> SUFFICES ASSUME B!Init PROVE BarrierInv
  OBVIOUS
<1>1. Entering = {} /\ Called = {} /\ \A g \in 0..B!MaxGen : Within(g) = {} /\ Leading(g) = {}
  BY DEF B!Init, Entering, Called, Within, Leading, B!BarrierAssumption
<1>2. BarrierTypes /\ OwnGeneration
  BY DEF B!Init, BarrierTypes, OwnGeneration, B!PC, B!Quorum, B!BarrierAssumption
<1>3. CallsBound
  BY <1>1, FS_EmptySet DEF B!Init, CallsBound
<1>4. ASSUME NEW g \in 0..B!MaxGen
      PROVE  Cardinality(Within(g)) = 0 /\ Cardinality(Leading(g)) = 0
  BY <1>1, FS_EmptySet
<1>5. Accounts
  BY <1>4 DEF B!Init, Accounts
<1>6. QED
  BY <1>2, <1>3, <1>5 DEF BarrierInv

(* A step that leaves the state of the barrier and of its callers alone    *)
(* keeps the invariant.                                                    *)
barrierState == <<count, generation, bPc, gen, bCalls, arrived, released, leaders>>

LEMMA BarrierRests == ASSUME BarrierInv, UNCHANGED barrierState PROVE BarrierInv'
<1>1. /\ \A g \in 0..B!MaxGen : Within(g)' = Within(g) /\ Leading(g)' = Leading(g)
      /\ Entering' = Entering /\ Called' = Called
  BY DEF barrierState, Within, Leading, Entering, Called
<1>2. BarrierTypes' /\ OwnGeneration'
  BY DEF barrierState, BarrierInv, BarrierTypes, OwnGeneration
<1>3. Accounts' /\ CallsBound'
  BY <1>1 DEF barrierState, BarrierInv, Accounts, CallsBound
<1>4. QED
  BY <1>2, <1>3 DEF BarrierInv

LEMMA BarrierEnter ==
  ASSUME B!BarrierAssumption, BarrierInv, NEW t \in Meeting, B!Enter(t)
  PROVE  BarrierInv'
<1> USE DEF BarrierInv
<1>1. /\ bPc[t] = "idle" /\ bCalls[t] \in 1..MaxWaits
      /\ bPc' = [bPc EXCEPT ![t] = "locked"] /\ bCalls' = [bCalls EXCEPT ![t] = bCalls[t] - 1]
      /\ UNCHANGED <<count, generation, gen, arrived, released, leaders>>
  BY DEF B!Enter, B!Goto, B!ghosts, BarrierTypes, B!BarrierAssumption
<1>2. BarrierTypes' /\ OwnGeneration'
  BY <1>1 DEF BarrierTypes, OwnGeneration, B!PC, B!BarrierAssumption
<1>3. Accounts'
  <2>1. \A g \in 0..B!MaxGen : Within(g)' = Within(g) /\ Leading(g)' = Leading(g)
    BY <1>1 DEF BarrierTypes, Within, Leading
  <2>2. QED
    BY <1>1, <2>1 DEF Accounts
<1>4. Entering' = Entering \cup {t} /\ t \notin Entering
  BY <1>1 DEF BarrierTypes, Entering
<1>5. Called' = Called \cup {<<t, bCalls[t]>>} /\ <<t, bCalls[t]>> \notin Called
  <2>1. ASSUME NEW u \in Meeting, NEW i \in 1..MaxWaits
        PROVE  i > bCalls'[u] <=> i > bCalls[u] \/ <<u, i>> = <<t, bCalls[t]>>
    BY <1>1 DEF BarrierTypes, B!BarrierAssumption
  <2>2. QED
    BY <1>1, <2>1 DEF Called, B!BarrierAssumption
<1>6. /\ IsFiniteSet(Entering) /\ Cardinality(Entering) \in Nat
      /\ IsFiniteSet(Called) /\ Cardinality(Called) \in Nat
  BY MeetingSubsets, CalledFinite DEF Entering, Called
<1>7. /\ Cardinality(Entering') = Cardinality(Entering) + 1
      /\ Cardinality(Called') = Cardinality(Called) + 1
  BY <1>4, <1>5, <1>6, FS_AddElement, Zenon
<1>8. CallsBound'
  BY <1>1, <1>6, <1>7 DEF CallsBound, BarrierTypes
<1>9. QED
  BY <1>2, <1>3, <1>8

(* The quorum that wait compares with is Barrier::new's n, or 1 for 0.     *)
LEMMA BarrierArrive ==
  ASSUME B!BarrierAssumption, BarrierInv, NEW t \in Meeting, B!Arrive(t)
  PROVE  BarrierInv'
<1> USE DEF BarrierInv
<1> DEFINE last == ~(count + 1 < N)
<1>1. /\ bPc[t] = "locked" /\ bPc' = [bPc EXCEPT ![t] = IF last THEN "lead" ELSE "test"]
      /\ gen' = [gen EXCEPT ![t] = generation]
      /\ arrived' = [arrived EXCEPT ![generation] = arrived[generation] + 1]
      /\ count' = IF last THEN 0 ELSE count + 1
      /\ generation' = IF last THEN generation + 1 ELSE generation
      /\ UNCHANGED <<bCalls, released, leaders>>
  BY DEF B!Arrive, B!Goto, B!Count
<1>2. B!Quorum \in Nat \ {0} /\ count \in Nat /\ (IF last THEN count + 1 = B!Quorum ELSE count + 1 < B!Quorum)
  BY DEF B!Quorum, BarrierTypes, B!BarrierAssumption
<1>3. BarrierTypes' /\ OwnGeneration'
  <2>0. gen' \in [Meeting -> Nat]
    BY <1>1 DEF BarrierTypes
  <2>1. arrived' \in [0..B!MaxGen -> Nat]
    BY <1>1, GhostCounts, Zenon DEF BarrierTypes
  <2>2. BarrierTypes'
    BY <1>1, <1>2, <2>0, <2>1, SMTT(30) DEF BarrierTypes, B!PC
  <2>3. OwnGeneration'
    BY <1>1, <1>2 DEF BarrierTypes, OwnGeneration
  <2>4. QED
    BY <2>2, <2>3
<1>4. CallsBound'
  <2>1. Entering' = Entering \ {t} /\ t \in Entering /\ Called' = Called
    BY <1>1 DEF BarrierTypes, Entering, Called
  <2>2. /\ IsFiniteSet(Entering) /\ Cardinality(Entering) \in Nat /\ Cardinality(Called) \in Nat
    BY MeetingSubsets, CalledFinite DEF Entering, Called
  <2>3. Cardinality(Entering') = Cardinality(Entering) - 1
    BY <2>1, <2>2, FS_RemoveElement, Zenon
  <2>4. QED
    BY <1>1, <1>2, <2>1, <2>2, <2>3 DEF CallsBound, BarrierTypes
<1>5. ASSUME NEW g \in 0..B!MaxGen
      PROVE  /\ arrived'[g] = IF g < generation' THEN B!Quorum
                              ELSE IF g = generation' THEN count' ELSE 0
             /\ g >= generation' => released'[g] = 0
             /\ released'[g] + Cardinality(Within(g)') = arrived'[g]
             /\ leaders'[g] + Cardinality(Leading(g)') = IF g < generation' THEN 1 ELSE 0
  <2>1. /\ arrived[g] = IF g < generation THEN B!Quorum ELSE IF g = generation THEN count ELSE 0
        /\ g >= generation => released[g] = 0
        /\ released[g] + Cardinality(Within(g)) = arrived[g]
        /\ leaders[g] + Cardinality(Leading(g)) = IF g < generation THEN 1 ELSE 0
        /\ released[g] \in Nat /\ leaders[g] \in Nat /\ generation \in Nat
        /\ released'[g] = released[g] /\ leaders'[g] = leaders[g]
        /\ arrived'[g] = IF g = generation THEN arrived[g] + 1 ELSE arrived[g]
    BY <1>1, <1>5 DEF Accounts, BarrierTypes
  <2>2. /\ IsFiniteSet(Within(g)) /\ Cardinality(Within(g)) \in Nat
        /\ IsFiniteSet(Leading(g)) /\ Cardinality(Leading(g)) \in Nat
    BY MeetingSubsets DEF Within, Leading
  <2>3. CASE g = generation
    <3>1. Within(g)' = Within(g) \cup {t} /\ t \notin Within(g) /\ t \notin Leading(g)
      BY <1>1, <2>3 DEF BarrierTypes, Within, Leading
    <3>2. Leading(g)' = IF last THEN Leading(g) \cup {t} ELSE Leading(g)
      BY <1>1, <2>3 DEF BarrierTypes, Leading
    <3>3. /\ Cardinality(Within(g)') = Cardinality(Within(g)) + 1
          /\ Cardinality(Leading(g) \cup {t}) = Cardinality(Leading(g)) + 1
      BY <2>2, <3>1, FS_AddElement, ZenonT(60)
    <3>4. QED
      BY <1>1, <1>2, <2>1, <2>2, <2>3, <3>2, <3>3
  <2>4. CASE g # generation
    <3>1. Within(g)' = Within(g) /\ Leading(g)' = Leading(g)
      BY <1>1, <2>4 DEF BarrierTypes, Within, Leading
    <3>2. QED
      BY <1>1, <1>2, <2>1, <2>2, <2>4, <3>1, SMTT(30)
  <2>5. QED
    BY <2>3, <2>4
<1>6. Accounts'
  BY <1>5 DEF Accounts
<1>7. QED
  BY <1>3, <1>4, <1>6

LEMMA BarrierReturn ==
  ASSUME B!BarrierAssumption, BarrierInv, NEW t \in Meeting, B!Return(t)
  PROVE  BarrierInv'
<1> USE DEF BarrierInv
<1> DEFINE h == gen[t]
<1>1. /\ bPc[t] \in {"follow", "leave"} /\ bPc' = [bPc EXCEPT ![t] = "idle"]
      /\ released' = [released EXCEPT ![h] = released[h] + 1]
      /\ leaders' = IF bPc[t] = "leave" THEN [leaders EXCEPT ![h] = leaders[h] + 1] ELSE leaders
      /\ UNCHANGED <<count, generation, gen, bCalls, arrived>>
  BY Zenon DEF B!Return, B!Goto, B!Count
<1>2. h \in Nat /\ h < generation /\ generation \in Nat
  BY <1>1 DEF OwnGeneration, BarrierTypes
<1>3. BarrierTypes' /\ OwnGeneration'
  <2>1. released' \in [0..B!MaxGen -> Nat] /\ leaders' \in [0..B!MaxGen -> Nat]
    BY <1>1, GhostCounts, Zenon DEF BarrierTypes
  <2>2. BarrierTypes'
    BY <1>1, <2>1 DEF BarrierTypes, B!PC
  <2>3. OwnGeneration'
    BY <1>1 DEF BarrierTypes, OwnGeneration
  <2>4. QED
    BY <2>2, <2>3
<1>4. CallsBound'
  <2>1. Entering' = Entering /\ Called' = Called
    BY <1>1 DEF BarrierTypes, Entering, Called
  <2>2. QED
    BY <1>1, <2>1 DEF CallsBound
<1>5. ASSUME NEW g \in 0..B!MaxGen
      PROVE  /\ arrived'[g] = IF g < generation' THEN B!Quorum
                              ELSE IF g = generation' THEN count' ELSE 0
             /\ g >= generation' => released'[g] = 0
             /\ released'[g] + Cardinality(Within(g)') = arrived'[g]
             /\ leaders'[g] + Cardinality(Leading(g)') = IF g < generation' THEN 1 ELSE 0
  <2>1. /\ arrived[g] = IF g < generation THEN B!Quorum ELSE IF g = generation THEN count ELSE 0
        /\ g >= generation => released[g] = 0
        /\ released[g] + Cardinality(Within(g)) = arrived[g]
        /\ leaders[g] + Cardinality(Leading(g)) = IF g < generation THEN 1 ELSE 0
        /\ released[g] \in Nat /\ leaders[g] \in Nat /\ arrived[g] \in Nat
        /\ released'[g] = IF g = h THEN released[g] + 1 ELSE released[g]
        /\ leaders'[g] = IF g = h /\ bPc[t] = "leave" THEN leaders[g] + 1 ELSE leaders[g]
    BY <1>1, <1>5 DEF Accounts, BarrierTypes
  <2>2. /\ IsFiniteSet(Within(g)) /\ Cardinality(Within(g)) \in Nat
        /\ IsFiniteSet(Leading(g)) /\ Cardinality(Leading(g)) \in Nat
    BY MeetingSubsets DEF Within, Leading
  <2>3. CASE g = h
    <3>1. Within(g)' = Within(g) \ {t} /\ t \in Within(g)
      BY <1>1, <2>3 DEF BarrierTypes, Within
    <3>2. Cardinality(Within(g)') = Cardinality(Within(g)) - 1
      BY <2>2, <3>1, FS_RemoveElement, ZenonT(60)
    <3>3. CASE bPc[t] = "leave"
      <4>1. Leading(g)' = Leading(g) \ {t} /\ t \in Leading(g)
        BY <1>1, <2>3, <3>3 DEF BarrierTypes, Leading
      <4>2. Cardinality(Leading(g)') = Cardinality(Leading(g)) - 1
        BY <2>2, <4>1, FS_RemoveElement, ZenonT(60)
      <4>3. QED
        BY <1>1, <1>2, <2>1, <2>2, <2>3, <3>2, <3>3, <4>2, SMTT(30)
    <3>4. CASE bPc[t] # "leave"
      <4>1. Leading(g)' = Leading(g)
        BY <1>1, <3>4 DEF BarrierTypes, Leading
      <4>2. QED
        BY <1>1, <1>2, <2>1, <2>2, <2>3, <3>2, <3>4, <4>1, SMTT(30)
    <3>5. QED
      BY <3>3, <3>4
  <2>4. CASE g # h
    <3>1. Within(g)' = Within(g) /\ Leading(g)' = Leading(g)
      BY <1>1, <2>4 DEF BarrierTypes, Within, Leading
    <3>2. QED
      BY <1>1, <2>1, <2>4, <3>1
  <2>5. QED
    BY <2>3, <2>4
<1>6. Accounts'
  BY <1>5 DEF Accounts
<1>7. QED
  BY <1>3, <1>4, <1>6

(* Between its arrival and its return a thread stays in its generation.    *)
LEMMA BarrierStays ==
  ASSUME BarrierInv, NEW t \in Meeting, B!TestEnds(t) \/ B!Lead(t)
  PROVE  BarrierInv'
<1> USE DEF BarrierInv, B!Goto
<1>1. /\ \/ bPc[t] = "test" /\ gen[t] # generation /\ bPc' = [bPc EXCEPT ![t] = "follow"]
         \/ bPc[t] = "lead" /\ bPc' = [bPc EXCEPT ![t] = "leave"]
      /\ UNCHANGED <<count, generation, gen, bCalls, arrived, released, leaders>>
  BY Zenon DEF B!TestEnds, B!Lead, B!ghosts
<1>2. /\ \A g \in 0..B!MaxGen : Within(g)' = Within(g) /\ Leading(g)' = Leading(g)
      /\ Entering' = Entering /\ Called' = Called
  BY <1>1 DEF BarrierTypes, Within, Leading, Entering, Called
<1>3. BarrierTypes'
  BY <1>1, SMTT(30) DEF BarrierTypes, B!PC
<1>6. OwnGeneration'
  BY <1>1 DEF BarrierTypes, OwnGeneration
<1>4. Accounts' /\ CallsBound'
  BY <1>1, <1>2 DEF Accounts, CallsBound
<1>5. QED
  BY <1>3, <1>4, <1>6

LEMMA BarrierNextInv ==
  ASSUME B!BarrierAssumption, BarrierInv, [B!Next]_(B!vars)
  PROVE  BarrierInv'
<1>1. CASE UNCHANGED B!vars
  BY <1>1, BarrierRests DEF B!vars, B!ghosts, barrierState
<1>2. ASSUME NEW t \in Meeting, B!TestWaits(t) \/ B!InCondvar(t) \/ B!Interrupted(t)
      PROVE  BarrierInv'
  BY <1>2, BarrierRests DEF B!TestWaits, B!InCondvar, B!Interrupted, B!ghosts, barrierState
<1>3. QED
  BY <1>1, <1>2, BarrierEnter, BarrierArrive, BarrierStays, BarrierReturn DEF B!Next, B!Proceed

(* Barrier::wait, for any n, any number of threads and any number of       *)
(* rounds: nobody returns before n threads have arrived in its generation, *)
(* and of these n exactly one is told that it is the leader.               *)
THEOREM RendezvousHolds ==
  ASSUME B!BarrierAssumption
  PROVE  B!Spec => []Rendezvous
<1>1. BarrierInv => Rendezvous
  <2> SUFFICES ASSUME BarrierInv, NEW g \in 0..B!MaxGen
               PROVE  /\ arrived[g] <= B!Quorum
                      /\ released[g] > 0 => arrived[g] = B!Quorum
                      /\ released[g] <= arrived[g]
                      /\ leaders[g] <= 1
                      /\ released[g] = B!Quorum => leaders[g] = 1
    BY DEF Rendezvous, B!Rendezvous
  <2>1. /\ IsFiniteSet(Within(g)) /\ Cardinality(Within(g)) \in Nat
        /\ Cardinality(Leading(g)) \in Nat /\ Leading(g) \in SUBSET Within(g)
    BY MeetingSubsets DEF Within, Leading
  <2>2. Cardinality(Leading(g)) <= Cardinality(Within(g))
    BY <2>1, FS_Subset
  <2>3. /\ arrived[g] = IF g < generation THEN B!Quorum ELSE IF g = generation THEN count ELSE 0
        /\ g >= generation => released[g] = 0
        /\ released[g] + Cardinality(Within(g)) = arrived[g]
        /\ leaders[g] + Cardinality(Leading(g)) = IF g < generation THEN 1 ELSE 0
        /\ released[g] \in Nat /\ leaders[g] \in Nat /\ generation \in Nat
        /\ count \in Nat /\ count < B!Quorum
    BY DEF BarrierInv, BarrierTypes, Accounts
  <2>4. B!Quorum \in Nat \ {0}
    BY DEF B!Quorum, B!BarrierAssumption
  <2>5. QED
    BY <2>1, <2>2, <2>3, <2>4
<1>2. QED
  BY <1>1, BarrierInitInv, BarrierNextInv, PTL DEF B!Spec

(* The rounds that Rendezvous speaks of are all there are: a generation    *)
(* is opened by a call to wait, and there are MaxGen of these.             *)
THEOREM GenerationsBounded ==
  ASSUME B!BarrierAssumption
  PROVE  B!Spec => [](generation \in 0..B!MaxGen)
<1>1. BarrierInv => generation \in 0..B!MaxGen
  <2> SUFFICES ASSUME BarrierInv PROVE generation \in 0..B!MaxGen
    OBVIOUS
  <2>1. /\ Cardinality(Entering) \in Nat /\ Cardinality(Called) \in Nat
        /\ Cardinality(Called) <= B!MaxGen /\ B!MaxGen \in Nat
    BY MeetingSubsets, CalledFinite DEF Entering, Called
  <2>2. QED
    BY <2>1 DEF BarrierInv, BarrierTypes, CallsBound
<1>2. QED
  BY <1>1, BarrierInitInv, BarrierNextInv, PTL DEF B!Spec
=============================================================================
