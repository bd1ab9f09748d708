------------------------------ MODULE Channel ------------------------------
(***************************************************************************)
(* sync::mpsc: senders, their clones, and the one receiver, over the       *)
(* queue's mutex and condition variable.  Message i of sender t is the     *)
(* pair <<t, i>>.                                                          *)
(***************************************************************************)
EXTENDS Naturals, Sequences, FiniteSets

CONSTANTS Senders,    \* threads that may own a Sender
          Receiver,   \* the thread that owns the Receiver
          First,      \* the thread with the Sender that channel() returned
          None,       \* see Condvar
          SeqSize,     \* see Condvar
          MaxSend,    \* bound: calls of send by each sender
          MaxRecv     \* bound: calls to recv and try_recv

Threads == Senders \cup {Receiver}

ChannelAssumption ==
  /\ IsFiniteSet(Senders) /\ First \in Senders
  /\ Receiver \notin Senders /\ None \notin Threads
  /\ MaxSend \in Nat /\ MaxRecv \in Nat
  /\ Cardinality(Senders) * (MaxSend + 1) < SeqSize

VARIABLES owner, seq, asleep, cv, seen,   \* see Condvar
          queue,           \* Shared::queue
          senders,         \* Shared::senders
          receiver_gone,   \* Shared::receiver_gone
          pc,              \* where each thread is
          tries,           \* how often each sender has called send
          sent,            \* the messages of each sender for which send returns Ok
          got,             \* the messages recv and try_recv returned
          calls,           \* receives left
          result           \* what the last receive returned

C == INSTANCE Condvar

cvVars == <<owner, seq, asleep, cv, seen>>
shared == <<queue, senders, receiver_gone>>
ghosts == <<tries, sent, got, calls, result>>
vars == <<cvVars, shared, pc, ghosts>>

Messages == Senders \X (1..MaxSend)

(* Senders.  none: no Sender yet;  ready: between calls;  slock, push,     *)
(* notify: in send;  last: in drop, about to notify_all;  gone: dropped.   *)
(* Receiver.  ready: between calls;  rlock, pop, senders: in recv, about   *)
(* to lock, pop, and read `senders`;  cvwait: about to call cv.wait;       *)
(* tlock, tpop, tsenders: in try_recv;  gone: dropped.                     *)
SenderPC == {"none", "ready", "slock", "push", "notify", "last", "gone"}
ReceiverPC == {"ready", "rlock", "pop", "senders", "cvwait",
               "tlock", "tpop", "tsenders", "gone"}

TypeOK ==
  /\ C!CvTypeOK
  /\ queue \in Seq(Messages)
  /\ senders \in 0 .. Cardinality(Senders)
  /\ receiver_gone \in BOOLEAN
  /\ \A t \in Senders : pc[t] \in SenderPC
  /\ pc[Receiver] \in ReceiverPC
  /\ tries \in [Senders -> 0..MaxSend]
  /\ sent \in [Senders -> Seq(Messages)]
  /\ got \in Seq(Messages)
  /\ calls \in 0..MaxRecv
  /\ result \in {"none", "ok", "empty", "disconnected"}

(* channel()                                                               *)
Init ==
  /\ C!CvInit
  /\ queue = <<>> /\ senders = 1 /\ receiver_gone = FALSE
  /\ pc = [t \in Threads |-> IF t \in {First, Receiver} THEN "ready" ELSE "none"]
  /\ tries = [t \in Senders |-> 0]
  /\ sent = [t \in Senders |-> <<>>]
  /\ got = <<>> /\ calls = MaxRecv /\ result = "none"

Goto(t, l) == pc' = [pc EXCEPT ![t] = l]

(* Between two calls.                                                      *)
Ready(t) == pc[t] = "ready" /\ cv[t] = "out"

Message(t) == <<t, tries[t]>>

-----------------------------------------------------------------------------
(* Sender::clone: the new Sender goes to thread u.                         *)
Clone(t, u) ==
  /\ Ready(t) /\ pc[u] = "none"
  /\ senders' = senders + 1
  /\ Goto(u, "ready")
  /\ UNCHANGED <<cvVars, queue, receiver_gone, ghosts>>

(* send: with the receiver gone return an error, otherwise go on.          *)
Send(t) ==
  /\ Ready(t) /\ tries[t] < MaxSend
  /\ tries' = [tries EXCEPT ![t] = @ + 1]
  /\ Goto(t, IF receiver_gone THEN "ready" ELSE "slock")
  /\ UNCHANGED <<cvVars, shared, sent, got, calls, result>>

(* send: queue.lock()                                                      *)
SendLock(t) ==
  /\ pc[t] = "slock"
  /\ C!MutexLock(t)
  /\ Goto(t, "push")
  /\ UNCHANGED <<shared, ghosts>>

(* send: push_back, and the temporary guard is dropped.                    *)
Push(t) ==
  /\ pc[t] = "push"
  /\ C!MutexUnlock(t)
  /\ queue' = Append(queue, Message(t))
  /\ sent' = [sent EXCEPT ![t] = Append(@, Message(t))]
  /\ Goto(t, "notify")
  /\ UNCHANGED <<senders, receiver_gone, tries, got, calls, result>>

(* send: cv.notify_one(), and return Ok.                                   *)
SendNotify(t) ==
  /\ pc[t] = "notify"
  /\ C!Notify(t, "wake1")
  /\ Goto(t, "ready")
  /\ UNCHANGED <<shared, ghosts>>

(* Sender::drop: fetch_sub, without the queue's mutex; the last one goes   *)
(* on to notify_all.                                                       *)
DropSender(t) ==
  /\ Ready(t)
  /\ senders' = senders - 1
  /\ Goto(t, IF senders = 1 THEN "last" ELSE "gone")
  /\ UNCHANGED <<cvVars, queue, receiver_gone, ghosts>>

(* Sender::drop: cv.notify_all()                                           *)
LastSenderNotifies(t) ==
  /\ pc[t] = "last"
  /\ C!Notify(t, "wakeall")
  /\ Goto(t, "gone")
  /\ UNCHANGED <<shared, ghosts>>

-----------------------------------------------------------------------------
(* recv and try_recv are called.                                           *)
Receive ==
  /\ Ready(Receiver) /\ calls > 0
  /\ calls' = calls - 1
  /\ Goto(Receiver, "rlock") \/ Goto(Receiver, "tlock")
  /\ result' = "none"
  /\ UNCHANGED <<cvVars, shared, tries, sent, got>>

(* recv, try_recv: queue.lock()                                            *)
ReceiveLock ==
  /\ \/ pc[Receiver] = "rlock" /\ Goto(Receiver, "pop")
     \/ pc[Receiver] = "tlock" /\ Goto(Receiver, "tpop")
  /\ C!MutexLock(Receiver)
  /\ UNCHANGED <<shared, ghosts>>

(* recv, try_recv return r, and the guard is dropped.                      *)
Return(r) ==
  /\ C!MutexUnlock(Receiver)
  /\ result' = r
  /\ Goto(Receiver, "ready")
  /\ UNCHANGED <<senders, receiver_gone, tries, sent, calls>>

PopAfterDisconnect ==
  /\ pc[Receiver] \in {"pop", "tpop"}
  /\ IF senders = 0
     THEN Return("disconnected") /\ UNCHANGED <<queue, got>>
     ELSE /\ queue # <<>>
          /\ queue' = Tail(queue)
          /\ got' = Append(got, Head(queue))
          /\ Return("ok")

(* recv, try_recv: pop_front returns a message.                            *)
Pop ==
  /\ pc[Receiver] \in {"pop", "tpop"}
  /\ queue # <<>>
  /\ queue' = Tail(queue)
  /\ got' = Append(got, Head(queue))
  /\ Return("ok")

(* recv, try_recv: the queue is empty.                                     *)
PopEmpty ==
  /\ queue = <<>> /\ cv[Receiver] = "out"
  /\ \/ pc[Receiver] = "pop" /\ Goto(Receiver, "senders")
     \/ pc[Receiver] = "tpop" /\ Goto(Receiver, "tsenders")
  /\ UNCHANGED <<cvVars, shared, ghosts>>

(* recv, try_recv: no sender is left.                                      *)
Disconnected ==
  /\ pc[Receiver] \in {"senders", "tsenders"} /\ senders = 0
  /\ Return("disconnected")
  /\ UNCHANGED <<queue, got>>

(* try_recv: a sender is left.                                             *)
Empty ==
  /\ pc[Receiver] = "tsenders" /\ senders # 0
  /\ Return("empty")
  /\ UNCHANGED <<queue, got>>

(* recv: a sender is left, so call cv.wait ...                             *)
RecvMustWait ==
  /\ pc[Receiver] = "senders" /\ senders # 0
  /\ Goto(Receiver, "cvwait")
  /\ UNCHANGED <<cvVars, shared, ghosts>>

(* ... and start over when it returns.                                     *)
RecvWait ==
  /\ pc[Receiver] = "cvwait"
  /\ C!Wait(Receiver)
  /\ Goto(Receiver, "pop")
  /\ UNCHANGED <<shared, ghosts>>

(* Receiver::drop                                                          *)
DropReceiver ==
  /\ Ready(Receiver)
  /\ receiver_gone' = TRUE
  /\ Goto(Receiver, "gone")
  /\ UNCHANGED <<cvVars, queue, senders, ghosts>>

-----------------------------------------------------------------------------
InCondvar(t) == C!Inside(t) /\ UNCHANGED <<shared, pc, ghosts>>

Interrupted(t) == C!Spurious(t) /\ UNCHANGED <<shared, pc, ghosts>>

(* What a thread does by itself inside a call.                             *)
SenderProceeds(t) ==
  SendLock(t) \/ Push(t) \/ SendNotify(t) \/ LastSenderNotifies(t) \/ InCondvar(t)

ReceiverProceeds ==
  \/ ReceiveLock \/ Pop \/ PopEmpty \/ Disconnected \/ Empty
  \/ RecvMustWait \/ RecvWait \/ InCondvar(Receiver)

Next ==
  \/ \E t \in Senders : Send(t) \/ DropSender(t) \/ SenderProceeds(t)
  \/ \E t, u \in Senders : Clone(t, u)
  \/ Receive \/ ReceiverProceeds \/ DropReceiver
  \/ Interrupted(Receiver)

(* The scheduler runs every thread that is inside a call.                  *)
Spec ==
  /\ Init /\ [][Next]_vars
  /\ \A t \in Senders : WF_vars(SenderProceeds(t))
  /\ WF_vars(ReceiverProceeds)

-----------------------------------------------------------------------------
(* What the channel carried so far, and the places of t's messages among   *)
(* the first n.                                                            *)
Carried == got \o queue
PlacesOf(t, n) == {i \in 1..n : Carried[i][1] = t}

(* Every message that send accepted is in the queue or was received, once, *)
(* and each sender's messages stay in the order they were sent: the n-th   *)
(* of t's messages in the channel is the n-th that t sent.                 *)
NothingLost ==
  \A t \in Senders :
    /\ Cardinality(PlacesOf(t, Len(Carried))) = Len(sent[t])
    /\ \A i \in PlacesOf(t, Len(Carried)) :
         Carried[i] = sent[t][Cardinality(PlacesOf(t, i))]

(* RecvError and TryRecvError::Disconnected are final: every message has   *)
(* been received and no sender is left that could send another.            *)
DisconnectedIsFinal ==
  result = "disconnected" =>
    queue = <<>> /\ \A t \in Senders : pc[t] \in {"none", "last", "gone"}

(* A channel delivers what send accepted, in order and once, and says that *)
(* it is over only when it is.                                             *)
Delivers == NothingLost /\ DisconnectedIsFinal

InRecv == pc[Receiver] \in {"rlock", "pop", "senders", "cvwait"}

(* A recv() that has a message to return returns: send's notify_one        *)
(* reaches it wherever it is on its way to sleep.                          *)
MessageWaits == InRecv /\ queue # <<>>
MessageWakes == MessageWaits ~> ~MessageWaits

(* A recv() returns once the last Sender is dropped ("Last sender gone -   *)
(* wake any blocked receiver").                                            *)
DisconnectWakes == InRecv /\ senders = 0 ~> pc[Receiver] = "ready"
=============================================================================
