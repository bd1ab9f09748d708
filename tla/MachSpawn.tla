----------------------------- MODULE MachSpawn -----------------------------
(***************************************************************************)
(* spawn_os on macOS/arm64: a request to the kernel and its reply on one   *)
(* reply port that all creators share, under the spin lock CREATE_LOCK.    *)
(* The kernel, external, takes requests in any order.                      *)
(***************************************************************************)
EXTENDS Naturals, Sequences

CONSTANTS Threads, None,
          MaxCalls      \* bound: threads each thread creates

MachSpawnAssumption == None \notin Threads \X Nat /\ MaxCalls \in Nat

VARIABLES create_lock,  \* CREATE_LOCK
          port,         \* the replies waiting at the port, each named by its request
          asked,        \* the requests the kernel has yet to answer
          pc,
          reply,        \* the reply in each creator's message buffer
          kr,           \* what mach_msg2 returned
          left,         \* calls each creator has left
          cut           \* has a receive failed after its request was sent

vars == <<create_lock, port, asked, pc, reply, kr, left, cut>>

(* The request of the call that t is in, or was in last.                   *)
Request(t) == <<t, left[t]>>

TypeOK ==
  /\ create_lock \in {0, 1}
  /\ port \in Seq(Threads \X Nat) /\ asked \subseteq Threads \X Nat
  /\ pc \in [Threads -> {"idle", "lock", "send", "receive", "unlock"}]
  /\ reply \in [Threads -> (Threads \X Nat) \cup {None}]
  /\ kr \in [Threads -> {"none", "ok", "error"}]
  /\ left \in [Threads -> Nat]
  /\ cut \in BOOLEAN

Init ==
  /\ create_lock = 0 /\ port = <<>> /\ asked = {}
  /\ pc = [t \in Threads |-> "idle"]
  /\ reply = [t \in Threads |-> None]
  /\ kr = [t \in Threads |-> "none"]
  /\ left = [t \in Threads |-> MaxCalls]
  /\ cut = FALSE

(* spawn_os: the message is built in a local buffer.                       *)
SpawnOs(t) ==
  /\ pc[t] = "idle" /\ left[t] > 0
  /\ left' = [left EXCEPT ![t] = @ - 1]
  /\ pc' = [pc EXCEPT ![t] = "lock"]
  /\ reply' = [reply EXCEPT ![t] = None]
  /\ kr' = [kr EXCEPT ![t] = "none"]
  /\ UNCHANGED <<create_lock, port, asked, cut>>

LockNotTaken(t) ==
  /\ pc[t] = "lock"
  /\ pc' = [pc EXCEPT ![t] = "send"]
  /\ UNCHANGED <<create_lock, port, asked, reply, kr, left, cut>>

(* lock: the compare-exchange succeeds.  (A weak one that fails spins.)    *)
Lock(t) ==
  /\ pc[t] = "lock" /\ create_lock = 0
  /\ create_lock' = 1
  /\ pc' = [pc EXCEPT ![t] = "send"]
  /\ UNCHANGED <<port, asked, reply, kr, left, cut>>

(* mach_msg2, the send: it fails, ...                                      *)
SendFails(t) ==
  /\ pc[t] = "send"
  /\ kr' = [kr EXCEPT ![t] = "error"]
  /\ pc' = [pc EXCEPT ![t] = "unlock"]
  /\ UNCHANGED <<create_lock, port, asked, reply, left, cut>>

(* ... or the kernel has the request, ...                                  *)
Send(t) ==
  /\ pc[t] = "send"
  /\ asked' = asked \cup {Request(t)}
  /\ pc' = [pc EXCEPT ![t] = "receive"]
  /\ UNCHANGED <<create_lock, port, reply, kr, left, cut>>

(* ... which it answers.  The reply says whether there is a new thread;    *)
(* spawn_os does not look at it (see Spawn).                               *)
Answer(r) ==
  /\ r \in asked
  /\ asked' = asked \ {r}
  /\ port' = Append(port, r)
  /\ UNCHANGED <<create_lock, pc, reply, kr, left, cut>>

(* mach_msg2, the receive: the first reply at the port, ...                *)
Receive(t) ==
  /\ pc[t] = "receive" /\ port # <<>>
  /\ reply' = [reply EXCEPT ![t] = Head(port)]
  /\ port' = Tail(port)
  /\ kr' = [kr EXCEPT ![t] = "ok"]
  /\ pc' = [pc EXCEPT ![t] = "unlock"]
  /\ UNCHANGED <<create_lock, asked, left, cut>>

(* ... or it fails (a signal interrupts it), and the reply stays or comes. *)
(* Bound: one receive fails.                                               *)
ReceiveFails(t) ==
  /\ pc[t] = "receive" /\ ~cut
  /\ kr' = [kr EXCEPT ![t] = "error"]
  /\ cut' = TRUE
  /\ pc' = [pc EXCEPT ![t] = "unlock"]
  /\ UNCHANGED <<create_lock, port, asked, reply, left>>

(* unlock, and spawn_os returns Ok or Err as kr says.                      *)
Unlock(t) ==
  /\ pc[t] = "unlock"
  /\ create_lock' = 0
  /\ pc' = [pc EXCEPT ![t] = "idle"]
  /\ UNCHANGED <<port, asked, reply, kr, left, cut>>

Next ==
  \/ \E t \in Threads :
       SpawnOs(t) \/ Lock(t) \/ SendFails(t) \/ Send(t) \/ Receive(t) \/ ReceiveFails(t)
         \/ Unlock(t)
  \/ \E r \in asked : Answer(r)

Spec == Init /\ [][Next]_vars

-----------------------------------------------------------------------------
(* "Serializes thread creation (the reply port is shared)": as long as no  *)
(* receive fails, no creator is given another's reply or that of an        *)
(* earlier call of its own, so that Ok comes after the kernel's answer to  *)
(* this request; and no reply is left at the port to be taken for the next *)
(* creator's.  (A receive that fails leaves its reply to the next one.)    *)
OwnReply ==
  ~cut =>
    /\ \A t \in Threads :
         reply[t] \in {None, Request(t)} /\ (kr[t] = "ok" => reply[t] = Request(t))
    /\ create_lock = 0 => port = <<>> /\ asked = {}

(* The inductive strengthening of OwnReply: a creator between lock and     *)
(* unlock has the lock, there is one of them, and what is under way is its *)
(* request or its reply.                                                   *)
Inside(t) == pc[t] \in {"send", "receive", "unlock"}
OneCreator ==
  /\ \A t, u \in Threads : Inside(t) /\ Inside(u) => t = u
  /\ \A t \in Threads : Inside(t) => create_lock = 1
  /\ create_lock = 1 => \E t \in Threads : Inside(t)
OneRequest ==
  /\ \A r \in asked : port = <<>> /\ \E t \in Threads : r = Request(t) /\ pc[t] = "receive"
  /\ port # <<>> => /\ asked = {}
                    /\ \E t \in Threads : port = <<Request(t)>> /\ pc[t] = "receive"
  /\ \A t \in Threads :
       reply[t] \in {None, Request(t)} /\ (kr[t] = "ok" => reply[t] = Request(t))
=============================================================================
