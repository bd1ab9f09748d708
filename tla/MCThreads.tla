----------------------------- MODULE MCThreads -----------------------------
(***************************************************************************)
(* What threads wait with, hand over with and are made with: the units of  *)
(* CondvarProofs and ThreadProofs.  They share no state, so one run checks *)
(* them all: a behaviour is a behaviour of the one that `unit` names,      *)
(* while the others rest in their initial states.                          *)
(***************************************************************************)
EXTENDS CondvarProofs, ThreadProofs

VARIABLES unit

(* LazyLock; O of ThreadProofs is OnceLock.                                *)
Z == INSTANCE Once WITH Threads <- Callers, None <- Absent, Ops <- {"force"},
                        state <- oState, pc <- oPc

ASSUME LazyAssumption == Z!OnceAssumption

waitVars == <<wOwner, wSeq, wAsleep, wCv, wSeen, permits, wPc, wLeft>>
barrierVars == <<bOwner, bSeq, bAsleep, bCv, bSeen, count, generation, bPc, gen, bCalls,
                 arrived, released, leaders>>
channelVars == <<qOwner, qSeq, qAsleep, qCv, qSeen, queue, senders, receiver_gone, qPc,
                 tries, sent, got, qCalls, received>>
onceVars == <<oState, value, init, op, oPc, out>>
tlsVars == <<tid, born, tOwner, registry, tPc, key, ptr, used, tLeft>>
parkerVars == <<token, sleeper, pPc, parks, unparks, unseen>>
scopeVars == <<running, wake, frame, waiting, scope, thread, slot, finished, joining>>
machVars == <<create_lock, port, asked, mPc, reply, kr, mLeft, cut>>
allVars == <<unit, waitVars, barrierVars, channelVars, onceVars, tlsVars, parkerVars,
            vars, scopeVars, machVars>>

MCInit ==
  /\ unit \in {"wait_while", "barrier", "channel", "OnceLock", "LazyLock", "tls",
               "parker", "spawn", "scope", "mach_spawn"}
  /\ W!Init /\ B!Init /\ Q!Init /\ O!Init /\ T!Init
  /\ P!Init /\ Init /\ C!Init /\ M!Init
  /\ unit # "spawn" => target = "linux"

MCNext ==
  /\ \/ unit = "wait_while" /\ W!Next
     \/ unit = "barrier" /\ B!Next
     \/ unit = "channel" /\ Q!Next
     \/ unit = "OnceLock" /\ O!Next
     \/ unit = "LazyLock" /\ Z!Next
     \/ unit = "tls" /\ T!Next
     \/ unit = "parker" /\ P!Next
     \/ unit = "spawn" /\ Next
     \/ unit = "scope" /\ C!Next
     \/ unit = "mach_spawn" /\ M!Next
  /\ unit # "wait_while" => UNCHANGED waitVars
  /\ unit # "barrier" => UNCHANGED barrierVars
  /\ unit # "channel" => UNCHANGED channelVars
  /\ unit \notin {"OnceLock", "LazyLock"} => UNCHANGED onceVars
  /\ unit # "tls" => UNCHANGED tlsVars
  /\ unit # "parker" => UNCHANGED parkerVars
  /\ unit # "spawn" => UNCHANGED vars
  /\ unit # "scope" => UNCHANGED scopeVars
  /\ unit # "mach_spawn" => UNCHANGED machVars
  /\ UNCHANGED unit

(* The fairness of the specifications; Tls and MachSpawn have none.  Once's *)
(* steps inside a call are the same for both cells.                        *)
Fairness ==
  /\ \A t \in Producers \cup Consumers :
       WF_waitVars(unit = "wait_while" /\ W!Proceed(t))
  /\ \A t \in Meeting : WF_barrierVars(unit = "barrier" /\ B!Proceed(t))
  /\ \A t \in Senders : WF_channelVars(unit = "channel" /\ Q!SenderProceeds(t))
  /\ WF_channelVars(unit = "channel" /\ Q!ReceiverProceeds)
  /\ \A t \in Callers : WF_onceVars(unit \in {"OnceLock", "LazyLock"} /\ O!Proceed(t))
  /\ WF_parkerVars(unit = "parker" /\ P!OwnerProceeds)
  /\ WF_parkerVars(unit = "parker" /\ P!Timeout)
  /\ \A t \in Others : WF_parkerVars(unit = "parker" /\ P!UnparkWake(t))
  /\ \A c \in Children :
       /\ WF_vars(unit = "spawn" /\ Child(c))
       /\ WF_vars(unit = "spawn" /\ Joining(c))
  /\ WF_scopeVars(unit = "scope" /\ C!Parent)
  /\ \A c \in Scoped : WF_scopeVars(unit = "scope" /\ C!Child(c))

MCSpec == MCInit /\ [][MCNext]_allVars /\ Fairness

-----------------------------------------------------------------------------
(* wait_while, Barrier, Channel: a permit and a waiting consumer do not    *)
(* both stay for ever, once n threads have arrived all n return, and a     *)
(* recv with a message to return returns.                                  *)
Owed == W!PermitWaits \/ B!SomeHeld \/ Q!MessageWaits
CondvarsWake == Owed ~> ~Owed

(* Once, Parker, Spawn, Scope: every call on a cell, a park with a token,  *)
(* every park_timeout, every join and every scope return.                  *)
InCall == O!InCall \/ P!MustReturn \/ InJoin \/ (unit = "scope" /\ C!InScope)
CallsReturn == InCall ~> ~InCall
=============================================================================
