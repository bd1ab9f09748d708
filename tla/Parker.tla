------------------------------- MODULE Parker -------------------------------
(***************************************************************************)
(* thread::park, park_timeout and Thread::unpark: one thread parks on its  *)
(* own token, the others unpark it.                                        *)
(***************************************************************************)
EXTENDS Naturals, Futex

CONSTANTS Owner,        \* the thread whose handle this is
          Others,       \* the threads that call unpark on it
          MaxParks,     \* bound: calls to park and park_timeout
          MaxUnparks    \* bound: calls to unpark by each of the others

ParkerAssumption ==
  Owner \notin Others /\ MaxParks \in Nat /\ MaxUnparks \in Nat

VARIABLES state,        \* Parker::state: 1 when there is a token
          asleep,       \* {Owner} or {}: asleep in the kernel on `state`
          pc,           \* where each thread is
          parks,        \* calls Owner has left
          unparks,      \* calls each other thread has left
          unseen        \* has unpark been called since the last park or
                        \* park_timeout returned

vars == <<state, asleep, pc, parks, unparks, unseen>>

(* Owner.  wait, swap: in park's loop, inside futex_wait and about to      *)
(* swap(0);  timed, tswap: in park_timeout, inside futex_wait_timeout and  *)
(* about to swap(0);  endless: timed, with a Duration that macOS takes for *)
(* no timeout (see Timeout).  The others.  wake: in unpark, about to       *)
(* futex_wake.                                                             *)
TypeOK ==
  /\ state \in {0, 1}
  /\ asleep \subseteq {Owner}
  /\ pc \in [Others \cup {Owner} -> {"idle", "wait", "swap", "timed", "endless", "tswap", "wake"}]
  /\ pc[Owner] \in {"idle", "wait", "swap", "timed", "endless", "tswap"}
  /\ \A t \in Others : pc[t] \in {"idle", "wake"}
  /\ parks \in 0..MaxParks
  /\ unparks \in [Others -> 0..MaxUnparks]
  /\ unseen \in BOOLEAN

Init ==
  /\ state = 0
  /\ asleep = {}
  /\ pc = [t \in Others \cup {Owner} |-> "idle"]
  /\ parks = MaxParks
  /\ unparks = [t \in Others |-> MaxUnparks]
  /\ unseen = FALSE

Goto(t, l) == pc' = [pc EXCEPT ![t] = l]

(* swap(0): take the token if there is one.                                *)
TakeToken == state' = 0

(* park and park_timeout: a waiting token returns at once.                 *)
Park ==
  /\ pc[Owner] = "idle" /\ parks > 0
  /\ parks' = parks - 1
  /\ TakeToken
  /\ \/ state = 1 /\ unseen' = FALSE /\ UNCHANGED pc
     \/ /\ state = 0 /\ UNCHANGED unseen
        /\ \E l \in {"wait", "timed", "endless"} : Goto(Owner, l)
  /\ UNCHANGED <<asleep, unparks>>

(* futex_wait(0) and futex_wait_timeout(0): go to sleep, ...               *)
Sleep ==
  /\ pc[Owner] \in {"wait", "timed", "endless"}
  /\ FutexSleeps(Owner, asleep, state, 0)
  /\ asleep' = {Owner}
  /\ UNCHANGED <<state, pc, parks, unparks, unseen>>

(* ... or find a token there.                                              *)
WaitReturns ==
  /\ pc[Owner] \in {"wait", "timed", "endless"}
  /\ FutexReturns(Owner, asleep, state, 0)
  /\ Goto(Owner, IF pc[Owner] = "wait" THEN "swap" ELSE "tswap")
  /\ UNCHANGED <<state, asleep, parks, unparks, unseen>>

(* A signal ends the syscall: futex_wait looks again, the single-shot      *)
(* futex_wait_timeout returns.                                             *)
Spurious ==
  /\ Owner \in asleep
  /\ asleep' = {}
  /\ IF pc[Owner] # "wait" THEN Goto(Owner, "tswap") ELSE UNCHANGED pc
  /\ UNCHANGED <<state, parks, unparks, unseen>>

(* The time is over; it may be over before the thread even sleeps, and     *)
(* never is where there is no timeout.                                     *)
Timeout ==
  /\ pc[Owner] = "timed"
  /\ asleep' = {}
  /\ Goto(Owner, "tswap")
  /\ UNCHANGED <<state, parks, unparks, unseen>>

(* park: swap(0) after futex_wait; without a token wait again.             *)
SwapToken ==
  /\ pc[Owner] = "swap"
  /\ TakeToken
  /\ IF state = 1
     THEN Goto(Owner, "idle") /\ unseen' = FALSE
     ELSE Goto(Owner, "wait") /\ UNCHANGED unseen
  /\ UNCHANGED <<asleep, parks, unparks>>

TimedKeepsToken ==
  /\ pc[Owner] = "tswap"
  /\ Goto(Owner, "idle")
  /\ unseen' = FALSE
  /\ UNCHANGED <<state, asleep, parks, unparks>>

(* park_timeout: swap(0) and return, token or not.                         *)
SwapTimed ==
  /\ pc[Owner] = "tswap"
  /\ TakeToken
  /\ Goto(Owner, "idle")
  /\ unseen' = FALSE
  /\ UNCHANGED <<asleep, parks, unparks>>

UnparkWakesIfSet(t) ==
  /\ pc[t] = "idle" /\ unparks[t] > 0
  /\ unparks' = [unparks EXCEPT ![t] = @ - 1]
  /\ state' = 1
  /\ unseen' = TRUE
  /\ Goto(t, IF state = 1 THEN "wake" ELSE "idle")
  /\ UNCHANGED <<asleep, parks>>

(* unpark: swap(1); only the first token needs a wakeup.                   *)
Unpark(t) ==
  /\ pc[t] = "idle" /\ unparks[t] > 0
  /\ unparks' = [unparks EXCEPT ![t] = @ - 1]
  /\ state' = 1
  /\ unseen' = TRUE
  /\ Goto(t, IF state = 0 THEN "wake" ELSE "idle")
  /\ UNCHANGED <<asleep, parks>>

(* unpark: futex_wake.  A timed sleeper that is woken does not look again. *)
UnparkWake(t) ==
  /\ pc[t] = "wake"
  /\ asleep' \in FutexWake(asleep)
  /\ pc' = [pc EXCEPT ![t] = "idle",
                      ![Owner] = IF Owner \in asleep /\ @ # "wait" THEN "tswap" ELSE @]
  /\ UNCHANGED <<state, parks, unparks, unseen>>

OwnerProceeds == Sleep \/ WaitReturns \/ SwapToken \/ SwapTimed \/ Timeout

Next ==
  \/ Park \/ OwnerProceeds \/ Spurious
  \/ \E t \in Others : Unpark(t) \/ UnparkWake(t)

(* The scheduler runs every runnable thread, and time passes.              *)
Spec ==
  /\ Init /\ [][Next]_vars
  /\ WF_vars(OwnerProceeds) /\ WF_vars(Timeout)
  /\ \A t \in Others : WF_vars(UnparkWake(t))

-----------------------------------------------------------------------------
(* There is a token exactly when unpark was called since the last return   *)
(* of park or park_timeout: park never returns unnotified ("Only returns   *)
(* once genuinely notified"), no unpark is lost, and no token outlives the *)
(* park_timeout that should have consumed it.                              *)
TokenIsUnseenUnpark == (state = 1) <=> unseen

(* A sleeping Owner has no token waiting, or its wakeup is on its way.     *)
NoLostWakeup ==
  Owner \in asleep => state = 0 \/ \E t \in Others : pc[t] = "wake"

(* Owner sleeps only inside the two waits.                                 *)
SleepsInWait == Owner \in asleep => pc[Owner] \in {"wait", "timed", "endless"}

(* park returns once there is a token, and park_timeout returns anyway,    *)
(* unless it waits without a timeout.                                      *)
MustReturn == pc[Owner] # "idle" /\ (state = 1 \/ pc[Owner] \in {"timed", "tswap"})
ParkReturns == MustReturn ~> ~MustReturn
=============================================================================
