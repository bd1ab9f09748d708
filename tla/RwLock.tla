------------------------------- MODULE RwLock -------------------------------
(***************************************************************************)
(* sync::RwLock: readers and writers on one futex word, one action per     *)
(* atomic step.  A thread of the model stands for one guard: a program     *)
(* thread that holds several read guards is several of them.               *)
(***************************************************************************)
EXTENDS Naturals, FiniteSets, Futex

CONSTANTS Threads,     \* the lock's users
          RW_WRITER,   \* the writer bit of the word (1 << 31)
          MaxCalls     \* bound: how many calls each thread makes

(* Fewer users than the 31 bits that count readers can count.              *)
ASSUME RwAssumption ==
  /\ IsFiniteSet(Threads)
  /\ RW_WRITER \in Nat
  /\ Cardinality(Threads) < RW_WRITER
  /\ MaxCalls \in Nat

VARIABLES state,       \* RwLock::state: the number of readers, or RW_WRITER
          asleep,      \* the threads asleep in the kernel on `state`
          pc,          \* where each thread is
          s,           \* each call's local `s`, the last value it loaded
          calls        \* calls each thread may still make

vars == <<state, asleep, pc, s, calls>>

(* rload, rcas, rwait: the load, CAS and futex_wait of read;  tcas: the CAS *)
(* of try_read;  wcas, wload, wwait: those of write;  wakeall: in a drop,   *)
(* about to futex_wake_all.                                                 *)
PC == {"idle", "rload", "rcas", "rwait", "tcas", "wcas", "wload", "wwait",
       "reading", "writing", "wakeall"}

Word == 0 .. 2 * RW_WRITER - 1

(* The types, and with them that fetch_sub never takes the word below 0:   *)
(* DropRead subtracts without wrapping.                                    *)
TypeOK ==
  /\ state \in Word
  /\ asleep \subseteq Threads
  /\ pc \in [Threads -> PC]
  /\ s \in [Threads -> Word]
  /\ calls \in [Threads -> 0..MaxCalls]

Init ==
  /\ state = 0
  /\ asleep = {}
  /\ pc = [t \in Threads |-> "idle"]
  /\ s = [t \in Threads |-> 0]
  /\ calls = [t \in Threads |-> MaxCalls]

(* `s & RW_WRITER == 0`                                                    *)
NoWriterBit(w) == w < RW_WRITER

Goto(t, l) == pc' = [pc EXCEPT ![t] = l]

Load(t) == s' = [s EXCEPT ![t] = state]

Call(t) ==
  /\ pc[t] = "idle" /\ calls[t] > 0
  /\ calls' = [calls EXCEPT ![t] = @ - 1]

(* read() and write() are called: on to their loops.                       *)
Start(t) ==
  /\ Call(t)
  /\ Goto(t, "rload") \/ Goto(t, "wcas")
  /\ UNCHANGED <<state, asleep, s>>

(* read: load the word; a writer bit means sleep, otherwise try to count   *)
(* ourselves in.                                                           *)
ReadLoad(t) ==
  /\ pc[t] = "rload"
  /\ Load(t)
  /\ Goto(t, IF NoWriterBit(state) THEN "rcas" ELSE "rwait")
  /\ UNCHANGED <<state, asleep, calls>>

ReadStoresCount(t) ==
  /\ pc[t] = "rcas"
  /\ state' = s[t] + 1
  /\ Goto(t, "reading")
  /\ UNCHANGED <<asleep, s, calls>>

(* read: compare_exchange_weak(s, s + 1); a lost race starts over.         *)
ReadCas(t) ==
  /\ pc[t] = "rcas"
  /\ \/ /\ state = s[t]
        /\ state' = s[t] + 1
        /\ Goto(t, "reading")
     \/ /\ state # s[t]
        /\ Goto(t, "rload")
        /\ UNCHANGED state
  /\ UNCHANGED <<asleep, s, calls>>

(* compare_exchange_weak may fail although the word is as expected.        *)
ReadCasFailsSpuriously(t) ==
  /\ pc[t] = "rcas"
  /\ Goto(t, "rload")
  /\ UNCHANGED <<state, asleep, s, calls>>

(* try_read: load; a writer bit means None.                                *)
TryReadLoad(t) ==
  /\ Call(t)
  /\ IF NoWriterBit(state)
     THEN Load(t) /\ Goto(t, "tcas")
     ELSE UNCHANGED <<s, pc>>
  /\ UNCHANGED <<state, asleep>>

(* try_read: one compare_exchange; a lost race means None.                 *)
TryReadCas(t) ==
  /\ pc[t] = "tcas"
  /\ \/ /\ state = s[t]
        /\ state' = s[t] + 1
        /\ Goto(t, "reading")
     \/ /\ state # s[t]
        /\ Goto(t, "idle")
        /\ UNCHANGED state
  /\ UNCHANGED <<asleep, s, calls>>

WriteCasIgnoresReaders(t) ==
  /\ pc[t] = "wcas"
  /\ \/ /\ NoWriterBit(state)
        /\ state' = RW_WRITER
        /\ Goto(t, "writing")
     \/ /\ ~NoWriterBit(state)
        /\ Goto(t, "wload")
        /\ UNCHANGED state
  /\ UNCHANGED <<asleep, s, calls>>

(* write: compare_exchange(0, RW_WRITER).                                  *)
WriteCas(t) ==
  /\ pc[t] = "wcas"
  /\ \/ /\ state = 0
        /\ state' = RW_WRITER
        /\ Goto(t, "writing")
     \/ /\ state # 0
        /\ Goto(t, "wload")
        /\ UNCHANGED state
  /\ UNCHANGED <<asleep, s, calls>>

(* write: the CAS failed; load again, sleep unless it is free by now.      *)
WriteLoad(t) ==
  /\ pc[t] = "wload"
  /\ Load(t)
  /\ Goto(t, IF state # 0 THEN "wwait" ELSE "wcas")
  /\ UNCHANGED <<state, asleep, calls>>

(* try_write: one compare_exchange(0, RW_WRITER).                          *)
TryWrite(t) ==
  /\ Call(t)
  /\ \/ /\ state = 0
        /\ state' = RW_WRITER
        /\ Goto(t, "writing")
     \/ /\ state # 0
        /\ UNCHANGED <<state, pc>>
  /\ UNCHANGED <<asleep, s>>

(* futex_wait(s) in read or write: the kernel puts the thread to sleep.    *)
Sleep(t) ==
  /\ pc[t] \in {"rwait", "wwait"}
  /\ FutexSleeps(t, asleep, state, s[t])
  /\ asleep' = asleep \cup {t}
  /\ UNCHANGED <<state, pc, s, calls>>

(* futex_wait(s) returns: around the loop of read or write again.          *)
WaitReturns(t) ==
  /\ pc[t] \in {"rwait", "wwait"}
  /\ FutexReturns(t, asleep, state, s[t])
  /\ Goto(t, IF pc[t] = "rwait" THEN "rload" ELSE "wcas")
  /\ UNCHANGED <<state, asleep, s, calls>>

(* A signal ends the syscall early: back to the head of futex_wait's loop. *)
Spurious(t) ==
  /\ t \in asleep
  /\ asleep' = asleep \ {t}
  /\ UNCHANGED <<state, pc, s, calls>>

LastReaderSkipsWake(t) ==
  /\ pc[t] = "reading"
  /\ state' = state - 1
  /\ Goto(t, "idle")
  /\ UNCHANGED <<asleep, s, calls>>

(* RwLockReadGuard::drop: fetch_sub(1); the last reader wakes everybody.   *)
DropRead(t) ==
  /\ pc[t] = "reading"
  /\ state' = state - 1
  /\ Goto(t, IF state = 1 THEN "wakeall" ELSE "idle")
  /\ UNCHANGED <<asleep, s, calls>>

(* RwLockWriteGuard::drop: store(0), then wake everybody.                  *)
DropWrite(t) ==
  /\ pc[t] = "writing"
  /\ state' = 0
  /\ Goto(t, "wakeall")
  /\ UNCHANGED <<asleep, s, calls>>

WakeOne(t) ==
  /\ pc[t] = "wakeall"
  /\ asleep' \in FutexWake(asleep)
  /\ Goto(t, "idle")
  /\ UNCHANGED <<state, s, calls>>

(* Either drop: futex_wake_all(state).                                     *)
WakeAll(t) ==
  /\ pc[t] = "wakeall"
  /\ asleep' = FutexWakeAll(asleep)
  /\ Goto(t, "idle")
  /\ UNCHANGED <<state, s, calls>>

(* Steps a running thread takes by itself.                                 *)
Proceed(t) ==
  \/ ReadLoad(t) \/ ReadCas(t) \/ TryReadCas(t) \/ WriteCas(t) \/ WriteLoad(t)
  \/ Sleep(t) \/ WaitReturns(t) \/ DropRead(t) \/ DropWrite(t) \/ WakeAll(t)

Next ==
  \E t \in Threads :
    \/ Start(t) \/ TryReadLoad(t) \/ TryWrite(t)
    \/ Proceed(t) \/ ReadCasFailsSpuriously(t) \/ Spurious(t)

SafetySpec == Init /\ [][Next]_vars

(* The scheduler runs every runnable thread, guards are dropped some day,  *)
(* and compare_exchange_weak does not fail spuriously for ever.            *)
Spec ==
  /\ SafetySpec
  /\ \A t \in Threads : WF_vars(Proceed(t)) /\ SF_vars(ReadCas(t))

-----------------------------------------------------------------------------
Readers == {t \in Threads : pc[t] = "reading"}
Writers == {t \in Threads : pc[t] = "writing"}
Waking == \E t \in Threads : pc[t] = "wakeall"

(* A write guard excludes every other guard: DerefMut of RwLockWriteGuard  *)
(* is the only access to `data`.                                           *)
WriterExcludes ==
  \A t \in Writers : Writers = {t} /\ Readers = {}

(* The word is the number of read guards, or RW_WRITER under a writer.     *)
StateCounts ==
  state = IF Writers # {} THEN RW_WRITER ELSE Cardinality(Readers)

(* No wakeup is lost, although a sleeper may sleep on a count the word no  *)
(* longer has.  A sleeping reader has a writer ahead of it, a sleeping     *)
(* writer has some guard ahead of it, or a futex_wake_all is on its way.   *)
NoLostWakeup ==
  \A t \in asleep :
    \/ Waking
    \/ pc[t] = "rwait" /\ state = RW_WRITER
    \/ pc[t] = "wwait" /\ state # 0

(* Only a thread inside futex_wait is on the kernel's queue.               *)
SleepersWait == \A t \in asleep : pc[t] \in {"rwait", "wwait"}

(* What a call remembers of the word it loaded: a CAS expects no writer, a *)
(* waiting reader saw one, and a waiting writer saw somebody.              *)
LoadedMatches ==
  \A t \in Threads :
    /\ pc[t] \in {"rcas", "tcas"} => NoWriterBit(s[t])
    /\ pc[t] = "rwait" => ~NoWriterBit(s[t])
    /\ pc[t] = "wwait" => s[t] # 0

(* The inductive invariant behind the theorems of LockProofs.              *)
Inv ==
  /\ TypeOK
  /\ WriterExcludes
  /\ StateCounts
  /\ SleepersWait
  /\ LoadedMatches
  /\ NoLostWakeup

(* The threads inside the loops of read() and of write().                  *)
Blocked(t) == pc[t] \in {"rload", "rcas", "rwait", "wcas", "wload", "wwait"}
=============================================================================
