----------------------------- MODULE LockProofs -----------------------------
(***************************************************************************)
(* RwLock: exclusion between readers and writers, the meaning of the state *)
(* word, and the absence of lost wakeups, for every finite set of users    *)
(* that the reader count can hold.  Mutex: mutual exclusion, the absence   *)
(* of lost wakeups, and the refinement of the abstract lock, for every set *)
(* of threads and every number of calls.                                   *)
(***************************************************************************)
EXTENDS RwLock, FiniteSetTheorems, TLAPS

CONSTANTS Contenders, Nobody, LockCalls    \* Threads, None, MaxCalls of Mutex

VARIABLES mState, mAsleep, mPc, mCalls     \* the variables of Mutex

M == INSTANCE Mutex WITH Threads <- Contenders, None <- Nobody, MaxCalls <- LockCalls,
                         state <- mState, asleep <- mAsleep, pc <- mPc, calls <- mCalls

ASSUME MutexConstants == M!MutexAssumption

(* The abstract lock: its owner is the thread with the guard, and the      *)
(* threads that want it are those inside raw_lock's loop.                  *)
Abstract == INSTANCE Lock WITH Threads <- Contenders, None <- Nobody,
                               owner <- M!Owner, want <- M!Wanting

-----------------------------------------------------------------------------
(* The reader count and the number of users, as numbers.                   *)
LEMMA ReadersFinite ==
  ASSUME NEW R \in SUBSET Threads
  PROVE  /\ IsFiniteSet(R)
         /\ Cardinality(R) \in Nat
         /\ Cardinality(R) < RW_WRITER
         /\ Cardinality(R) = 0 <=> R = {}
<1>1. IsFiniteSet(R) /\ Cardinality(R) <= Cardinality(Threads)
  BY RwAssumption, FS_Subset
<1>2. Cardinality(R) \in Nat /\ Cardinality(Threads) \in Nat
  BY <1>1, RwAssumption, FS_CardinalityType
<1>3. QED
  BY <1>1, <1>2, RwAssumption, FS_EmptySet

(* One more and one fewer reader.                                          *)
LEMMA CountStep ==
  ASSUME NEW R \in SUBSET Threads, NEW t \in Threads
  PROVE  /\ t \notin R => Cardinality(R \cup {t}) = Cardinality(R) + 1
         /\ t \in R => Cardinality(R \ {t}) = Cardinality(R) - 1
BY ReadersFinite, FS_AddElement, FS_RemoveElement

(* The initial state satisfies the inductive invariant.                    *)
LEMMA InitInv == Init => Inv
<1> SUFFICES ASSUME Init PROVE Inv
  OBVIOUS
<1>1. Readers = {} /\ Writers = {}
  BY DEF Init, Readers, Writers
<1>2. TypeOK
  BY RwAssumption, ReadersFinite DEF Init, TypeOK, PC, Word
<1>3. StateCounts
  BY <1>1, FS_EmptySet DEF Init, StateCounts
<1>4. QED
  BY <1>1, <1>2, <1>3 DEF Init, Inv, WriterExcludes, SleepersWait, LoadedMatches, NoLostWakeup

(* A step that neither gives nor takes a guard and leaves the word alone   *)
(* keeps exclusion and the count.                                          *)
LEMMA SameGuards ==
  ASSUME Inv, TypeOK', state' = state, Readers' = Readers, Writers' = Writers
  PROVE  WriterExcludes' /\ StateCounts'
BY DEF Inv, WriterExcludes, StateCounts

(* A new reader under a word with no writer bit.                           *)
LEMMA GainReader ==
  ASSUME Inv, NEW t \in Threads, pc[t] \in {"rcas", "tcas"},
         NoWriterBit(state), state' = state + 1, pc' = [pc EXCEPT ![t] = "reading"]
  PROVE  WriterExcludes' /\ StateCounts' /\ state' \in Word /\ state' # 0
<1>1. Readers' = Readers \cup {t} /\ Writers' = Writers /\ t \notin Readers
  BY DEF Readers, Writers, Inv, TypeOK
<1>2. Writers = {} /\ state = Cardinality(Readers)
  BY RwAssumption DEF Inv, StateCounts, NoWriterBit
<1>3. Readers \in SUBSET Threads /\ Readers' \in SUBSET Threads
  BY DEF Readers
<1>4. Cardinality(Readers') = state'
  BY <1>1, <1>2, <1>3, CountStep
<1>5. state' \in Word /\ state' # 0
  BY <1>2, <1>3, ReadersFinite, RwAssumption DEF Word, NoWriterBit
<1>6. QED
  BY <1>1, <1>2, <1>4, <1>5 DEF WriterExcludes, StateCounts

(* A new writer under a zero word.                                         *)
LEMMA GainWriter ==
  ASSUME Inv, NEW t \in Threads, pc[t] \in {"wcas", "idle"},
         state = 0, state' = RW_WRITER, pc' = [pc EXCEPT ![t] = "writing"]
  PROVE  WriterExcludes' /\ StateCounts' /\ state' \in Word /\ state' # 0
<1>1. Readers' = Readers /\ Writers' = Writers \cup {t}
  BY DEF Readers, Writers, Inv, TypeOK
<1>2. RW_WRITER # 0 /\ RW_WRITER \in Word
  BY ReadersFinite, RwAssumption DEF Word
<1>3. Writers = {} /\ Cardinality(Readers) = 0
  BY <1>2 DEF Inv, StateCounts
<1>4. Readers = {}
  BY <1>3, ReadersFinite DEF Readers
<1>5. QED
  BY <1>1, <1>2, <1>3, <1>4 DEF WriterExcludes, StateCounts

(* A dropped read guard.                                                   *)
LEMMA LoseReader ==
  ASSUME Inv, NEW t \in Threads, pc[t] = "reading",
         state' = state - 1,
         pc' = [pc EXCEPT ![t] = IF state = 1 THEN "wakeall" ELSE "idle"]
  PROVE  /\ WriterExcludes' /\ StateCounts' /\ state' \in Word
         /\ NoWriterBit(state) /\ state # 0 /\ (state' = 0 => Waking')
<1>1. Readers' = Readers \ {t} /\ Writers' = Writers /\ t \in Readers
  BY DEF Readers, Writers, Inv, TypeOK
<1>2. Writers = {} /\ state = Cardinality(Readers)
  BY <1>1 DEF Inv, StateCounts, WriterExcludes
<1>3. Readers \in SUBSET Threads /\ Readers' \in SUBSET Threads
  BY DEF Readers
<1>4. Cardinality(Readers') = state'
  BY <1>1, <1>2, <1>3, CountStep
<1>5. state' \in Word /\ NoWriterBit(state) /\ state # 0
  BY <1>1, <1>2, <1>3, <1>4, ReadersFinite, RwAssumption DEF Word, NoWriterBit
<1>6. state' = 0 => Waking'
  BY <1>5 DEF Waking, Inv, TypeOK, Word
<1>7. QED
  BY <1>1, <1>2, <1>4, <1>5, <1>6 DEF WriterExcludes, StateCounts

(* A dropped write guard.                                                  *)
LEMMA LoseWriter ==
  ASSUME Inv, NEW t \in Threads, pc[t] = "writing",
         state' = 0, pc' = [pc EXCEPT ![t] = "wakeall"]
  PROVE  WriterExcludes' /\ StateCounts' /\ state' \in Word /\ Waking'
<1>1. t \in Writers /\ Readers' = Readers /\ Writers' = Writers \ {t}
  BY DEF Readers, Writers, Inv, TypeOK
<1>2. Readers = {} /\ Writers = {t}
  BY <1>1 DEF Inv, WriterExcludes
<1>3. state' \in Word /\ Waking'
  BY ReadersFinite, RwAssumption DEF Word, Waking, Inv, TypeOK
<1>4. QED
  BY <1>1, <1>2, <1>3, FS_EmptySet DEF WriterExcludes, StateCounts

(* The word never exceeds RW_WRITER: a writer bit means exactly a writer.  *)
LEMMA WriterBit == Inv => (~NoWriterBit(state) => state = RW_WRITER)
BY ReadersFinite, RwAssumption DEF Inv, StateCounts, NoWriterBit, Readers

(* Every step of the lock's operations and of the kernel keeps the         *)
(* inductive invariant.                                                    *)
LEMMA StepInv == Inv /\ [Next]_vars => Inv'
<1> SUFFICES ASSUME Inv, [Next]_vars PROVE Inv'
  OBVIOUS
<1> USE RwAssumption DEF Goto, Load
<1>w. ~NoWriterBit(state) => state = RW_WRITER
  BY WriterBit
<1>1. ASSUME NEW t \in Threads,
             Start(t) \/ TryReadLoad(t) \/ ReadLoad(t) \/ WriteLoad(t) \/ ReadCasFailsSpuriously(t)
      PROVE  Inv'
  <2>1. TypeOK' /\ state' = state /\ asleep' = asleep
    BY <1>1 DEF Start, Call, TryReadLoad, ReadLoad, WriteLoad, ReadCasFailsSpuriously,
                Inv, TypeOK, PC
  <2>2. Readers' = Readers /\ Writers' = Writers
    BY <1>1 DEF Start, Call, TryReadLoad, ReadLoad, WriteLoad, ReadCasFailsSpuriously,
                Readers, Writers, Inv, TypeOK
  <2>3. LoadedMatches'
    BY <1>1 DEF Start, Call, TryReadLoad, ReadLoad, WriteLoad, ReadCasFailsSpuriously,
                LoadedMatches, NoWriterBit, Inv, TypeOK
  <2>4. SleepersWait' /\ NoLostWakeup'
    BY <1>1, <2>1 DEF Start, Call, TryReadLoad, ReadLoad, WriteLoad, ReadCasFailsSpuriously,
                SleepersWait, NoLostWakeup, Waking, Inv, TypeOK
  <2>5. QED
    BY <2>1, <2>2, <2>3, <2>4, SameGuards DEF Inv
<1>2. ASSUME NEW t \in Threads, ReadCas(t) \/ TryReadCas(t), state = s[t]
      PROVE  Inv'
  <2>1. /\ pc[t] \in {"rcas", "tcas"} /\ NoWriterBit(state)
        /\ state' = state + 1 /\ pc' = [pc EXCEPT ![t] = "reading"]
        /\ UNCHANGED <<asleep, s, calls>>
    BY <1>2 DEF ReadCas, TryReadCas, LoadedMatches, Inv
  <2>2. WriterExcludes' /\ StateCounts' /\ state' \in Word /\ state' # 0
    BY <2>1, GainReader
  <2>3. TypeOK' /\ LoadedMatches'
    BY <2>1, <2>2 DEF TypeOK, PC, LoadedMatches, NoWriterBit, Inv
  <2>4. SleepersWait' /\ NoLostWakeup'
    BY <2>1, <2>2 DEF SleepersWait, NoLostWakeup, NoWriterBit, Waking, Inv, TypeOK
  <2>5. QED
    BY <2>2, <2>3, <2>4 DEF Inv
<1>3. ASSUME NEW t \in Threads,
             \/ (ReadCas(t) \/ TryReadCas(t)) /\ state # s[t]
             \/ (WriteCas(t) \/ TryWrite(t)) /\ state # 0
             \/ WaitReturns(t)
      PROVE  Inv'
  <2>1. TypeOK' /\ UNCHANGED <<state, asleep, s>>
    BY <1>3 DEF ReadCas, TryReadCas, WriteCas, TryWrite, Call, WaitReturns, Inv, TypeOK, PC
  <2>2. Readers' = Readers /\ Writers' = Writers
    BY <1>3 DEF ReadCas, TryReadCas, WriteCas, TryWrite, Call, WaitReturns,
                Readers, Writers, Inv, TypeOK
  <2>3. LoadedMatches'
    BY <1>3 DEF ReadCas, TryReadCas, WriteCas, TryWrite, Call, WaitReturns,
                LoadedMatches, NoWriterBit, Inv, TypeOK
  <2>4. SleepersWait' /\ NoLostWakeup'
    BY <1>3, <2>1 DEF ReadCas, TryReadCas, WriteCas, TryWrite, Call, WaitReturns, FutexReturns,
                SleepersWait, NoLostWakeup, Waking, Inv, TypeOK
  <2>5. QED
    BY <2>1, <2>2, <2>3, <2>4, SameGuards DEF Inv
<1>4. ASSUME NEW t \in Threads, WriteCas(t) \/ TryWrite(t), state = 0
      PROVE  Inv'
  <2>1. /\ pc[t] \in {"wcas", "idle"} /\ state' = RW_WRITER
        /\ pc' = [pc EXCEPT ![t] = "writing"] /\ UNCHANGED <<asleep, s>>
        /\ calls' \in [Threads -> 0..MaxCalls]
    BY <1>4 DEF WriteCas, TryWrite, Call, Inv, TypeOK
  <2>2. WriterExcludes' /\ StateCounts' /\ state' \in Word /\ state' # 0
    BY <1>4, <2>1, GainWriter
  <2>3. TypeOK' /\ LoadedMatches'
    BY <2>1, <2>2 DEF TypeOK, PC, LoadedMatches, NoWriterBit, Inv
  <2>4. SleepersWait' /\ NoLostWakeup'
    BY <2>1, <2>2 DEF SleepersWait, NoLostWakeup, Waking, Inv, TypeOK
  <2>5. QED
    BY <2>2, <2>3, <2>4 DEF Inv
<1>5. ASSUME NEW t \in Threads, DropRead(t) PROVE Inv'
  <2>1. /\ pc[t] = "reading" /\ state' = state - 1 /\ UNCHANGED <<asleep, s, calls>>
        /\ pc' = [pc EXCEPT ![t] = IF state = 1 THEN "wakeall" ELSE "idle"]
    BY <1>5 DEF DropRead
  <2>2. /\ WriterExcludes' /\ StateCounts' /\ state' \in Word
        /\ NoWriterBit(state) /\ state # 0 /\ (state' = 0 => Waking')
    BY <2>1, LoseReader
  <2>3. TypeOK' /\ LoadedMatches'
    BY <2>1, <2>2 DEF TypeOK, PC, LoadedMatches, NoWriterBit, Inv
  <2>4. SleepersWait' /\ NoLostWakeup'
    BY <2>1, <2>2 DEF SleepersWait, NoLostWakeup, NoWriterBit, Waking, Inv, TypeOK
  <2>5. QED
    BY <2>2, <2>3, <2>4 DEF Inv
<1>6. ASSUME NEW t \in Threads, DropWrite(t) PROVE Inv'
  <2>1. WriterExcludes' /\ StateCounts' /\ state' \in Word /\ Waking'
    BY <1>6, LoseWriter DEF DropWrite
  <2>2. TypeOK' /\ LoadedMatches' /\ SleepersWait'
    BY <1>6, <2>1 DEF DropWrite, TypeOK, PC, LoadedMatches, NoWriterBit, SleepersWait, Inv
  <2>3. QED
    BY <2>1, <2>2 DEF NoLostWakeup, Inv
<1>7. ASSUME NEW t \in Threads, Sleep(t) \/ Spurious(t) \/ WakeAll(t) PROVE Inv'
  <2>1. TypeOK' /\ UNCHANGED <<state, s>>
    BY <1>7 DEF Sleep, Spurious, WakeAll, FutexWakeAll, Inv, TypeOK, PC
  <2>2. Readers' = Readers /\ Writers' = Writers
    BY <1>7 DEF Sleep, Spurious, WakeAll, Readers, Writers, Inv, TypeOK
  <2>3. LoadedMatches' /\ SleepersWait'
    BY <1>7 DEF Sleep, Spurious, WakeAll, FutexWakeAll,
                LoadedMatches, SleepersWait, NoWriterBit, Inv, TypeOK
  <2>4. NoLostWakeup'
    BY <1>7, <1>w DEF Sleep, FutexSleeps, Spurious, WakeAll, FutexWakeAll,
                LoadedMatches, NoLostWakeup, Waking, Inv, TypeOK
  <2>5. QED
    BY <2>1, <2>2, <2>3, <2>4, SameGuards DEF Inv
<1>8. CASE UNCHANGED vars
  BY <1>8 DEF vars, Inv, TypeOK, WriterExcludes, StateCounts, SleepersWait, LoadedMatches,
              NoLostWakeup, Waking, Readers, Writers
<1>9. QED
  BY <1>1, <1>2, <1>3, <1>4, <1>5, <1>6, <1>7, <1>8 DEF Next, Proceed

(* The inductive invariant holds throughout.                               *)
THEOREM Invariance == SafetySpec => []Inv
BY InitInv, StepInv, PTL DEF SafetySpec

(* A write guard excludes every other guard, for every number of users the *)
(* 31-bit reader count can hold.                                           *)
THEOREM RwLockExclusion == SafetySpec => []WriterExcludes
<1>1. Inv => WriterExcludes
  BY DEF Inv
<1>2. QED
  BY <1>1, Invariance, PTL

(* The word always equals the number of read guards, or RW_WRITER.         *)
THEOREM RwLockStateCounts == SafetySpec => []StateCounts
<1>1. Inv => StateCounts
  BY DEF Inv
<1>2. QED
  BY <1>1, Invariance, PTL

(* No reader and no writer is left asleep without somebody to wake it.     *)
THEOREM RwLockNoLostWakeup == SafetySpec => []NoLostWakeup
<1>1. Inv => NoLostWakeup
  BY DEF Inv
<1>2. QED
  BY <1>1, Invariance, PTL

-----------------------------------------------------------------------------
(* Mutex: at most one thread has a guard.                                  *)
MutualExclusion == M!MutualExclusion

(* Mutex: no sleeper is left without somebody to wake it.                  *)
MutexWakes == M!NoLostWakeup

(* The futex mutex implements the abstract lock, its fairness included.    *)
ImplementsLock == Abstract!LockSpec

(* The initial state satisfies the inductive invariant.                    *)
LEMMA MutexInit == M!Init => M!Inv
BY MutexConstants
   DEF M!MutexAssumption, M!Init, M!Inv, M!TypeOK, M!PC, M!MutualExclusion, M!StateMatches,
       M!SleepersWait, M!NoLostWakeup

(* Every step of raw_lock, try_lock, raw_unlock and the kernel keeps the   *)
(* types.                                                                  *)
LEMMA MutexTypes == M!TypeOK /\ [M!Next]_(M!vars) => M!TypeOK'
<1> SUFFICES ASSUME M!TypeOK, [M!Next]_(M!vars) PROVE M!TypeOK'
  OBVIOUS
<1> USE MutexConstants DEF M!MutexAssumption, M!TypeOK, M!PC
<1>1. ASSUME NEW t \in Contenders, M!Call(t)
      PROVE  mCalls' \in [Contenders -> 0..LockCalls]
  BY <1>1 DEF M!Call
<1>2. ASSUME NEW t \in Contenders, M!CasSucceeds(t) \/ M!CasFails(t) \/ M!TryLockFails(t)
      PROVE  M!TypeOK'
  BY <1>1, <1>2 DEF M!CasSucceeds, M!CasFails, M!TryLockFails
<1>3. ASSUME NEW t \in Contenders, M!Swap(t) \/ M!Unlock(t)
      PROVE  M!TypeOK'
  BY <1>3 DEF M!Swap, M!Unlock
<1>4. ASSUME NEW t \in Contenders, M!Sleep(t) \/ M!WaitReturns(t) \/ M!Spurious(t) \/ M!Wake(t)
      PROVE  M!TypeOK'
  BY <1>4 DEF M!Sleep, M!WaitReturns, M!Spurious, M!Wake, M!FutexWake
<1>5. CASE UNCHANGED M!vars
  BY <1>5 DEF M!vars
<1>6. QED
  BY <1>2, <1>3, <1>4, <1>5 DEF M!Next, M!Proceed

(* Every step keeps the inductive invariant.                               *)
LEMMA MutexStep == M!Inv /\ [M!Next]_(M!vars) => M!Inv'
<1> SUFFICES ASSUME M!Inv, [M!Next]_(M!vars) PROVE M!Inv'
  OBVIOUS
<1>0. M!TypeOK'
  BY MutexTypes DEF M!Inv
<1> USE <1>0 DEF M!Inv, M!TypeOK, M!PC, M!MutualExclusion, M!StateMatches, M!SleepersWait,
                 M!NoLostWakeup
<1>1. ASSUME NEW t \in Contenders, M!CasSucceeds(t) PROVE M!Inv'
  BY <1>1 DEF M!CasSucceeds, M!Call
<1>2. ASSUME NEW t \in Contenders, M!CasFails(t) \/ M!TryLockFails(t) PROVE M!Inv'
  BY <1>2 DEF M!CasFails, M!TryLockFails, M!Call
<1>3. ASSUME NEW t \in Contenders, M!Swap(t) PROVE M!Inv'
  BY <1>3 DEF M!Swap
<1>4. ASSUME NEW t \in Contenders, M!Sleep(t) PROVE M!Inv'
  BY <1>4 DEF M!Sleep, M!FutexSleeps
<1>5. ASSUME NEW t \in Contenders, M!WaitReturns(t) PROVE M!Inv'
  BY <1>5 DEF M!WaitReturns, M!FutexReturns
<1>6. ASSUME NEW t \in Contenders, M!Spurious(t) PROVE M!Inv'
  BY <1>6 DEF M!Spurious
<1>7. ASSUME NEW t \in Contenders, M!Unlock(t) PROVE M!Inv'
  BY <1>7 DEF M!Unlock
<1>8. ASSUME NEW t \in Contenders, M!Wake(t) PROVE M!Inv'
  <2>1. CASE mAsleep = {}
    BY <1>8, <2>1 DEF M!Wake, M!FutexWake
  <2>2. CASE mAsleep # {}
    <3>1. PICK u \in mAsleep : mAsleep' = mAsleep \ {u}
      BY <1>8, <2>2 DEF M!Wake, M!FutexWake
    <3>2. u \in Contenders \ mAsleep' /\ u # t /\ mPc'[u] = "wait"
      BY <1>8, <3>1 DEF M!Wake
    <3>3. QED
      BY <1>8, <3>1, <3>2 DEF M!Wake
  <2>3. QED
    BY <2>1, <2>2
<1>9. CASE UNCHANGED M!vars
  BY <1>9 DEF M!vars
<1>10. QED
  BY <1>1, <1>2, <1>3, <1>4, <1>5, <1>6, <1>7, <1>8, <1>9 DEF M!Next, M!Proceed

(* The inductive invariant holds throughout.                               *)
THEOREM MutexInvariance == M!SafetySpec => []M!Inv
BY MutexInit, MutexStep, PTL DEF M!SafetySpec

(* At most one thread ever has a guard of the mutex, however many threads  *)
(* call lock and try_lock and in whatever order their steps interleave.    *)
THEOREM MutexExclusion == M!SafetySpec => []MutualExclusion
<1>1. M!Inv => MutualExclusion
  BY DEF M!Inv, MutualExclusion
<1>2. QED
  BY <1>1, MutexInvariance, PTL

(* raw_unlock and raw_lock never leave a sleeper that nobody will wake.    *)
THEOREM MutexNoLostWakeup == M!SafetySpec => []MutexWakes
<1>1. M!Inv => MutexWakes
  BY DEF M!Inv, MutexWakes
<1>2. QED
  BY <1>1, MutexInvariance, PTL

-----------------------------------------------------------------------------
(* The refinement mapping's owner is the one thread with a guard, if any.  *)
LEMMA OwnerIsHolder ==
  M!Inv => /\ \A t \in Contenders : mPc[t] = "held" => M!Owner = t
           /\ mState = 0 => M!Owner = Nobody
BY DEF M!Inv, M!MutualExclusion, M!StateMatches, M!Owner

(* Each step of the mutex is a step of the abstract lock, or changes       *)
(* neither its owner nor the threads that want it.                         *)
LEMMA StepRefines == M!Inv /\ M!Inv' /\ [M!Next]_(M!vars) => [Abstract!LockNext]_(Abstract!lockVars)
<1> SUFFICES ASSUME M!Inv, M!Inv', [M!Next]_(M!vars)
             PROVE  [Abstract!LockNext]_(Abstract!lockVars)
  OBVIOUS
<1> USE DEF Abstract!LockNext, Abstract!lockVars
<1>0. /\ \A t \in Contenders : mPc[t] = "held" => M!Owner = t
      /\ mState = 0 => M!Owner = Nobody
      /\ \A t \in Contenders : mPc'[t] = "held" => M!Owner' = t
      /\ mState' = 0 => M!Owner' = Nobody
  <2>1. (\A t \in Contenders : mPc[t] = "held" => M!Owner = t) /\ (mState = 0 => M!Owner = Nobody)
    BY OwnerIsHolder
  <2>2. /\ \A t \in Contenders : mPc'[t] = "held" => M!Owner' = t
        /\ mState' = 0 => M!Owner' = Nobody
    BY DEF M!Inv, M!MutualExclusion, M!StateMatches, M!Owner
  <2>3. QED
    BY <2>1, <2>2
<1>1. M!Owner' = M!Owner
      \/ \E t \in Contenders : (mPc[t] = "held") # (mPc'[t] = "held")
  BY DEF M!Owner, M!Inv, M!TypeOK
<1>2. ASSUME NEW t \in Contenders, M!CasSucceeds(t) PROVE Abstract!Barge(t)
  BY <1>0, <1>2 DEF M!CasSucceeds, M!Call, Abstract!Barge, M!Wanting, M!Inv, M!TypeOK
<1>3. ASSUME NEW t \in Contenders, M!CasFails(t) PROVE Abstract!Request(t)
  <2>1. M!Owner' = M!Owner
    BY <1>1, <1>3 DEF M!CasFails, M!Call, M!Inv, M!TypeOK
  <2>2. t # M!Owner
    BY <1>3, MutexConstants DEF M!MutexAssumption, M!CasFails, M!Call, M!Owner, M!Inv
  <2>3. QED
    BY <1>3, <2>1, <2>2 DEF M!CasFails, M!Call, Abstract!Request, M!Wanting, M!Inv, M!TypeOK
<1>4. ASSUME NEW t \in Contenders, M!Swap(t), mState = 0 PROVE Abstract!Acquire(t)
  BY <1>0, <1>4 DEF M!Swap, Abstract!Acquire, M!Wanting, M!Inv, M!TypeOK
<1>5. ASSUME NEW t \in Contenders, M!Unlock(t) PROVE Abstract!Release(t)
  BY <1>0, <1>5 DEF M!Unlock, Abstract!Release, M!Wanting, M!Inv, M!TypeOK
<1>6. ASSUME NEW t \in Contenders,
             \/ M!TryLockFails(t) \/ M!Sleep(t) \/ M!WaitReturns(t)
             \/ M!Spurious(t) \/ M!Wake(t) \/ (M!Swap(t) /\ mState # 0)
      PROVE  UNCHANGED <<M!Owner, M!Wanting>>
  <2>1. M!Wanting' = M!Wanting
    BY <1>6 DEF M!TryLockFails, M!Sleep, M!WaitReturns, M!Spurious, M!Wake, M!Swap,
                M!Wanting, M!Inv, M!TypeOK
  <2>2. M!Owner' = M!Owner
    BY <1>1, <1>6 DEF M!TryLockFails, M!Sleep, M!WaitReturns, M!Spurious, M!Wake, M!Swap,
                      M!Inv, M!TypeOK
  <2>3. QED
    BY <2>1, <2>2
<1>7. CASE UNCHANGED M!vars
  BY <1>7 DEF M!vars, M!Owner, M!Wanting
<1>8. QED
  BY <1>2, <1>3, <1>4, <1>5, <1>6, <1>7 DEF M!Next, M!Proceed

(* The futex mutex implements the abstract lock: in particular a lock is   *)
(* only ever taken when free and only ever freed by its owner.             *)
THEOREM MutexImplementsLock == M!SafetySpec => Abstract!LockSafety
<1>1. M!Init => Abstract!LockInit
  BY DEF M!Init, Abstract!LockInit, M!Owner, M!Wanting
<1>2. QED
  BY <1>1, StepRefines, MutexInvariance, PTL DEF M!SafetySpec, Abstract!LockSafety
=============================================================================
