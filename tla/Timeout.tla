------------------------------ MODULE Timeout ------------------------------
(***************************************************************************)
(* Blocking calls with a Duration, and what the backends make of it:       *)
(* sys_thread::futex_wait_timeout (for park_timeout), sleep, and a receive *)
(* under set_read_timeout.  Time is counted in nanoseconds from the call   *)
(* on; a second has SEC of them, a microsecond US.                         *)
(***************************************************************************)
EXTENDS Naturals

CONSTANTS Targets,    \* "macos", "linux", "linux32"
          SEC, US,
          MAX,        \* u32::MAX, the microseconds of one __ulock_wait
          WORD,       \* 2^32; the seconds of a Duration have two words
          Never       \* no deadline

TimeoutAssumption ==
  /\ Targets \subseteq {"macos", "linux", "linux32"}
  /\ US \in Nat \ {0} /\ SEC \in {k * US : k \in 1..SEC}
  /\ MAX \in Nat \ {0} /\ WORD \in {2 * k : k \in 1..WORD} /\ Never \notin Nat

Calls == {"futex_wait_timeout", "sleep", "recv"}

VARIABLES target, call,   \* the backend, and the call
          secs, nanos,    \* its Duration
          now,
          pc,
          alarm,          \* when the kernel ends the wait
          left,           \* microseconds the loop of macOS's sleep has left
          early           \* a wake-up, data or a signal came before that

vars == <<target, call, secs, nanos, now, pc, alarm, left, early>>
input == <<target, call, secs, nanos>>

Seconds == 0 .. WORD * WORD - 1
Dur == secs * SEC + nanos
Micros == Dur \div US

TypeOK ==
  /\ target \in Targets /\ call \in Calls
  /\ secs \in Seconds /\ nanos \in 0..SEC - 1
  /\ now \in Nat /\ pc \in {"start", "blocked", "done"}
  /\ alarm \in Nat \cup {Never} /\ left \in 0..Micros /\ early \in BOOLEAN

Init ==
  /\ target \in Targets /\ call \in Calls
  /\ secs \in Seconds /\ nanos \in 0..SEC - 1
  /\ now = 0 /\ pc = "start" /\ alarm = Never /\ early = FALSE
  /\ left = Micros

Chunk(us) == IF us < MAX THEN us ELSE MAX
Block(until) == alarm' = until /\ pc' = "blocked" /\ UNCHANGED <<input, now, left, early>>
Return == pc' = "done" /\ UNCHANGED <<input, now, alarm, left, early>>

(* futex_wait_timeout on macOS; __ulock_wait takes 0 for no timeout.       *)
UlockWait ==
  /\ pc = "start" /\ call = "futex_wait_timeout" /\ target = "macos"
  /\ Block(IF Chunk(Micros) = 0 THEN Never ELSE now + Chunk(Micros) * US)

(* sleep on macOS: a wait for each part that fits.                         *)
UlockSleep ==
  /\ pc = "start" /\ call = "sleep" /\ target = "macos"
  /\ IF left = 0 THEN Return ELSE Block(now + Chunk(left) * US)

(* The timespec of futex_wait_timeout and sleep on Linux, as the kernel    *)
(* reads it: with 32-bit Linux's calls its two fields are the two words of *)
(* the seconds.                                                            *)
SpecSecs == IF target = "linux32" THEN secs % WORD ELSE secs
SpecNanos == IF target = "linux32" THEN secs \div WORD ELSE nanos
Negative(s) == s >= (IF target = "linux32" THEN WORD ELSE WORD * WORD) \div 2

(* Both calls on Linux; the kernel refuses a timespec that is negative or  *)
(* has more nanoseconds than a second.                                     *)
Timespec ==
  /\ pc = "start" /\ call # "recv" /\ target # "macos"
  /\ IF Negative(SpecSecs) \/ SpecNanos >= SEC THEN Return
     ELSE Block(now + SpecSecs * SEC + SpecNanos)

(* set_read_timeout, encode_timeval, then the receive: whole microseconds, *)
(* and as many seconds as the field holds; the kernel does not wait at all *)
(* for negative ones, and takes 0 for no timeout.                          *)
Timeval ==
  /\ pc = "start" /\ call = "recv"
  /\ LET us == SpecSecs * (SEC \div US) + nanos \div US
     IN  IF Negative(SpecSecs) THEN Return
         ELSE Block(IF us = 0 THEN Never ELSE now + us * US)

SleepForgetsRest ==
  /\ pc = "blocked" /\ early' \in {early, TRUE} /\ (early' \/ now = alarm)
  /\ pc' = "done"
  /\ UNCHANGED <<input, now, alarm, left>>

(* The kernel returns: the time is over, or something came first.  On      *)
(* macOS sleep goes on with what is left.                                  *)
Unblock ==
  /\ pc = "blocked" /\ early' \in {early, TRUE} /\ (early' \/ now = alarm)
  /\ IF call = "sleep" /\ target = "macos"
     THEN left' = left - Chunk(left) /\ pc' = "start"
     ELSE pc' = "done" /\ UNCHANGED left
  /\ UNCHANGED <<input, now, alarm>>

(* Time passes; no deadline is missed.                                     *)
Tick ==
  /\ pc = "blocked" /\ now # alarm /\ now <= Dur
  /\ now' = now + 1
  /\ UNCHANGED <<input, pc, alarm, left, early>>

Next == UlockWait \/ UlockSleep \/ Timespec \/ Timeval \/ Unblock \/ Tick

Spec == Init /\ [][Next]_vars

-----------------------------------------------------------------------------
(* The waits that get no timeout at all: park_timeout of less than a       *)
(* microsecond on macOS, and a receive whose timeval comes out as 0.       *)
Untimed ==
  \/ call = "futex_wait_timeout" /\ target = "macos" /\ Dur < US
  \/ call = "recv" /\ SpecSecs = 0 /\ nanos < US

(* A wait or a receive is over when its timeout is, unless it is Untimed:  *)
(* then only a wake-up, data or a signal ends it.  An undisturbed sleep    *)
(* lasts what it was asked to on Linux, where 2^63 seconds or more are     *)
(* taken for none; on macOS the whole microseconds of it, however many     *)
(* waits that takes; on 32-bit Linux it is no longer than asked.  Of both  *)
(* thread.rs promises more: that park_timeout "returns after at most       *)
(* `dur`", which the Untimed one does not, and SleepsAtLeast.              *)
TimeoutsKept ==
  /\ pc = "blocked" /\ call # "sleep" => IF Untimed THEN alarm = Never ELSE now <= Dur
  /\ pc = "done" /\ call = "sleep" /\ ~early =>
       /\ target = "macos" => now = Micros * US
       /\ target = "linux" => now = IF Negative(secs) THEN 0 ELSE Dur
       /\ target = "linux32" => now <= Dur

(* "Put the current thread to sleep for at least `dur`" (the comment of    *)
(* thread::sleep): an undisturbed sleep, of no extraordinary length, has   *)
(* lasted that long when it returns.                                       *)
SleepsAtLeast ==
  pc = "done" /\ call = "sleep" /\ ~early /\ secs < WORD \div 2 => now >= Dur
=============================================================================
