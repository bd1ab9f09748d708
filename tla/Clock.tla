------------------------------- MODULE Clock -------------------------------
(***************************************************************************)
(* time::Instant and time::SystemTime, over syscall::monotonic and         *)
(* syscall::gettimeofday.  A program takes both times, and later asks both *)
(* how long ago that was.  A second has SEC nanoseconds, a microsecond US. *)
(***************************************************************************)
EXTENDS Integers

CONSTANTS Targets,    \* "linux", "linux32", "macos", "macos_x86"
          SEC, US,
          FREQ,       \* the counter of macOS on arm64, in Hz
          WORD,       \* 2^32
          None,
          MaxTime     \* bound: nanoseconds of either clock

ClockAssumption ==
  /\ Targets \subseteq {"linux", "linux32", "macos", "macos_x86"}
  /\ US \in Nat \ {0} /\ SEC \in {k * US : k \in 1..SEC}
  /\ FREQ \in 1..SEC /\ WORD \in Nat \ {0} /\ MaxTime \in Nat

VARIABLES target,
          time,       \* since boot
          wall,       \* since the epoch
          mark,       \* what Instant::now and SystemTime::now returned, and when
          got         \* what the elapsed methods returned then

vars == <<target, time, wall, mark, got>>

(* A {seconds, fraction} of two 32-bit fields, written into the first of   *)
(* two 64-bit ones.                                                        *)
Squeezed(s, f) == <<s + f * WORD, 0>>

(* monotonic: <<seconds, nanoseconds>>.  32-bit Linux fills in a timespec  *)
(* of two 32-bit fields.                                                   *)
Monotonic ==
  CASE target = "linux" -> <<time \div SEC, time % SEC>>
    [] target = "linux32" -> Squeezed(time \div SEC, time % SEC)
    [] target = "macos" -> LET cnt == (time * FREQ) \div SEC
                           IN  <<cnt \div FREQ, ((cnt % FREQ) * SEC) \div FREQ>>
    [] target = "macos_x86" -> <<wall \div SEC, ((wall % SEC) \div US) * US>>

(* gettimeofday: <<seconds, microseconds>>.                                *)
GetTimeOfDay ==
  LET usecs == (wall % SEC) \div US
  IN  IF target = "linux32" THEN Squeezed(wall \div SEC, usecs)
      ELSE <<wall \div SEC, usecs>>

(* Instant::now, SystemTime::now: a Duration, here its nanoseconds.        *)
InstantNow == Monotonic[1] * SEC + Monotonic[2]
SystemNow == GetTimeOfDay[1] * SEC + GetTimeOfDay[2] * US

(* Instant::duration_since saturates; SystemTime's says which is later.    *)
InstantSince(later, earlier) == IF later >= earlier THEN later - earlier ELSE 0
SystemSince(later, earlier) ==
  IF later >= earlier THEN <<"Ok", later - earlier>> ELSE <<"Err", earlier - later>>

Init ==
  /\ target \in Targets
  /\ time = 0 /\ wall \in 0..MaxTime
  /\ mark = None /\ got = None

Now ==
  /\ mark' = [instant |-> InstantNow, system |-> SystemNow, time |-> time, wall |-> wall]
  /\ got' = None
  /\ UNCHANGED <<target, time, wall>>

Elapsed ==
  /\ mark # None
  /\ got' = [instant |-> InstantSince(InstantNow, mark.instant),
             system |-> SystemSince(SystemNow, mark.system)]
  /\ UNCHANGED <<target, time, wall, mark>>

(* Time passes; the wall clock is set.                                     *)
Tick ==
  /\ time < MaxTime /\ wall < MaxTime
  /\ time' = time + 1 /\ wall' = wall + 1 /\ got' = None
  /\ UNCHANGED <<target, mark>>
SetWall ==
  /\ wall' \in 0..MaxTime /\ got' = None
  /\ UNCHANGED <<target, time, mark>>

Next == Now \/ Elapsed \/ Tick \/ SetWall

Spec == Init /\ [][Next]_vars

-----------------------------------------------------------------------------
(* However the wall clock is set, an Instant tells how much time has       *)
(* passed on Linux and, to a tick of the counter, on macOS arm64, where it *)
(* is never earlier than an earlier one.  Not so on macOS x86_64, against  *)
(* the "monotonically nondecreasing" of time.rs: there an Instant is the   *)
(* wall clock, and duration_since is what that has moved, or 0.  A         *)
(* SystemTime tells, to the microsecond, how far the wall clock has come   *)
(* or been set back.  Nothing holds on 32-bit Linux, whose calls fill in   *)
(* fields of another width.                                                *)
ElapsedRight ==
  got # None /\ target # "linux32" =>
    LET passed == time - mark.time
        tick == SEC \div FREQ + 2
        moved == (wall \div US) * US - (mark.wall \div US) * US
    IN  /\ target = "linux" => got.instant = passed
        /\ target = "macos" => /\ InstantNow >= mark.instant
                               /\ got.instant - passed \in -tick..tick
        /\ target = "macos_x86" => got.instant = IF moved < 0 THEN 0 ELSE moved
        /\ got.system = IF moved < 0 THEN <<"Err", -moved>> ELSE <<"Ok", moved>>
=============================================================================
