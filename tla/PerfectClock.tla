---------------------------- MODULE PerfectClock ----------------------------
(***************************************************************************)
(* The affine clock of src/clock: a local clock reads                      *)
(* frequency * globalTime + offset.  Times are integers (time steps); the  *)
(* frequency is a positive rational num/den.  The two conversions do not   *)
(* round alike: Time (double) rounds half away from zero (lround), while   *)
(* a quotient of a Time is an int64x64_t whose integer part is its floor.  *)
(* Everything the simulator gets wrong at the last time step comes from    *)
(* that difference, so the model keeps it.                                 *)
(*                                                                         *)
(* This module has no state; a clock is a record and the global time       *)
(* (Simulator::Now) is a parameter.                                        *)
(***************************************************************************)
EXTENDS Integers

\* Attributes Frequency and Offset of a PerfectClockModelImpl.
ClockModel == [num : Nat \ {0}, den : Nat \ {0}, offset : Int]

\* The clock Schedule creates for a node that has none: local time = global time.
DefaultClock == [num |-> 1, den |-> 1, offset |-> 0]

\* Time (double): the integer nearest to p / q, halves away from zero.
Lround(p, q) == IF p >= 0 THEN (2 * p + q) \div (2 * q)
                          ELSE -((q - 2 * p) \div (2 * q))

GlobalToLocalTime(c, globalTime) ==
  Lround(globalTime * c.num, c.den) + c.offset

\* Wrong: the conversion of the other direction.
LocalToGlobalTimeMultiplied(c, localTime) ==
  ((localTime - c.offset) * c.num) \div c.den

\* Wrong: the offset is taken off after the division.
LocalToGlobalTimeLateOffset(c, localTime) ==
  (localTime * c.den) \div c.num - c.offset

LocalToGlobalTime(c, localTime) ==
  ((localTime - c.offset) * c.den) \div c.num

GetLocalTime(c, now) == GlobalToLocalTime(c, now)

GlobalToLocalDelay(c, now, globalDelay) ==
  GlobalToLocalTime(c, now + globalDelay) - GetLocalTime(c, now)

\* Wrong: the absolute local time is converted like a delay, offset ignored.
LocalToGlobalDelayUnshifted(c, now, localDelay) ==
  LocalToGlobalTime(c, GetLocalTime(c, now) - c.offset + localDelay) - now

LocalToGlobalDelay(c, now, localDelay) ==
  LocalToGlobalTime(c, GetLocalTime(c, now) + localDelay) - now
=============================================================================
