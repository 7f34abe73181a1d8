--------------------------- MODULE ClockReadings ---------------------------
(***************************************************************************)
(* What the conversions of PerfectClock are worth to a node: it reads its  *)
(* local clock while global time passes, and sets timers by it, one at a   *)
(* time, the way LocalTimeSimulatorImpl::CalculateAbsoluteTime turns a     *)
(* local delay into a global time stamp.                                   *)
(***************************************************************************)
EXTENDS PerfectClock

CONSTANTS
  Clock,   \* the clock models
  Delay,   \* local delays of the timers
  MaxNow   \* bound: global time

ASSUME ClockAssumption == Clock \subseteq ClockModel
ASSUME DelayAssumption == Delay \subseteq Nat
ASSUME MaxNowAssumption == MaxNow \in Nat

VARIABLES
  clock,  \* the node's clock model
  now,    \* Simulator::Now
  target, \* the local time the timer is set to
  fires   \* the time stamp of the timer's event

vars == <<clock, now, target, fires>>

\* CalculateAbsoluteTime.
AbsoluteTime(localDelay) == now + LocalToGlobalDelay(clock, now, localDelay)

SetTimer == \E d \in Delay :
  /\ target' = GetLocalTime(clock, now) + d
  /\ fires' = AbsoluteTime(d)
  /\ UNCHANGED <<clock, now>>

\* The next event is executed; skipping time is several of these steps.
Elapse == /\ now < MaxNow
          /\ now' = now + 1
          /\ UNCHANGED <<clock, target, fires>>

\* The timer of the initial state is one that is due at once.
Init == /\ clock \in Clock
        /\ now = 0
        /\ target = clock.offset
        /\ fires = 0

Next == SetTimer \/ Elapse

Spec == Init /\ [][Next]_vars

-----------------------------------------------------------------------------
\* The variables have their types.
TypeOK == /\ clock \in ClockModel
          /\ now \in Nat
          /\ target \in Int
          /\ fires \in Int

\* A timer fires at the last global time step at which the local clock has
\* not gone past its target: up to that step the clock reads the target at
\* most, after it the target at least.
TimerOnTime ==
  /\ now <= fires => GetLocalTime(clock, now) <= target
  /\ now > fires => GetLocalTime(clock, now) >= target

\* The assertion in Schedule that a delay is not negative holds of every
\* positive local delay, whatever the clock: rounding never turns one into a
\* negative global delay.  And now means now (ScheduleNow is Schedule with
\* delay 0), at any time, on a clock whose frequency is integral; on others
\* the global delay may even be negative, which the assertion refuses.
DelayAccepted ==
  /\ \A d \in Delay \ {0} : LocalToGlobalDelay(clock, now, d) >= 0
  /\ clock.den = 1 => LocalToGlobalDelay(clock, now, 0) = 0

\* Moving an event to a clock that is the same as the old one, as SetClock
\* does for every event of the list, moves it by one step at most beyond half
\* a step of the local clock.
SameClockMovesLittle ==
  \A g \in Delay :
    LET moved == LocalToGlobalDelay(clock, now, GlobalToLocalDelay(clock, now, g))
    IN  /\ 2 * clock.num * (moved - g) <= clock.den
        /\ 2 * clock.num * (g - moved) <= clock.den + 2 * clock.num

\* The local clock does not run backwards.
ReadingAdvances ==
  [][GetLocalTime(clock', now') >= GetLocalTime(clock, now)]_vars
=============================================================================
