------------------------------ MODULE Watchdog ------------------------------
(***************************************************************************)
(* src/core: Watchdog, on the node of ClockReadings.  Its end is a global  *)
(* time, but the delay it passes to Simulator::Schedule is taken for one   *)
(* of the local clock by LocalTimeSimulatorImpl.  The clock is not updated *)
(* meanwhile.  A failed assertion ends the program.                        *)
(***************************************************************************)
EXTENDS ClockReadings

CONSTANT PingDelay \* the delays the application pings with

\* A ping with the delay 0 may be refused on some clocks: see DelayAccepted.
ASSUME PingDelayAssumption == PingDelay \subseteq Nat \ {0}

VARIABLES
  end,      \* m_end
  event,    \* the time stamp of m_event while it is running, or NoEvent
  failed,   \* whether Schedule met a negative delay
  promised, \* history: the latest time a Ping has asked for
  invoked   \* history: when the function was invoked last

watchdogVars == <<end, event, failed, promised, invoked>>

NoEvent == -1

Later(s, t) == IF s >= t THEN s ELSE t

\* Simulator::Schedule of Expire.
ScheduleExpire(delay) ==
  LET globalDelay == LocalToGlobalDelay(clock, now, delay)
  IN  \/ globalDelay < 0 /\ failed' = TRUE /\ event' = event
      \/ globalDelay >= 0 /\ failed' = failed /\ event' = now + globalDelay

\* Wrong: the end is that of the last ping.
PingForgets(d) ==
  /\ ~failed
  /\ end' = now + d
  /\ IF event # NoEvent THEN UNCHANGED <<event, failed>>
                        ELSE ScheduleExpire(d)
  /\ promised' = Later(promised, now + d)
  /\ UNCHANGED <<clock, now, target, fires, invoked>>

\* Any other event of the node may ping.
Ping(d) ==
  /\ ~failed
  /\ end' = Later(end, now + d)
  /\ IF event # NoEvent THEN UNCHANGED <<event, failed>>
                        ELSE ScheduleExpire(Later(end, now + d) - now)
  /\ promised' = Later(promised, now + d)
  /\ UNCHANGED <<clock, now, target, fires, invoked>>

Expire ==
  /\ ~failed
  /\ event = now
  /\ \/ end = now /\ invoked' = now /\ event' = NoEvent /\ failed' = failed
     \/ end # now /\ ScheduleExpire(end - now) /\ invoked' = invoked
  /\ UNCHANGED <<clock, now, target, fires, end, promised>>

\* The rest of the node goes on; time does not pass an event.
NodeStep ==
  /\ ~failed
  /\ SetTimer \/ (event # now /\ Elapse)
  /\ UNCHANGED watchdogVars

WatchdogInit == /\ Init
                /\ end = 0
                /\ event = NoEvent
                /\ failed = FALSE
                /\ promised = 0
                /\ invoked = 0

WatchdogNext == (\E d \in PingDelay : Ping(d)) \/ Expire \/ NodeStep

WatchdogSpec == WatchdogInit /\ [][WatchdogNext]_<<vars, watchdogVars>>

-----------------------------------------------------------------------------
\* The watchdog waits as long as a ping has asked for, and an event to end the
\* wait is always under way (Watchdog::Ping, Watchdog::Expire).  On a clock
\* that is not slower than global time it is never late, and no assertion
\* fails.  On a clock of the rate of global time, whatever its offset, the
\* function is invoked exactly when the latest ping has asked for (what
\* watchdog.h, line 49, says of every clock).
WatchdogKept ==
  /\ ~failed /\ now < promised => event # NoEvent
  /\ invoked <= promised
  /\ clock.num >= clock.den => ~failed /\ event <= promised
  /\ clock.num = clock.den /\ now > promised => invoked = promised
=============================================================================
