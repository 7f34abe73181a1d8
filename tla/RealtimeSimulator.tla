-------------------------- MODULE RealtimeSimulator --------------------------
(***************************************************************************)
(* RealtimeSimulatorImpl with WallClockSynchronizer and SystemCondition:   *)
(* one call of Run by the main thread, which executes each event when the  *)
(* wall clock reaches its time, while worker threads schedule events.      *)
(*                                                                         *)
(* m_mutex protects the queue.  A worker keeps it from the insertion of    *)
(* its event until it has signalled; what the main thread does within it   *)
(* is one step here, taken when no worker holds it.  The condition is a    *)
(* flag that is written without a lock and read, in TimedWait, under the   *)
(* mutex of the pthread condition, which Signal needs too: the main thread *)
(* holds that one in "checked".                                            *)
(*                                                                         *)
(* Wall-clock time is counted in ticks of the clock, one jiffy each, from  *)
(* SetOrigin on.  Before that, the synchronizer subtracts an origin of 0   *)
(* and reads the time since 1970: Far, later than any run of the model.    *)
(***************************************************************************)
EXTENDS EventKey, FiniteSets

CONSTANTS
  Worker,   \* threads that schedule events from outside
  Delay,    \* delays the callers ask for
  MaxTime,  \* bound: ticks of the wall clock
  MaxUid    \* bound: uids of events

ASSUME InputAssumption == Delay \subseteq Nat /\ MaxTime \in Nat

VARIABLES
  events,      \* m_events: records [ts, uid]
  uid,         \* m_uid
  currentTs,   \* m_currentTs
  stop,        \* m_stop
  running,     \* m_running
  origin,      \* SetOrigin was called
  clock,       \* the wall clock
  condition,   \* m_condition of the synchronizer's SystemCondition
  until,       \* the real time Synchronize waits for, or Idle
  wake,        \* end of TimedWait
  main,        \* where the main thread is
  thread,      \* per worker, where it is
  executed,    \* uids of executed events
  removed      \* uids of events that were removed

waitVars == <<until, wake>>
goneVars == <<executed, removed>>
vars == <<events, uid, currentTs, stop, running, origin, clock, condition,
          until, wake, main, thread, executed, removed>>

FirstUid == 4
Far == MaxTime + 100
Idle == -1  \* the wait of one second for an empty queue

Unlocked == \A w \in Worker : thread[w] = "out"

\* GetCurrentRealtime.
Reading == IF origin THEN clock ELSE Far

\* m_events->Insert, m_uid++.
Insert(ts) == /\ uid < MaxUid
              /\ events' = events \cup {[ts |-> ts, uid |-> uid]}
              /\ uid' = uid + 1

Init ==
  /\ events = {} /\ uid = FirstUid /\ currentTs = 0
  /\ stop = FALSE /\ running = FALSE /\ origin = FALSE
  /\ clock = 0 /\ condition = FALSE /\ until = Idle /\ wake = 0
  /\ main = "script" /\ thread = [w \in Worker |-> "out"]
  /\ executed = {} /\ removed = {}
-----------------------------------------------------------------------------
\* The wall clock.
Tick == /\ origin /\ main # "done" /\ clock < MaxTime
        /\ clock' = clock + 1
        /\ UNCHANGED <<events, uid, currentTs, stop, running, origin, condition,
                       waitVars, main, thread, goneVars>>

\* ScheduleWithContext and ScheduleRealtimeNowWithContext of a worker, which
\* look at m_running, and ScheduleRealtimeWithContext, which does not: the
\* worker takes m_mutex and inserts.
WorkerInsert(w, d) ==
  /\ Unlocked
  /\ \E base \in {IF running THEN Reading ELSE currentTs, Reading} :
       Insert(base + d)
  /\ thread' = [thread EXCEPT ![w] = "inserted"]
  /\ UNCHANGED <<currentTs, stop, running, origin, clock, condition, waitVars,
                 main, goneVars>>

\* DoSignal: SetCondition (true), without a lock of the condition.
WorkerSets(w) ==
  /\ thread[w] = "inserted"
  /\ condition' = TRUE
  /\ thread' = [thread EXCEPT ![w] = "set"]
  /\ UNCHANGED <<events, uid, currentTs, stop, running, origin, clock, waitVars,
                 main, goneVars>>

\* Wrong: the signal is sent before the condition is set.
WorkerSignalsFirst(w) ==
  /\ thread[w] \in {"inserted", "signalled"}
  /\ \/ /\ thread[w] = "inserted" /\ main # "checked"
        /\ main' = IF main = "asleep" THEN "check" ELSE main
        /\ thread' = [thread EXCEPT ![w] = "signalled"]
        /\ UNCHANGED condition
     \/ /\ thread[w] = "signalled"
        /\ condition' = TRUE
        /\ thread' = [thread EXCEPT ![w] = "out"]
        /\ UNCHANGED main
  /\ UNCHANGED <<events, uid, currentTs, stop, running, origin, clock, waitVars,
                 goneVars>>

\* SystemCondition::Signal, and m_mutex is released.
WorkerSignals(w) ==
  /\ thread[w] = "set" /\ main # "checked"
  /\ main' = IF main = "asleep" THEN "check" ELSE main
  /\ thread' = [thread EXCEPT ![w] = "out"]
  /\ UNCHANGED <<events, uid, currentTs, stop, running, origin, clock, condition,
                 waitVars, goneVars>>

\* Simulator::Stop by a worker: nobody is signalled.
WorkerStops ==
  /\ running /\ ~stop
  /\ stop' = TRUE
  /\ UNCHANGED <<events, uid, currentTs, running, origin, clock, condition,
                 waitVars, main, thread, goneVars>>
-----------------------------------------------------------------------------
\* The script and the code of events schedule from the main thread: Schedule,
\* ScheduleNow and ScheduleWithContext by m_currentTs, the others by the clock.
Schedule(d) ==
  /\ main \in {"script", "event"} /\ Unlocked
  /\ \E base \in {currentTs, Reading} : Insert(base + d)
  /\ condition' = TRUE
  /\ UNCHANGED <<currentTs, stop, running, origin, clock, waitVars, main, thread,
                 goneVars>>

\* Remove of an event that has not expired, by the main thread.
Remove(e) ==
  /\ main \in {"script", "event"} /\ Unlocked
  /\ events' = events \ {e}
  /\ removed' = removed \cup {e.uid}
  /\ UNCHANGED <<uid, currentTs, stop, running, origin, clock, condition,
                 waitVars, main, thread, executed>>

Stop ==
  /\ main = "event"
  /\ stop' = TRUE
  /\ UNCHANGED <<events, uid, currentTs, running, origin, clock, condition,
                 waitVars, main, thread, goneVars>>

EventReturns ==
  /\ main = "event"
  /\ main' = "loop"
  /\ UNCHANGED <<events, uid, currentTs, stop, running, origin, clock, condition,
                 waitVars, thread, goneVars>>
-----------------------------------------------------------------------------
\* Run sets its flags, then the origin of the clock.
RunBegins ==
  /\ main = "script"
  /\ stop' = FALSE /\ running' = TRUE
  /\ main' = "origin"
  /\ UNCHANGED <<events, uid, currentTs, origin, clock, condition, waitVars,
                 thread, goneVars>>

SetOrigin ==
  /\ main = "origin"
  /\ origin' = TRUE
  /\ main' = "loop"
  /\ UNCHANGED <<events, uid, currentTs, stop, running, clock, condition,
                 waitVars, thread, goneVars>>

\* The loop of Run: an event, or Synchronize for a second.
Loop ==
  /\ main = "loop" /\ ~stop /\ Unlocked
  /\ main' = IF events # {} THEN "plan" ELSE "check"
  /\ until' = Idle
  /\ UNCHANGED <<events, uid, currentTs, stop, running, origin, clock, condition,
                 wake, thread, goneVars>>

\* Wrong: Run returns when it is stopped and the queue is empty.
RunReturnsEmpty ==
  /\ main = "loop" /\ stop /\ events = {} /\ Unlocked
  /\ running' = FALSE
  /\ main' = "done"
  /\ UNCHANGED <<events, uid, currentTs, stop, origin, clock, condition,
                 waitVars, thread, goneVars>>

RunReturns ==
  /\ main = "loop" /\ stop /\ Unlocked
  /\ running' = FALSE
  /\ main' = "done"
  /\ UNCHANGED <<events, uid, currentTs, stop, origin, clock, condition,
                 waitVars, thread, goneVars>>

\* Wrong: the condition of the wait before is not reset.
PlanUnreset ==
  /\ main = "plan" /\ Unlocked
  /\ \E e \in events :
       /\ IsFirst(e, events)
       /\ until' = IF e.ts <= clock THEN clock ELSE e.ts
  /\ main' = "sync"
  /\ UNCHANGED <<events, uid, currentTs, stop, running, origin, clock, condition,
                 wake, thread, goneVars>>

\* ProcessOneEvent, first critical section: how long to wait for the next
\* event; from now on whoever schedules interrupts the wait.
Plan ==
  /\ main = "plan" /\ Unlocked
  /\ \E e \in events :
       /\ IsFirst(e, events)
       /\ until' = IF e.ts <= clock THEN clock ELSE e.ts
  /\ condition' = FALSE
  /\ main' = "sync"
  /\ UNCHANGED <<events, uid, currentTs, stop, running, origin, clock, wake,
                 thread, goneVars>>

\* Wrong: the condition is reset after m_mutex was released.
SynchronizeResets ==
  /\ main = "sync"
  /\ condition' = FALSE
  /\ \/ until > clock + 3 /\ wake' = until - 3 /\ main' = "check"
     \/ until <= clock + 3 /\ wake' = 0 /\ main' = "spin"
  /\ UNCHANGED <<events, uid, currentTs, stop, running, origin, clock, until,
                 thread, goneVars>>

\* Wrong: it always sleeps three jiffies less.
SleepAlways ==
  /\ main = "sync"
  /\ wake' = until - 3
  /\ main' = "check"
  /\ UNCHANGED <<events, uid, currentTs, stop, running, origin, clock, condition,
                 until, thread, goneVars>>

\* DoSynchronize with DriftCorrect: sleep if more than three jiffies are left.
Synchronize ==
  /\ main = "sync"
  /\ \/ /\ until > clock + 3
        /\ wake' = until - 3
        /\ main' = "check"
     \/ /\ until <= clock + 3
        /\ wake' = 0
        /\ main' = "spin"
  /\ UNCHANGED <<events, uid, currentTs, stop, running, origin, clock, condition,
                 until, thread, goneVars>>

\* Where an interrupted wait ends.
Interrupted == IF until = Idle THEN "loop" ELSE "plan"

\* TimedWait looks at the condition, with the mutex of the pthread condition.
CheckCondition ==
  /\ main = "check"
  /\ main' = IF condition THEN Interrupted ELSE "checked"
  /\ UNCHANGED <<events, uid, currentTs, stop, running, origin, clock, condition,
                 waitVars, thread, goneVars>>

\* pthread_cond_timedwait releases that mutex and sleeps, until Signal
Sleep ==
  /\ main = "checked"
  /\ main' = "asleep"
  /\ UNCHANGED <<events, uid, currentTs, stop, running, origin, clock, condition,
                 waitVars, thread, goneVars>>

\* or until the time is over; the second of an empty queue passes in any
\* number of ticks.
TimedOut ==
  /\ main = "asleep"
  /\ \/ until = Idle /\ main' = "loop"
     \/ until # Idle /\ clock >= wake /\ main' = "spin"
  /\ UNCHANGED <<events, uid, currentTs, stop, running, origin, clock, condition,
                 waitVars, thread, goneVars>>

\* Wrong: an interrupted wait passes for one that went to its end.
SpinEnds ==
  /\ main = "spin"
  /\ clock >= until \/ condition
  /\ main' = "take"
  /\ UNCHANGED <<events, uid, currentTs, stop, running, origin, clock, condition,
                 waitVars, thread, goneVars>>

\* DoGetDrift and SpinWait: the time first, then the condition.
SpinWait ==
  /\ main = "spin"
  /\ \/ clock >= until /\ main' = "take"
     \/ clock < until /\ condition /\ main' = "plan"
  /\ UNCHANGED <<events, uid, currentTs, stop, running, origin, clock, condition,
                 waitVars, thread, goneVars>>

\* ProcessOneEvent, second critical section: whichever event is next by now.
TakeEvent ==
  /\ main = "take" /\ Unlocked
  /\ \E e \in events :
       /\ IsFirst(e, events)
       /\ events' = events \ {e}
       /\ currentTs' = e.ts
       /\ executed' = executed \cup {e.uid}
  /\ main' = "event" /\ until' = Idle /\ wake' = 0
  /\ UNCHANGED <<uid, stop, running, origin, clock, condition, thread, removed>>

\* What the main thread does of itself; the code of an event returns.
Main == \/ RunBegins \/ SetOrigin \/ Loop \/ RunReturns \/ Plan \/ Synchronize
        \/ CheckCondition \/ Sleep \/ TimedOut \/ SpinWait \/ TakeEvent
        \/ EventReturns

Next ==
  \/ Tick
  \/ \E w \in Worker :
       \/ \E d \in Delay : WorkerInsert(w, d)
       \/ WorkerSets(w)
       \/ WorkerSignals(w)
  \/ WorkerStops
  \/ \E d \in Delay : Schedule(d)
  \/ \E e \in events : Remove(e)
  \/ Stop
  \/ Main

\* Time passes, and the operating system lets every thread run.
Fairness == /\ WF_vars(Tick) /\ WF_vars(Main)
            /\ \A w \in Worker : WF_vars(WorkerSets(w) \/ WorkerSignals(w))

Spec == Init /\ [][Next]_vars /\ Fairness
-----------------------------------------------------------------------------
TypeOK ==
  /\ events \subseteq [ts : Nat, uid : FirstUid..(uid - 1)]
  /\ uid \in Nat /\ uid >= FirstUid
  /\ currentTs \in Nat /\ clock \in 0..MaxTime
  /\ until \in Nat \cup {Idle} /\ wake \in Nat
  /\ stop \in BOOLEAN /\ running \in BOOLEAN
  /\ origin \in BOOLEAN /\ condition \in BOOLEAN
  /\ main \in {"script", "origin", "loop", "plan", "sync", "check", "checked",
               "asleep", "spin", "take", "event", "done"}
  /\ thread \in [Worker -> {"out", "inserted", "set"}]
  /\ executed \subseteq FirstUid..(uid - 1)
  /\ removed \subseteq FirstUid..(uid - 1)

\* No event is executed before the wall clock has reached its time, although
\* nobody looks at which event is next when the wait is over: "What we can be
\* sure of is that it is time to execute whatever event is at the head".
NeverEarly == currentTs <= clock

\* The assertions: ProcessOneEvent finds an event, in both critical sections,
\* and nothing is inserted before m_currentTs or found there.
NoFault == /\ main \in {"plan", "sync", "spin", "take"} => events # {}
           /\ \A e \in events : e.ts >= currentTs

\* The queue and the time keep their types and no assertion fails, whatever
\* the workers insert while the main thread waits.
Consistent == TypeOK /\ NoFault

\* Whoever waits is told of an event that should not wait that long: the
\* condition is true, or a worker is about to set it.
WaitIsInterrupted ==
  /\ main \in {"sync", "check", "checked", "asleep", "spin"}
  /\ \E e \in events : until = Idle \/ (e.ts < until /\ clock < until)
  => condition \/ \E w \in Worker : thread[w] = "inserted"

\* Nobody sleeps through a condition that is true: its signal is to come.
NoLostWakeup ==
  main = "asleep" /\ condition => \E w \in Worker : thread[w] = "set"

\* "Sleep until signalled": the wait for an empty queue is not refused by a
\* condition left over from an event that was executed.
IdleSleeps ==
  main \in {"check", "checked", "asleep"} /\ until = Idle /\ condition
    => events # {} \/ removed # {}

\* The simulator implements the event simulation: in the order of time, the
\* events of workers included.
Sim == INSTANCE EventSimulation WITH
         Activity <- Nat,
         now <- currentTs,
         pending <- {[act |-> e.uid, due |-> e.ts, ticket |-> e.uid] : e \in events},
         issued <- uid,
         done <- executed,
         dropped <- removed

ImplementsSimulation == Sim!SimSpec

\* What is due within the time of the model is executed, unless it is removed
\* or the simulator stopped.
DueRuns ==
  \A n \in FirstUid..(MaxUid - 1) :
    (\E e \in events : e.uid = n /\ e.ts <= MaxTime)
      ~> (n \in executed \cup removed \/ main = "done")

\* Run returns once the simulator is stopped, as soon as an event is due: Stop
\* interrupts nobody.
StopEnds ==
  stop ~> (main = "done" \/ \A e \in events : e.ts > MaxTime)

\* The main loop goes on through every wait.
LoopGoesOn == DueRuns /\ StopEnds
=============================================================================
