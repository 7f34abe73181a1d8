------------------------- MODULE LocalTimeSimulator -------------------------
(***************************************************************************)
(* src/clock: LocalTimeSimulatorImpl and the LocalClock of every node.     *)
(*                                                                         *)
(* The main thread builds a scenario, calls Simulator::Run and, inside     *)
(* Run, executes one event after another; the code of an event calls back  *)
(* into the simulator (Schedule, Cancel, Remove, SetClock, Stop).  Other   *)
(* threads may call ScheduleWithContext at any moment.                     *)
(*                                                                         *)
(* An EventImpl (what is to be executed) is a number given out in the      *)
(* order of creation; an EventId is the record the code keeps: the uid,    *)
(* the time stamp, the context and the EventImpl.  The queue m_events      *)
(* holds the same records.  std::list<EventId> LocalClock::m_events is a   *)
(* set here: elements are only pushed at its back, with the uid that is    *)
(* handed out next, so the list is always sorted by uid.                   *)
(*                                                                         *)
(* NS_ASSERT and NS_FATAL end the program (a debug build): "fault" says    *)
(* which one did, and nothing happens after it.                            *)
(***************************************************************************)
EXTENDS PerfectClock, EventKey, Sequences, FiniteSets

CONSTANTS
  Node,        \* indices of the NodeList
  NoContext,   \* Simulator::NO_CONTEXT, 0xffffffff
  Clock,       \* the clock models the application installs
  Delay,       \* the delays callers pass (time steps)
  MaxImpls,    \* bound: EventImpls created
  MaxUpdates,  \* bound: calls of LocalClock::SetClock
  Api,         \* the calls this application makes besides Schedule
  CrossNode,   \* does code running in one node's context update the clock
               \* of another node that has events outstanding?
  Scale        \* resolution of the exact due times (history only)

ASSUME NodeAssumption == NoContext \notin Node
ASSUME ClockAssumption == Clock \subseteq ClockModel
ASSUME DelayAssumption == Delay \subseteq Nat
ASSUME BoundAssumption ==
  /\ MaxImpls \in Nat
  /\ MaxUpdates \in Nat
  /\ CrossNode \in BOOLEAN
  /\ Scale \in Nat \ {0}
  /\ Api \subseteq {"ScheduleNow", "ScheduleWithContext", "Worker", "Cancel",
                    "Remove", "SetClock", "Stop"}

VARIABLES
  events,            \* m_events, the Scheduler
  uid,               \* m_uid
  currentUid,        \* m_currentUid
  currentTs,         \* m_currentTs
  currentContext,    \* m_currentContext
  unscheduledEvents, \* m_unscheduledEvents
  stop,              \* m_stop
  cancelEventMap,    \* m_cancelEventMap: superseded uid -> its new EventId
  eventsWithContext, \* m_eventsWithContext, filled by other threads
  clock,             \* LocalClock::m_clock of each node
  clockEvents,       \* LocalClock::m_events of each node
  rescheduling,      \* SetClock's locals: node, oldClock and eventListAux
  impls,             \* EventImpls created so far
  refs,              \* references to it the event queues own
  cancelled,         \* EventImpl::m_cancel
  phase,             \* where the main thread is
  running,           \* ProcessOneEvent's local "next": its EventImpl, or 0
  fault,             \* the assertion that ended the program, or "None"
  handles,           \* history: EventIds the application holds
  ran,               \* history: EventImpls whose code was executed
  revoked,           \* history: EventImpls cancelled or removed when pending
  due,               \* history: exact due time * Scale of what Schedule took
  updates            \* history: calls of SetClock

queueVars == <<events, uid, unscheduledEvents>>
currentVars == <<currentUid, currentTs, currentContext>>
clockVars == <<clock, clockEvents>>
historyVars == <<handles, ran, revoked, due, updates>>
vars == <<queueVars, currentVars, stop, cancelEventMap, eventsWithContext,
          clockVars, rescheduling, impls, refs, cancelled, phase, running,
          fault, historyVars>>

Context == Node \cup {NoContext}
EventId == [uid : Nat, ts : Int, ctx : Context, impl : Nat]
ImplId == 1..MaxImpls

\* A node without an aggregated LocalClock.
NoClock == [num |-> 0, den |-> 1, offset |-> 0]

\* SetClock is not running.
NotRescheduling == [node |-> NoContext, old |-> NoClock, list |-> {}]

\* due of an EventImpl that Schedule did not take.
NoDue == -1

-----------------------------------------------------------------------------
\* Queries.

\* The uid is a key of the map: a later EventId stands for this one.
Superseded(e) == e.uid \in DOMAIN cancelEventMap

\* Wrong: DefaultSimulatorImpl's, which knows nothing of clock updates.
IsExpiredIgnoresUpdates(id) ==
  \/ id.ts < currentTs
  \/ id.ts = currentTs /\ id.uid <= currentUid
  \/ id.impl \in cancelled

\* Wrong: an event does not see itself expired while it executes.
IsExpiredTooLate(id) ==
  \/ id.ts < currentTs
  \/ id.ts = currentTs /\ id.uid < currentUid
  \/ id.impl \in cancelled

IsExpired(id) ==
  LET expired[e \in EventId] ==
        IF Superseded(e)
        THEN expired[cancelEventMap[e.uid]]
        ELSE \/ e.ts < currentTs
             \/ e.ts = currentTs /\ e.uid <= currentUid
             \/ e.impl \in cancelled
  IN  expired[id]

Live(list) == {e \in list : ~IsExpired(e)}

\* The queue entries that will be executed when their time comes.
Pending == {e \in events : ~Superseded(e) /\ e.impl \notin cancelled}
PendingImpls == {e.impl : e \in Pending}

\* Main-thread code outside the simulator runs: before and after Run, and in
\* the event that is being invoked; not while SetClock reschedules.
CallerRuns == /\ fault = "None"
              /\ phase \in {"ready", "event"}
              /\ rescheduling.list = {}

Fault(what) == /\ fault' = what
               /\ UNCHANGED <<queueVars, currentVars, stop, cancelEventMap,
                    eventsWithContext, clockVars, rescheduling, impls, refs,
                    cancelled, phase, running, historyVars>>

-----------------------------------------------------------------------------
\* Schedule and the functions it calls.

\* The clock of a node; Schedule creates a default one where there is none.
NodeClock(n) == IF clock[n] = NoClock THEN DefaultClock ELSE clock[n]

\* Wrong: local delays are taken for global ones.
GlobalDelayUnconverted(localDelay) == localDelay

GlobalDelay(localDelay) ==
  IF currentContext = NoContext
  THEN localDelay
  ELSE LocalToGlobalDelay(NodeClock(currentContext), currentTs, localDelay)

ScheduledId(localDelay, impl) ==
  [uid |-> uid, ts |-> currentTs + GlobalDelay(localDelay),
   ctx |-> currentContext, impl |-> impl]

\* Wrong: m_uid is not incremented.
InsertSchedulerSameUid(e) ==
  /\ events' = events \cup {e}
  /\ refs' = [refs EXCEPT ![e.impl] = @ + 1]
  /\ uid' = uid
  /\ unscheduledEvents' = unscheduledEvents + 1

\* The entry takes over the caller's reference to the EventImpl.
InsertScheduler(e) ==
  /\ events' = events \cup {e}
  /\ refs' = [refs EXCEPT ![e.impl] = @ + 1]
  /\ uid' = uid + 1
  /\ unscheduledEvents' = unscheduledEvents + 1

\* Wrong: the first event of a node without a clock is not entered.
InsertEventForgetsFirst(e) ==
  IF e.ctx = NoContext
  THEN UNCHANGED clockVars
  ELSE /\ clock' = [clock EXCEPT ![e.ctx] = NodeClock(e.ctx)]
       /\ clockEvents' = [clockEvents EXCEPT ![e.ctx] =
                            Live(@) \cup (IF clock[e.ctx] = NoClock THEN {} ELSE {e})]

\* LocalClock::InsertEvent, and the default clock if the node had none.
InsertEvent(e) ==
  IF e.ctx = NoContext
  THEN UNCHANGED clockVars
  ELSE /\ clock' = [clock EXCEPT ![e.ctx] = NodeClock(e.ctx)]
       /\ clockEvents' = [clockEvents EXCEPT ![e.ctx] = Live(@) \cup {e}]

\* The time at which localDelay has elapsed on clock c, exactly, times Scale.
ExactDue(c, scaledLocalDelay) ==
  currentTs * Scale + (scaledLocalDelay * c.den) \div c.num

CallerDue(localDelay) ==
  IF currentContext = NoContext
  THEN (currentTs + localDelay) * Scale
  ELSE ExactDue(NodeClock(currentContext), localDelay * Scale)

ScheduleAfter(localDelay) ==
  LET e == ScheduledId(localDelay, impls + 1) IN
  /\ CallerRuns
  /\ impls < MaxImpls
  /\ IF GlobalDelay(localDelay) < 0
     THEN Fault("NegativeDelay")
     ELSE /\ InsertScheduler(e)
          /\ InsertEvent(e)
          /\ impls' = impls + 1
          /\ handles' = handles \cup {e}
          /\ due' = [due EXCEPT ![e.impl] = CallerDue(localDelay)]
          /\ UNCHANGED <<currentVars, stop, cancelEventMap, eventsWithContext,
               rescheduling, cancelled, phase, running, fault, ran, revoked,
               updates>>

Schedule == \E d \in Delay : ScheduleAfter(d)

ScheduleNow == "ScheduleNow" \in Api /\ ScheduleAfter(0)

\* ScheduleWithContext on the main thread: the delay is global and the event
\* is not entered in the list of the node's LocalClock.
ScheduleWithContext ==
  /\ "ScheduleWithContext" \in Api
  /\ CallerRuns
  /\ impls < MaxImpls
  /\ \E ctx \in Node, d \in Delay :
       InsertScheduler([uid |-> uid, ts |-> currentTs + d, ctx |-> ctx,
                        impl |-> impls + 1])
  /\ impls' = impls + 1
  /\ UNCHANGED <<currentVars, stop, cancelEventMap, eventsWithContext,
       clockVars, rescheduling, cancelled, phase, running, fault, historyVars>>

\* ScheduleWithContext on any other thread, at any moment.
WorkerScheduleWithContext ==
  /\ "Worker" \in Api
  /\ fault = "None"
  /\ impls < MaxImpls
  /\ \E ctx \in Node, d \in Delay :
       eventsWithContext' = Append(eventsWithContext,
                              [ctx |-> ctx, delay |-> d, impl |-> impls + 1])
  /\ impls' = impls + 1
  /\ refs' = [refs EXCEPT ![impls + 1] = @ + 1]
  /\ UNCHANGED <<queueVars, currentVars, stop, cancelEventMap, clockVars,
       rescheduling, cancelled, phase, running, fault, historyVars>>

-----------------------------------------------------------------------------
\* LocalClock::SetClock: purge, take the list, then one loop turn per event.

SetClock ==
  /\ "SetClock" \in Api
  /\ CallerRuns
  /\ updates < MaxUpdates
  /\ \E n \in Node, c \in Clock :
       LET list == Live(clockEvents[n]) IN
       /\ CrossNode \/ currentContext = n \/ list = {}
       /\ clock' = [clock EXCEPT ![n] = c]
       /\ clockEvents' = [clockEvents EXCEPT ![n] = {}]
       /\ rescheduling' = IF list = {}
                          THEN NotRescheduling
                          ELSE [node |-> n, old |-> clock[n], list |-> list]
  /\ updates' = updates + 1
  /\ UNCHANGED <<queueVars, currentVars, stop, cancelEventMap,
       eventsWithContext, impls, refs, cancelled, phase, running, fault,
       handles, ran, revoked, due>>

\* Wrong: the old entry stays in force.
CancelReschedulingNothing(id, newId) == UNCHANGED cancelEventMap

\* CancelRescheduling: std::map::insert keeps an entry that is already there.
CancelRescheduling(id, newId) ==
  cancelEventMap' =
    IF IsExpired(id)
    THEN cancelEventMap
    ELSE [u \in DOMAIN cancelEventMap \cup {id.uid} |->
            IF u \in DOMAIN cancelEventMap THEN cancelEventMap[u] ELSE newId]

\* The exact due time of impl once its node runs on clock c instead of old.
MovedDue(old, c, impl) ==
  ExactDue(c, ((due[impl] - currentTs * Scale) * old.num) \div old.den)

\* One turn of the loop: ReSchedule (which calls Simulator::Schedule, so it
\* works with the clock and the list of the CURRENT context, whatever node
\* the event belongs to) and CancelRescheduling.
RescheduleOne ==
  LET old == rescheduling.old IN
  /\ fault = "None"
  /\ \E id \in rescheduling.list :
       LET remain == GlobalToLocalDelay(old, currentTs, id.ts - currentTs)
           newId == ScheduledId(remain, id.impl)
           rest == rescheduling.list \ {id}
       IN
       /\ \A other \in rest : id.uid < other.uid
       /\ IF GlobalDelay(remain) < 0
          THEN Fault("NegativeDelay")
          ELSE /\ InsertScheduler(newId)
               /\ InsertEvent(newId)
               /\ CancelRescheduling(id, newId)
               /\ rescheduling' = IF rest = {} THEN NotRescheduling
                                  ELSE [rescheduling EXCEPT !.list = rest]
               /\ due' = [due EXCEPT ![id.impl] =
                            MovedDue(old, clock[rescheduling.node], id.impl)]
               /\ UNCHANGED <<currentVars, stop, eventsWithContext, impls,
                    cancelled, phase, running, fault, handles, ran, revoked,
                    updates>>

-----------------------------------------------------------------------------
\* Cancel, Remove, Stop.

Cancel ==
  /\ "Cancel" \in Api
  /\ CallerRuns
  /\ \E id \in handles :
       /\ cancelled' = IF IsExpired(id) THEN cancelled
                       ELSE cancelled \cup {id.impl}
       /\ revoked' = revoked \cup ({id.impl} \cap PendingImpls)
  /\ UNCHANGED <<queueVars, currentVars, stop, cancelEventMap,
       eventsWithContext, clockVars, rescheduling, impls, refs, phase,
       running, fault, handles, ran, due, updates>>

\* One of the Remove methods of the scheduler.
TakeOut(e) ==
  /\ events' = events \ {e}
  /\ unscheduledEvents' = unscheduledEvents - 1

\* Remove looks the id's own entry up in the scheduler; a scheduler that does
\* not hold it asserts.
Remove ==
  /\ "Remove" \in Api
  /\ CallerRuns
  /\ \E id \in handles :
       /\ ~IsExpired(id)
       /\ IF id \notin events
          THEN Fault("NoSuchEvent")
          ELSE /\ TakeOut(id)
               /\ refs' = [refs EXCEPT ![id.impl] = @ - 1]
               /\ cancelled' = cancelled \cup {id.impl}
               /\ revoked' = revoked \cup ({id.impl} \cap PendingImpls)
               /\ UNCHANGED <<uid, currentVars, stop, cancelEventMap,
                    eventsWithContext, clockVars, rescheduling, impls, phase,
                    running, fault, handles, ran, due, updates>>

Stop ==
  /\ "Stop" \in Api
  /\ CallerRuns
  /\ ~stop
  /\ stop' = TRUE
  /\ UNCHANGED <<queueVars, currentVars, cancelEventMap, eventsWithContext,
       clockVars, rescheduling, impls, refs, cancelled, phase, running,
       fault, historyVars>>

-----------------------------------------------------------------------------
\* Run and ProcessOneEvent.

\* Wrong: the batch is copied, not swapped out.
ProcessEventsWithContextTwice ==
  LET batch == {[uid  |-> uid + i - 1,
                 ts   |-> currentTs + eventsWithContext[i].delay,
                 ctx  |-> eventsWithContext[i].ctx,
                 impl |-> eventsWithContext[i].impl] :
                   i \in DOMAIN eventsWithContext}
  IN  /\ events' = events \cup batch
      /\ uid' = uid + Len(eventsWithContext)
      /\ unscheduledEvents' = unscheduledEvents + Len(eventsWithContext)
      /\ UNCHANGED eventsWithContext

\* The other threads' events, their time counted from the current event's.
ProcessEventsWithContext ==
  LET batch == {[uid  |-> uid + i - 1,
                 ts   |-> currentTs + eventsWithContext[i].delay,
                 ctx  |-> eventsWithContext[i].ctx,
                 impl |-> eventsWithContext[i].impl] :
                   i \in DOMAIN eventsWithContext}
  IN  /\ events' = events \cup batch
      /\ uid' = uid + Len(eventsWithContext)
      /\ unscheduledEvents' = unscheduledEvents + Len(eventsWithContext)
      /\ eventsWithContext' = <<>>

Run ==
  /\ CallerRuns
  /\ phase = "ready"
  /\ ProcessEventsWithContext
  /\ stop' = FALSE
  /\ phase' = "loop"
  /\ UNCHANGED <<currentVars, cancelEventMap, clockVars, rescheduling, impls,
       refs, cancelled, running, fault, historyVars>>

RunReturns ==
  /\ fault = "None"
  /\ phase = "loop"
  /\ events = {} \/ stop
  /\ IF events = {} /\ unscheduledEvents # 0
     THEN Fault("LostEvent")
     ELSE /\ phase' = "ready"
          /\ UNCHANGED <<queueVars, currentVars, stop, cancelEventMap,
               eventsWithContext, clockVars, rescheduling, impls, refs,
               cancelled, running, fault, historyVars>>

\* Wrong: the entry is looked at and left at the head of the queue.
SkipSupersededPeeks(next) == UNCHANGED vars

\* An entry superseded by a clock update is dropped without being executed,
\* and the map forgets it if the event it maps to lies in the past.
SkipSuperseded(next) ==
  /\ TakeOut(next)
  /\ cancelEventMap' =
       IF cancelEventMap[next.uid].ts < currentTs
       THEN [u \in DOMAIN cancelEventMap \ {next.uid} |-> cancelEventMap[u]]
       ELSE cancelEventMap
  /\ UNCHANGED <<uid, currentVars, stop, eventsWithContext, clockVars,
       rescheduling, impls, refs, cancelled, phase, running, fault,
       historyVars>>

\* EventImpl::Invoke runs the code unless the EventImpl is cancelled.
Invoke(next) ==
  IF next.ts < currentTs
  THEN Fault("TimeRunsBack")
  ELSE /\ TakeOut(next)
       /\ currentTs' = next.ts
       /\ currentContext' = IF next.ctx = NoContext THEN currentContext
                                                    ELSE next.ctx
       /\ currentUid' = next.uid
       /\ running' = next.impl
       /\ IF next.impl \in cancelled
          THEN phase' = "skipped" /\ ran' = ran
          ELSE phase' = "event" /\ ran' = ran \cup {next.impl}
       /\ UNCHANGED <<uid, stop, cancelEventMap, eventsWithContext, clockVars,
            rescheduling, impls, refs, cancelled, fault, handles, revoked,
            due, updates>>

\* Scheduler::RemoveNext returns the first event of the queue.
ProcessOneEvent ==
  /\ fault = "None"
  /\ phase = "loop"
  /\ ~stop
  /\ \E next \in events :
       /\ IsFirst(next, events)
       /\ IF Superseded(next) THEN SkipSuperseded(next) ELSE Invoke(next)

\* The rest of ProcessOneEvent, once the event's code has returned.
EventReturns ==
  /\ fault = "None"
  /\ phase \in {"event", "skipped"}
  /\ rescheduling.list = {}
  /\ ProcessEventsWithContext
  /\ phase' = "loop"
  /\ running' = 0
  /\ refs' = [refs EXCEPT ![running] = @ - 1]
  /\ UNCHANGED <<currentVars, stop, cancelEventMap, clockVars, rescheduling,
       impls, cancelled, fault, historyVars>>

-----------------------------------------------------------------------------
Init ==
  /\ events = {}
  /\ uid = 4
  /\ currentUid = 0
  /\ currentTs = 0
  /\ currentContext = NoContext
  /\ unscheduledEvents = 0
  /\ stop = FALSE
  /\ cancelEventMap = <<>>
  /\ eventsWithContext = <<>>
  /\ clock = [n \in Node |-> NoClock]
  /\ clockEvents = [n \in Node |-> {}]
  /\ rescheduling = NotRescheduling
  /\ impls = 0
  /\ refs = [i \in ImplId |-> 0]
  /\ cancelled = {}
  /\ phase = "ready"
  /\ running = 0
  /\ fault = "None"
  /\ handles = {}
  /\ ran = {}
  /\ revoked = {}
  /\ due = [i \in ImplId |-> NoDue]
  /\ updates = 0

Next ==
  \/ Schedule
  \/ ScheduleNow
  \/ ScheduleWithContext
  \/ WorkerScheduleWithContext
  \/ SetClock
  \/ RescheduleOne
  \/ Cancel
  \/ Remove
  \/ Stop
  \/ Run
  \/ RunReturns
  \/ ProcessOneEvent
  \/ EventReturns

\* The main loop keeps going and the code of an event returns; callers are
\* free to call nothing at all.
Fairness == /\ WF_vars(RunReturns)
            /\ WF_vars(ProcessOneEvent)
            /\ WF_vars(EventReturns)
            /\ WF_vars(RescheduleOne)

Spec == Init /\ [][Next]_vars
FairSpec == Spec /\ Fairness

-----------------------------------------------------------------------------
(***************************************************************************)
(* Properties.                                                             *)
(***************************************************************************)

Faults == {"None", "NegativeDelay", "NoSuchEvent", "LostEvent", "TimeRunsBack"}

\* Every variable has its type.
TypeOK ==
  /\ events \subseteq EventId
  /\ uid \in Nat
  /\ currentUid \in Nat
  /\ currentTs \in Nat
  /\ currentContext \in Context
  /\ unscheduledEvents \in Int
  /\ stop \in BOOLEAN
  /\ DOMAIN cancelEventMap \subseteq Nat
  /\ \A u \in DOMAIN cancelEventMap : cancelEventMap[u] \in EventId
  /\ eventsWithContext \in Seq([ctx : Node, delay : Nat, impl : Nat])
  /\ clock \in [Node -> ClockModel \cup {NoClock}]
  /\ clockEvents \in [Node -> SUBSET EventId]
  /\ rescheduling \in [node : Context, old : ClockModel \cup {NoClock},
                       list : SUBSET EventId]
  /\ impls \in Nat
  /\ refs \in [ImplId -> Int]
  /\ cancelled \subseteq Nat
  /\ phase \in {"ready", "loop", "event", "skipped"}
  /\ running \in Nat
  /\ fault \in Faults
  /\ handles \subseteq EventId
  /\ ran \subseteq Nat
  /\ revoked \subseteq Nat
  /\ due \in [ImplId -> Int]
  /\ updates \in Nat

\* Nothing in the queue is late: every entry, the superseded ones included,
\* comes after the event that was executed last, in the order of
\* Scheduler::EventKey, and no two entries have the same uid.
QueueAhead ==
  /\ currentUid < uid
  /\ \A e \in events :
       /\ e.uid < uid
       /\ e.ts > currentTs \/ (e.ts = currentTs /\ e.uid > currentUid)
  /\ \A e, f \in events : e.uid = f.uid => e = f

\* m_unscheduledEvents counts the queue, through updates, removals, skipped
\* entries and the other threads' batches.
CountsTheQueue == unscheduledEvents = Cardinality(events)

\* The assertions in ProcessOneEvent and at the end of Run hold.
AssertionsHold == fault \notin {"TimeRunsBack", "LostEvent"}

\* The queue, its counter and the position of the simulator in it agree,
\* whatever was moved, removed, skipped or taken over from other threads.
Consistent == TypeOK /\ QueueAhead /\ CountsTheQueue /\ AssertionsHold

\* However often a clock update moves an EventImpl, one entry of the queue at
\* most is going to execute it, and none once it has been executed.
OneEntryPerImpl ==
  \A e \in Pending :
    /\ e.impl \notin ran
    /\ \A f \in Pending : f.impl = e.impl => f = e

\* Every pending event that Schedule took in a node's context is known to
\* the LocalClock of that node (or is in SetClock's hands), so that the next
\* clock update finds it.
PendingIsTracked ==
  \A e \in Pending :
    (e.ctx # NoContext /\ due[e.impl] # NoDue) =>
      e \in clockEvents[e.ctx] \cup rescheduling.list

\* While an activity is pending, the EventId the application got from
\* Schedule, however stale, is not expired (clock-test.cc, lines 181 to 184).
PendingIsNotExpired ==
  CallerRuns =>
  \A id \in handles : id.impl \in PendingImpls => ~IsExpired(id)

\* Once an activity was executed or revoked, the application's EventId is
\* expired.
GoneIsExpired ==
  CallerRuns =>
  \A id \in handles : id.impl \in ran \cup revoked => IsExpired(id)

\* What was cancelled or removed while it was pending is never executed.
RevokedNeverRuns == revoked \cap ran = {}

EntriesOf(i) == Cardinality({e \in events : e.impl = i})
                + Cardinality({k \in DOMAIN eventsWithContext :
                                 eventsWithContext[k].impl = i})
                + (IF running = i THEN 1 ELSE 0)

\* The queues own one reference to an EventImpl per entry that holds it (the
\* event being executed included): nothing is freed early, and as long as no
\* clock was updated nothing leaks.  scheduler.h, lines 58 to 65.
RefsMatchEntries ==
  \A i \in ImplId : /\ refs[i] >= EntriesOf(i)
                    /\ updates = 0 => refs[i] = EntriesOf(i)

\* GetDelayLeft, which looks at the EventId only.
GetDelayLeft(id) == IF IsExpired(id) THEN 0 ELSE id.ts - currentTs

\* GetDelayLeft of a pending activity is the time until it is executed.
DelayLeftIsExact ==
  \A id \in handles, e \in Pending :
    e.impl = id.impl => GetDelayLeft(id) = e.ts - currentTs

\* As long as no clock was updated, the simulator keeps the promises of
\* simulator.h to the letter: no assertion ends the program, what is gone is
\* expired, and the delay left is exact.
PromisesKept ==
  updates = 0 => fault = "None" /\ GoneIsExpired /\ DelayLeftIsExact

\* An activity that Schedule took is executed when its local delay has
\* elapsed on its node's clock, as updated on the way, up to Drift time steps
\* of rounding.
DelayHonoured(drift) ==
  (phase = "event" /\ due[running] # NoDue) =>
    /\ currentTs * Scale - due[running] <= drift * Scale
    /\ due[running] - currentTs * Scale <= drift * Scale

\* With clocks of frequency 1/2, 1 and 2, a clock update (the installation of
\* the node's first clock model included) costs one time step of rounding at
\* most, as long as there are no more than three.
DriftPerUpdate == DelayHonoured(updates)

\* Execution goes forward in time; at one time, in the order of the uids.
InOrder ==
  [][phase = "loop" /\ phase' \in {"event", "skipped"} =>
       \/ currentTs' > currentTs
       \/ currentTs' = currentTs /\ currentUid' > currentUid]_vars

\* In Run, what is pending is executed, unless it is revoked, somebody calls
\* Stop, or an assertion ends the program.
PendingRuns ==
  \A i \in ImplId :
    (i \in PendingImpls /\ phase # "ready") ~>
      (i \in ran \cup revoked \/ stop \/ fault # "None")

\* The simulator implements the abstract event simulation: a superseded entry
\* and its successor are one pending activity.
Sim == INSTANCE EventSimulation WITH
         Activity <- ImplId,
         now <- currentTs,
         pending <- {[act |-> e.impl, due |-> e.ts, ticket |-> e.uid] :
                       e \in Pending},
         issued <- uid,
         done <- ran,
         dropped <- revoked

ImplementsSimulation == Sim!SimSpec

=============================================================================
