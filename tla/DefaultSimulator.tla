-------------------------- MODULE DefaultSimulator --------------------------
(***************************************************************************)
(* src/core: DefaultSimulatorImpl, with Simulator::Destroy and the next    *)
(* implementation object that Simulator::GetImpl creates after it.         *)
(*                                                                         *)
(* The main thread schedules events, calls Run, which executes one event   *)
(* after another, and at the end Destroy, which executes the destroy       *)
(* events, disposes of what is left and deletes the object; the next call  *)
(* of the application creates another.  The code of an event calls the     *)
(* same functions.  Other threads may call ScheduleWithContext at any      *)
(* moment while an implementation object exists, and that is until its     *)
(* deletion: what they schedule too late for DoDispose is lost.  As in     *)
(* LocalTimeSimulator, an EventImpl is a number given out in the order of  *)
(* creation, an EventId a record, and a failed assertion ends the program. *)
(***************************************************************************)
EXTENDS EventKey, Sequences, FiniteSets

SeqExt == INSTANCE SequencesExt

CONSTANTS
  Node,      \* contexts other than NO_CONTEXT
  NoContext, \* Simulator::NO_CONTEXT
  Delay,     \* the delays callers pass (time steps)
  MaxImpls,  \* bound: EventImpls created
  MaxLives,  \* bound: implementation objects created
  Api        \* the calls this application makes besides Schedule

ASSUME NodeAssumption == NoContext \notin Node
ASSUME DelayAssumption == Delay \subseteq Nat
ASSUME BoundAssumption ==
  /\ MaxImpls \in Nat
  /\ MaxLives \in Nat
  /\ Api \subseteq {"ScheduleNow", "ScheduleWithContext", "Worker", "Cancel",
                    "Remove", "Stop", "ScheduleDestroy"}

VARIABLES
  events,            \* m_events, the Scheduler
  destroyEvents,     \* m_destroyEvents
  uid,               \* m_uid
  currentUid,        \* m_currentUid
  currentTs,         \* m_currentTs
  currentContext,    \* m_currentContext
  unscheduledEvents, \* m_unscheduledEvents
  stop,              \* m_stop
  eventsWithContext, \* m_eventsWithContext, filled by other threads
  life,              \* which implementation object this is, from 1 on
  impls,             \* EventImpls created so far
  refs,              \* references to it the lists of the simulator own
  cancelled,         \* EventImpl::m_cancel
  phase,             \* where the main thread is
  running,           \* the EventImpl being invoked, or 0
  fault,             \* the assertion that ended the program, or "None"
  handles,           \* history: EventIds the application holds
  ran,               \* history: EventImpls whose code was executed
  revoked,           \* history: EventImpls cancelled or removed when pending
  disposed,          \* history: EventImpls thrown away at the end of a life
  late               \* history: those that came too late for DoDispose

queueVars == <<events, uid, unscheduledEvents>>
currentVars == <<currentUid, currentTs, currentContext>>
historyVars == <<handles, ran, revoked, disposed, late>>
vars == <<queueVars, destroyEvents, currentVars, stop, eventsWithContext,
          life, impls, refs, cancelled, phase, running, fault, historyVars>>

Context == Node \cup {NoContext}
EventId == [uid : Nat, ts : Nat, ctx : Context, impl : Nat]
ImplId == 1..MaxImpls
FirstUid == 4
DestroyUid == 2

-----------------------------------------------------------------------------
\* Queries.

\* Wrong: a destroy event is looked up by its time stamp.
IsExpiredForgetsDestroy(id) ==
  \/ id.ts < currentTs
  \/ id.ts = currentTs /\ id.uid <= currentUid
  \/ id.impl \in cancelled

IsExpired(id) ==
  IF id.uid = DestroyUid
  THEN id.impl \in cancelled \/ id \notin SeqExt!ToSet(destroyEvents)
  ELSE \/ id.ts < currentTs
       \/ id.ts = currentTs /\ id.uid <= currentUid
       \/ id.impl \in cancelled

\* What will be executed: by Run when its time comes, or by Destroy.
Pending == {e \in events : e.impl \notin cancelled}
PendingImpls == {e.impl : e \in Pending}
DestroyImpls == {e.impl : e \in SeqExt!ToSet(destroyEvents)} \ cancelled

\* Main-thread code outside the simulator runs.
CallerRuns == /\ fault = "None"
              /\ phase \in {"ready", "event", "destroyEvent"}

Fault(what) == /\ fault' = what
               /\ UNCHANGED <<queueVars, destroyEvents, currentVars, stop,
                    eventsWithContext, life, impls, refs, cancelled, phase,
                    running, historyVars>>

-----------------------------------------------------------------------------
\* The Schedule functions.

\* The entry takes over the caller's reference to the EventImpl.
InsertEvent(e) ==
  /\ events' = events \cup {e}
  /\ refs' = [refs EXCEPT ![e.impl] = @ + 1]
  /\ uid' = uid + 1
  /\ unscheduledEvents' = unscheduledEvents + 1

ScheduleAt(ts) ==
  LET e == [uid |-> uid, ts |-> ts, ctx |-> currentContext, impl |-> impls + 1]
  IN  /\ CallerRuns
      /\ impls < MaxImpls
      /\ InsertEvent(e)
      /\ impls' = impls + 1
      /\ handles' = handles \cup {e}
      /\ UNCHANGED <<destroyEvents, currentVars, stop, eventsWithContext, life,
           cancelled, phase, running, fault, ran, revoked, disposed, late>>

Schedule == \E d \in Delay : ScheduleAt(currentTs + d)

ScheduleNow == "ScheduleNow" \in Api /\ ScheduleAt(currentTs)

\* ScheduleWithContext on the main thread; the caller gets no EventId.
ScheduleWithContext ==
  /\ "ScheduleWithContext" \in Api
  /\ CallerRuns
  /\ impls < MaxImpls
  /\ \E ctx \in Node, d \in Delay :
       InsertEvent([uid |-> uid, ts |-> currentTs + d, ctx |-> ctx,
                    impl |-> impls + 1])
  /\ impls' = impls + 1
  /\ UNCHANGED <<destroyEvents, currentVars, stop, eventsWithContext, life,
       cancelled, phase, running, fault, historyVars>>

\* ScheduleWithContext on any other thread, at any moment while an object
\* exists (with none, the call would create one and make its thread the main
\* thread of that).
WorkerScheduleWithContext ==
  /\ "Worker" \in Api
  /\ fault = "None"
  /\ phase # "deleted"
  /\ impls < MaxImpls
  /\ \E ctx \in Node, d \in Delay :
       eventsWithContext' = Append(eventsWithContext,
                              [ctx |-> ctx, delay |-> d, impl |-> impls + 1])
  /\ impls' = impls + 1
  /\ refs' = [refs EXCEPT ![impls + 1] = @ + 1]
  /\ late' = IF phase = "disposing" THEN late \cup {impls + 1} ELSE late
  /\ UNCHANGED <<queueVars, destroyEvents, currentVars, stop, life, cancelled,
       phase, running, fault, handles, ran, revoked, disposed>>

\* The EventId of a destroy event has the uid 2 and the current time; m_uid is
\* incremented all the same.
ScheduleDestroy ==
  LET id == [uid |-> DestroyUid, ts |-> currentTs, ctx |-> NoContext,
             impl |-> impls + 1]
  IN  /\ "ScheduleDestroy" \in Api
      /\ CallerRuns
      /\ impls < MaxImpls
      /\ destroyEvents' = Append(destroyEvents, id)
      /\ uid' = uid + 1
      /\ impls' = impls + 1
      /\ refs' = [refs EXCEPT ![id.impl] = @ + 1]
      /\ handles' = handles \cup {id}
      /\ UNCHANGED <<events, unscheduledEvents, currentVars, stop,
           eventsWithContext, life, cancelled, phase, running, fault, ran,
           revoked, disposed, late>>

-----------------------------------------------------------------------------
\* Cancel, Remove, Stop.

Cancel ==
  /\ "Cancel" \in Api
  /\ CallerRuns
  /\ \E id \in handles :
       /\ cancelled' = IF IsExpired(id) THEN cancelled
                       ELSE cancelled \cup {id.impl}
       /\ revoked' = revoked \cup ({id.impl} \cap (PendingImpls \cup DestroyImpls))
  /\ UNCHANGED <<queueVars, destroyEvents, currentVars, stop,
       eventsWithContext, life, impls, refs, phase, running, fault, handles,
       ran, disposed, late>>

\* One of the Remove methods of the scheduler.
TakeOut(e) ==
  /\ events' = events \ {e}
  /\ unscheduledEvents' = unscheduledEvents - 1

\* The first equal destroy event is erased from its list, and not marked as
\* cancelled.
RemoveDestroyEvent(id) ==
  /\ \/ \E k \in DOMAIN destroyEvents :
          /\ destroyEvents[k] = id
          /\ \A j \in 1..(k - 1) : destroyEvents[j] # id
          /\ destroyEvents' = SeqExt!RemoveAt(destroyEvents, k)
          /\ refs' = [refs EXCEPT ![id.impl] = @ - 1]
     \/ /\ id \notin SeqExt!ToSet(destroyEvents)
        /\ UNCHANGED <<destroyEvents, refs>>
  /\ revoked' = revoked \cup ({id.impl} \cap DestroyImpls)
  /\ UNCHANGED <<queueVars, currentVars, stop, eventsWithContext, life, impls,
       cancelled, phase, running, fault, handles, ran, disposed, late>>

\* Wrong: the EventImpl is not released.
RemoveEventLeaks(id) ==
  IF id \notin events
  THEN Fault("NoSuchEvent")
  ELSE /\ TakeOut(id)
       /\ cancelled' = cancelled \cup {id.impl}
       /\ revoked' = revoked \cup ({id.impl} \cap PendingImpls)
       /\ UNCHANGED <<uid, destroyEvents, currentVars, stop,
            eventsWithContext, life, impls, refs, phase, running, fault,
            handles, ran, disposed, late>>

\* A scheduler that does not hold the event asserts.
RemoveEvent(id) ==
  IF id \notin events
  THEN Fault("NoSuchEvent")
  ELSE /\ TakeOut(id)
       /\ refs' = [refs EXCEPT ![id.impl] = @ - 1]
       /\ cancelled' = cancelled \cup {id.impl}
       /\ revoked' = revoked \cup ({id.impl} \cap PendingImpls)
       /\ UNCHANGED <<uid, destroyEvents, currentVars, stop,
            eventsWithContext, life, impls, phase, running, fault, handles,
            ran, disposed, late>>

Remove ==
  /\ "Remove" \in Api
  /\ CallerRuns
  /\ \E id \in handles :
       IF id.uid = DestroyUid
       THEN RemoveDestroyEvent(id)
       ELSE ~IsExpired(id) /\ RemoveEvent(id)

Stop ==
  /\ "Stop" \in Api
  /\ CallerRuns
  /\ ~stop
  /\ stop' = TRUE
  /\ UNCHANGED <<queueVars, destroyEvents, currentVars, eventsWithContext,
       life, impls, refs, cancelled, phase, running, fault, historyVars>>

-----------------------------------------------------------------------------
\* Run and ProcessOneEvent.

\* The other threads' events, their time counted from the current event's.
Batch ==
  {[uid  |-> uid + i - 1,
    ts   |-> currentTs + eventsWithContext[i].delay,
    ctx  |-> eventsWithContext[i].ctx,
    impl |-> eventsWithContext[i].impl] : i \in DOMAIN eventsWithContext}

ProcessEventsWithContext ==
  /\ events' = events \cup Batch
  /\ uid' = uid + Len(eventsWithContext)
  /\ unscheduledEvents' = unscheduledEvents + Len(eventsWithContext)
  /\ eventsWithContext' = <<>>

Run ==
  /\ CallerRuns
  /\ phase = "ready"
  /\ ProcessEventsWithContext
  /\ stop' = FALSE
  /\ phase' = "loop"
  /\ UNCHANGED <<destroyEvents, currentVars, life, impls, refs, cancelled,
       running, fault, historyVars>>

RunReturns ==
  /\ fault = "None"
  /\ phase = "loop"
  /\ events = {} \/ stop
  /\ IF events = {} /\ unscheduledEvents # 0
     THEN Fault("LostEvent")
     ELSE /\ phase' = "ready"
          /\ UNCHANGED <<queueVars, destroyEvents, currentVars, stop,
               eventsWithContext, life, impls, refs, cancelled, running,
               fault, historyVars>>

\* EventImpl::Invoke runs the code unless the EventImpl is cancelled.
InvokedAs(impl, codeRuns, codeSkipped) ==
  /\ running' = impl
  /\ IF impl \in cancelled
     THEN phase' = codeSkipped /\ ran' = ran
     ELSE phase' = codeRuns /\ ran' = ran \cup {impl}

\* Scheduler::RemoveNext returns the first event of the queue.
ProcessOneEvent ==
  /\ fault = "None"
  /\ phase = "loop"
  /\ ~stop
  /\ \E next \in events :
       /\ IsFirst(next, events)
       /\ IF next.ts < currentTs
          THEN Fault("TimeRunsBack")
          ELSE /\ TakeOut(next)
               /\ currentTs' = next.ts
               /\ currentContext' = next.ctx
               /\ currentUid' = next.uid
               /\ InvokedAs(next.impl, "event", "skipped")
               /\ UNCHANGED <<uid, destroyEvents, stop, eventsWithContext,
                    life, impls, refs, cancelled, fault, handles, revoked,
                    disposed, late>>

\* The rest of ProcessOneEvent, once the event's code has returned.
EventReturns ==
  /\ fault = "None"
  /\ phase \in {"event", "skipped"}
  /\ ProcessEventsWithContext
  /\ phase' = "loop"
  /\ running' = 0
  /\ refs' = [refs EXCEPT ![running] = @ - 1]
  /\ UNCHANGED <<destroyEvents, currentVars, stop, life, impls, cancelled,
       fault, historyVars>>

-----------------------------------------------------------------------------
\* Simulator::Destroy, called between two calls of Run.

Destroy ==
  /\ CallerRuns
  /\ phase = "ready"
  /\ phase' = "destroying"
  /\ UNCHANGED <<queueVars, destroyEvents, currentVars, stop,
       eventsWithContext, life, impls, refs, cancelled, running, fault,
       historyVars>>

\* Wrong: the list is cleared with the first event taken from it.
NextDestroyEventClears ==
  /\ InvokedAs(destroyEvents[1].impl, "destroyEvent", "destroySkipped")
  /\ destroyEvents' = <<>>

\* Wrong: last in, first out.
NextDestroyEventLifo ==
  /\ InvokedAs(SeqExt!Last(destroyEvents).impl, "destroyEvent", "destroySkipped")
  /\ destroyEvents' = SeqExt!Front(destroyEvents)

NextDestroyEvent ==
  /\ InvokedAs(destroyEvents[1].impl, "destroyEvent", "destroySkipped")
  /\ destroyEvents' = Tail(destroyEvents)

\* One turn of the loop of DefaultSimulatorImpl::Destroy.
ProcessOneDestroyEvent ==
  /\ fault = "None"
  /\ phase = "destroying"
  /\ destroyEvents # <<>>
  /\ NextDestroyEvent
  /\ UNCHANGED <<queueVars, currentVars, stop, eventsWithContext, life, impls,
       refs, cancelled, fault, handles, revoked, disposed, late>>

DestroyEventReturns ==
  /\ fault = "None"
  /\ phase \in {"destroyEvent", "destroySkipped"}
  /\ phase' = "destroying"
  /\ running' = 0
  /\ refs' = [refs EXCEPT ![running] = @ - 1]
  /\ UNCHANGED <<queueVars, destroyEvents, currentVars, stop,
       eventsWithContext, life, impls, cancelled, fault, historyVars>>

\* DoDispose takes over what other threads have scheduled so far.
DoDispose ==
  /\ fault = "None"
  /\ phase = "destroying"
  /\ destroyEvents = <<>>
  /\ ProcessEventsWithContext
  /\ phase' = "disposing"
  /\ UNCHANGED <<destroyEvents, currentVars, stop, life, impls, refs,
       cancelled, running, fault, historyVars>>

\* One turn of its loop: the next event is released, and nothing counts it.
DisposeNext ==
  /\ fault = "None"
  /\ phase = "disposing"
  /\ \E next \in events :
       /\ IsFirst(next, events)
       /\ events' = events \ {next}
       /\ refs' = [refs EXCEPT ![next.impl] = @ - 1]
       /\ disposed' = disposed \cup {next.impl}
  /\ UNCHANGED <<uid, unscheduledEvents, destroyEvents, currentVars, stop,
       eventsWithContext, life, impls, cancelled, phase, running, fault,
       handles, ran, revoked, late>>

\* Wrong: the list of the other threads' events outlives the object.
DeleteKeepsList ==
  /\ fault = "None"
  /\ phase = "disposing"
  /\ events = {}
  /\ disposed' = disposed \cup {eventsWithContext[k].impl :
                                 k \in DOMAIN eventsWithContext}
  /\ phase' = "deleted"
  /\ UNCHANGED <<queueVars, destroyEvents, currentVars, stop,
       eventsWithContext, life, impls, refs, cancelled, running, fault, handles,
       ran, revoked, late>>

\* The object is deleted, with what other threads have scheduled since: the
\* list goes, the references it held are never given back.
Delete ==
  /\ fault = "None"
  /\ phase = "disposing"
  /\ events = {}
  /\ disposed' = disposed \cup {eventsWithContext[k].impl :
                                 k \in DOMAIN eventsWithContext}
  /\ eventsWithContext' = <<>>
  /\ phase' = "deleted"
  /\ UNCHANGED <<queueVars, destroyEvents, currentVars, stop, life, impls, refs,
       cancelled, running, fault, handles, ran, revoked, late>>

\* The application's next call creates another object.
GetImpl ==
  /\ fault = "None"
  /\ phase = "deleted"
  /\ life < MaxLives
  /\ uid' = FirstUid
  /\ currentUid' = 0
  /\ currentTs' = 0
  /\ currentContext' = NoContext
  /\ unscheduledEvents' = 0
  /\ stop' = FALSE
  /\ life' = life + 1
  /\ phase' = "ready"
  /\ UNCHANGED <<events, destroyEvents, eventsWithContext, impls, refs,
       cancelled, running, fault, historyVars>>

-----------------------------------------------------------------------------
Init ==
  /\ events = {}
  /\ destroyEvents = <<>>
  /\ uid = FirstUid
  /\ currentUid = 0
  /\ currentTs = 0
  /\ currentContext = NoContext
  /\ unscheduledEvents = 0
  /\ stop = FALSE
  /\ eventsWithContext = <<>>
  /\ life = 1
  /\ impls = 0
  /\ refs = [i \in ImplId |-> 0]
  /\ cancelled = {}
  /\ phase = "ready"
  /\ running = 0
  /\ fault = "None"
  /\ handles = {}
  /\ ran = {}
  /\ revoked = {}
  /\ disposed = {}
  /\ late = {}

Next ==
  \/ Schedule
  \/ ScheduleNow
  \/ ScheduleWithContext
  \/ WorkerScheduleWithContext
  \/ ScheduleDestroy
  \/ Cancel
  \/ Remove
  \/ Stop
  \/ Run
  \/ RunReturns
  \/ ProcessOneEvent
  \/ EventReturns
  \/ Destroy
  \/ ProcessOneDestroyEvent
  \/ DestroyEventReturns
  \/ DoDispose
  \/ DisposeNext
  \/ Delete
  \/ GetImpl

\* The loops of Run and Destroy keep going and the code of an event returns;
\* callers are free to call nothing at all.
Fairness == /\ WF_vars(RunReturns)
            /\ WF_vars(ProcessOneEvent)
            /\ WF_vars(EventReturns)
            /\ WF_vars(ProcessOneDestroyEvent)
            /\ WF_vars(DestroyEventReturns)
            /\ WF_vars(DoDispose)
            /\ WF_vars(DisposeNext)
            /\ WF_vars(Delete)

Spec == Init /\ [][Next]_vars
FairSpec == Spec /\ Fairness

-----------------------------------------------------------------------------
(***************************************************************************)
(* Properties.                                                             *)
(***************************************************************************)

\* Every variable has its type.
TypeOK ==
  /\ events \subseteq EventId
  /\ destroyEvents \in Seq(EventId)
  /\ uid \in Nat /\ currentUid \in Nat /\ currentTs \in Nat
  /\ currentContext \in Context
  /\ unscheduledEvents \in Int
  /\ stop \in BOOLEAN
  /\ eventsWithContext \in Seq([ctx : Node, delay : Nat, impl : Nat])
  /\ life \in Nat /\ impls \in Nat /\ running \in Nat
  /\ refs \in [ImplId -> Int]
  /\ phase \in {"ready", "loop", "event", "skipped", "destroying",
                "destroyEvent", "destroySkipped", "disposing", "deleted"}
  /\ fault \in {"None", "NoSuchEvent", "LostEvent", "TimeRunsBack"}
  /\ handles \subseteq EventId
  /\ cancelled \cup ran \cup revoked \cup disposed \cup late \subseteq Nat

\* Nothing in the queue is late, and no two entries have the same uid.
QueueAhead ==
  /\ currentUid < uid
  /\ \A e \in events :
       /\ e.uid < uid
       /\ e.ts > currentTs \/ (e.ts = currentTs /\ e.uid > currentUid)
  /\ \A e, f \in events : e.uid = f.uid => e = f

\* m_unscheduledEvents counts the queue, until DoDispose empties that.
CountsTheQueue ==
  phase \notin {"disposing", "deleted"} => unscheduledEvents = Cardinality(events)

\* No assertion of the simulator ends the program, in its first life: time and
\* uids start over after Destroy, and Remove of an EventId kept from before
\* may look for an event that is not there.
NoFault == life = 1 => fault = "None"

\* The application can tell from an EventId, destroy events included, whether
\* its activity is still to be executed (simulator.h, lines 1243 to 1259), as
\* long as the simulator was not destroyed: see NoFault.
ExpiredIffGone ==
  CallerRuns /\ life = 1 =>
  \A id \in handles :
    IsExpired(id) <=> id.impl \notin PendingImpls \cup DestroyImpls

\* EventImpls whose pointers were destroyed with m_eventsWithContext.
Leaked == late \ {eventsWithContext[k].impl : k \in DOMAIN eventsWithContext}

\* The lists own one reference to an EventImpl per entry that holds it (the
\* event being executed included), in this life or an earlier one: nothing is
\* freed early, and nothing leaks but what another thread has scheduled between
\* the last ProcessEventsWithContext, in DoDispose, and the deletion of the
\* object, whose list is then destroyed with the pointers in it.
RefsMatchEntries ==
  \A i \in ImplId :
    refs[i] = Cardinality({e \in events : e.impl = i})
              + Cardinality({k \in DOMAIN eventsWithContext :
                               eventsWithContext[k].impl = i})
              + Cardinality({k \in DOMAIN destroyEvents :
                               destroyEvents[k].impl = i})
              + (IF running = i THEN 1 ELSE 0)
              + (IF i \in Leaked THEN 1 ELSE 0)

\* The queue, its counter, the references and the position of the simulator
\* in the queue agree, from one life to the next.
Consistent ==
  TypeOK /\ QueueAhead /\ CountsTheQueue /\ NoFault /\ RefsMatchEntries

\* Destroy executes the destroy events in the order they were scheduled in,
\* each once, nothing else, and none that was cancelled or removed.
DestroyInOrder ==
  [][phase = "destroying" /\ phase' = "destroyEvent" =>
       /\ running' \in DestroyImpls \ (ran \cup revoked \cup disposed)
       /\ \A i \in DestroyImpls : running' <= i]_vars

\* Once Destroy was called it returns, and every destroy event was executed
\* or revoked on the way, unless an assertion ends the program (which takes a
\* Remove of an EventId from an earlier life: see NoFault).
DestroyCompletes ==
  \A i \in ImplId :
    (phase = "destroying" /\ i \in DestroyImpls) ~>
      (phase = "deleted" /\ i \in ran \cup revoked) \/ fault # "None"

\* An EventImpl that is or was a destroy event.
OfDestroy(i) == \E id \in handles : id.impl = i /\ id.uid = DestroyUid

\* The lives of the simulator implement one abstract event simulation, the
\* clock of which starts over from life to life: what was cancelled, removed or
\* thrown away at the end of a life is executed neither then nor in a later
\* one, and nothing is executed twice.
Sim == INSTANCE EventSimulation WITH
         Activity <- ImplId,
         now <- currentTs,
         pending <- {[act |-> e.impl, due |-> e.ts, ticket |-> e.uid] :
                       e \in Pending},
         issued <- uid,
         done <- {i \in ran : ~OfDestroy(i)},
         dropped <- {i \in revoked \cup disposed : ~OfDestroy(i)}

ImplementsSimulation ==
  Sim!SimInit /\ [][Sim!SimNext \/ Sim!Forget \/ Sim!Restart]_(Sim!simVars)
=============================================================================
