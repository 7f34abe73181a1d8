# ns-3 with local clocks: models, checks and proofs

This directory is a verification development for the simulators of this
repository: ns-3's event core (`src/src/core`), the module this repository adds
to it, local clocks for nodes (`src/src/clock`), its parallel simulators
(`src/src/mpi`), and the runner of its tests (`src/test.py`). It holds TLA+ modules translated
from the source, TLC configurations that check them on small instances, and
TLAPS proofs for every value of the constants. `PROJECT.json` lists the runs, the
source lines each definition stands for, the hazards the properties are aimed
at, and the theorems.

Paths below start at the root of the repository. In the modules a definition
commented `Wrong:` is a deliberate bug, kept next to the correct definition it
varies; each property is shown to notice at least one of them.

## 1. Inventory

### The system

A program builds a scenario, calls `Simulator::Run`, and ends with
`Simulator::Destroy`. `Simulator` forwards to one `SimulatorImpl` object, which
takes events (`EventImpl`, a piece of code with a cancel flag and a reference
count) and keeps them in a `Scheduler` (an event list) sorted by time stamp and
uid. The code of an event calls back into the simulator. Callers hold
`EventId`s: the EventImpl, its time stamp, its context (a node, or none) and
its uid. There are five implementations of `SimulatorImpl`: the default one,
one whose nodes have clocks of their own, one in step with the wall clock, and
two that share a scenario between MPI processes (ranks).

| Component | State | Operations | What makes it correct |
|---|---|---|---|
| `LocalTimeSimulatorImpl` (`clock/model`) | event list, uid counter, current event's time, uid and context, count of unscheduled events, stop flag, map of superseded uids, other threads' queue | Schedule, ScheduleNow, ScheduleWithContext (main thread, other threads), ScheduleDestroy, Cancel, Remove, IsExpired, GetDelayLeft, CancelRescheduling, Run, Stop, Destroy | events execute once, in order, when their local delay has elapsed on their node's clock; a clock update moves an activity without doubling or losing it; stale EventIds keep meaning the activity |
| `LocalClock` (one per node) | clock model, list of the node's EventIds | SetClock, ReSchedule, InsertEvent, conversions | the list holds every pending event of the node, so that an update finds it |
| `PerfectClockModelImpl` | frequency, offset | conversions between local and global time and delays | a timer fires on time on its own clock; positive delays stay positive; "now" is now |
| `DefaultSimulatorImpl` (`core/model`) | as the first, without the map; destroy events | the same, DoDispose | the same with global time; destroy events run in order and once; nothing leaks or is freed early, across Destroy and restart |
| `HeapScheduler`, `CalendarScheduler`, `ListScheduler`, `MapScheduler` | an event list | Insert, PeekNext, RemoveNext, Remove | RemoveNext returns the earliest event, nothing is lost |
| `RealtimeSimulatorImpl`, `WallClockSynchronizer`, `SystemCondition` | event list under a mutex, stop and running flags, wall-clock origin, condition | scheduling by any thread, Run, Stop, Remove; SetOrigin, Synchronize, Signal, SpinWait, TimedWait | no event before its wall-clock time, no lost wake-up, no wait past an event that came meanwhile |
| `DistributedSimulatorImpl`, `GrantedTimeWindowMpiInterface` (`mpi/model`) | per rank: event list, look-ahead, granted time, counts of packets | Run (two collectives), Schedule, Stop, SetMaximumLookAhead, SendPacket, ReceiveMessages | no rank is granted a time past a packet in flight; all ranks leave Run together, with nothing in flight |
| `NullMessageSimulatorImpl`, `NullMessageMpiInterface`, `RemoteChannelBundle` | per rank: event list, safe time; per neighbour: guarantee, event of the next null message | the same; SendNullMessage, blocking and polling receives | guarantees are kept; nobody waits for ever |
| `test.py` | two queues, worker threads, jobs, the flag set by SIGINT | dispatch, execute, collect, join | no job is lost or counted twice; 0 is returned only if every test passed or was skipped |
| `Watchdog` (`core/model`) | an end time, an EventId | ping, expire | invoked once, at the latest end |
| `Timer`, `EventGarbageCollector` | an EventId or a set of them | schedule, suspend, resume, track | fire once, at the last set time |
| The network library (internet, wifi, lte, routing, ...) | the simulated systems | many | what ns-3 users study; it rests on all of the above |

### How they interact

The simulators call the event list; the event's code calls the simulator.
`LocalClock::SetClock` calls back into `LocalTimeSimulatorImpl` once per event of
its node. Other threads share the queue of events with contexts (default, local
time) or the event list itself (realtime) under a mutex; the realtime simulator
and its synchronizer also share a condition that is written without one. Ranks
share nothing: packets that leave a rank on a remote point-to-point channel are
MPI messages, and either two collectives per window (granted time windows) or
promises that travel with the messages (null messages) tell a rank how far it may go.
The main thread of `test.py` and its workers share two queues, the jobs that
travel through them, and the flag `thread_exit`.

### What is hard

* **Clock updates.** `LocalClock::SetClock` cannot cancel the old event (its
  EventImpl must live on), so the old entry stays in the event list, a new one
  is added, and a map leads from the old uid to the new EventId. IsExpired,
  Cancel and ProcessOneEvent consult it, Remove and GetDelayLeft do not, and
  the map forgets entries by a test on time. Chains of updates, updates between
  scheduling and cancelling, and updates made in another node's context all go
  through this.
* **Rounding.** Local and global times are integers; the two conversions round
  differently.
* **Threads.** Any thread may call ScheduleWithContext at any moment, also
  while the main thread is between two calls of Run, in Destroy, or in DoDispose.
* **Order of calls.** Cancel, Remove and Stop inside events, destroy events
  that schedule or remove destroy events, a second life after Destroy.
* **Data structures.** Removal from the middle of a heap; a calendar that
  resizes itself, using its own RemoveNext and Insert, in the middle of an
  operation.
* **Real time.** The main thread sleeps without the mutex, in four different
  places, until a time that another thread makes obsolete; the flag that is to
  wake it is set without the lock under which it is read.
* **Processes.** A packet may be in flight while its receiver decides how far to
  go, or whether it has finished; a rank that waits depends on others to speak.
* **Failures.** SIGINT, crashing suites, undecodable output and exceptions in
  worker threads and in the main thread while the jobs are under way.

The complete list, each at its line, is "hazards" in `PROJECT.json`. A hazard
no property covers says why.

## 2. The modules

| Module | Stands for |
|---|---|
| `EventKey` | the order of `Scheduler::EventKey`, shared by all that follows |
| `EventSimulation` | abstract: what any event simulator promises |
| `ParallelSimulation` | abstract: what several ranks promise together |
| `Scheduler` | abstract: what any event list promises |
| `PerfectClock` | the clock's conversions, as operators on integers and a rational frequency |
| `ClockReadings` | a node that reads its clock and sets timers by it |
| `Watchdog` | `Watchdog` on such a node |
| `LocalTimeSimulator` | `LocalTimeSimulatorImpl` with the `LocalClock` of every node; uses PerfectClock |
| `DefaultSimulator` | `DefaultSimulatorImpl` with `Simulator::Destroy` and the next implementation object |
| `HeapScheduler`, `CalendarScheduler` | the two event lists with a structure of their own |
| `EventLists` | both of them under the calls of one simulator |
| `RealtimeSimulator` | `RealtimeSimulatorImpl` with its synchronizer, its condition and other threads |
| `DistributedSimulator` | `DistributedSimulatorImpl` on every rank, with the links between ranks |
| `NullMessageSimulator` | `NullMessageSimulatorImpl` on every rank, with the bundles of channels between ranks |
| `TestRunner` | `run_tests` and the worker threads of `test.py` |
| `..._proofs` | theorems and proofs |
| `MC...` | values of the constants for TLC |

### LocalTimeSimulator

Variables bear the names of the members (`events` for `m_events`, and so on).
An EventImpl is a number; `refs` counts the references the simulator's lists
own, `cancelled` is the set of those whose flag is set. The main thread's
position is `phase`: outside Run (`ready`), at the head of Run's loop (`loop`),
in an event's code (`event`), or in the code after a cancelled event
(`skipped`). The callers' operations are enabled in `ready` and `event`, which
is where application code runs, and each is one action: Schedule with all it
calls (the default clock for a node that has none, the conversion, the purge of
the node's list, the insertion). SetClock is a loop of calls of Schedule and
CancelRescheduling; it is one action for its first part and one
(`RescheduleOne`) per turn of the loop, in the order of the list, during which
the application does not run but another thread may. ProcessOneEvent is split
where the event's code runs: one action up to the invocation, one after it.
Another thread's call is one action, enabled in every phase: everything it
shares with the main thread is under the mutex. The main thread reads the flag
`m_eventsWithContextEmpty` without it; a stale value is the same as the other
thread having come a little later.

Variables marked "history" (`handles`, `ran`, `revoked`, `due`, `updates`) do
not influence the others; properties speak of them. `due` is the exact time,
in fractions of a time step, at which a local delay has elapsed.

`events` is a set, ordered by `EventKey`: list, map, heap and calendar are
meant to be exchangeable, and the last two have modules of their own.
A failed assertion (`NS_ASSERT`, a debug build) sets `fault` and ends the program.

### ClockReadings and Watchdog

A node with one clock that is not updated; global time advances by the steps at which
other events run. `Watchdog` extends it with `m_end` and the time stamp of `m_event` while that is
running; `Ping` and `Expire` are the two methods, and time does not pass an event
that is due. `promised`, the latest time a ping has asked for, is history.

### DefaultSimulator

The same design without clocks, plus the destroy events, `Simulator::Destroy` and
the constructor of the next implementation object, so that there are several
lives. Destroy has the steps between which another thread can act: the destroy events
(`destroying`; each is an action that invokes and one that returns), DoDispose's
take-over of the other threads' batch, each turn of the loop that empties the event list
(`disposing`), the deletion of the object with what has arrived since (`deleted`), and
`GetImpl`, which makes the next one. `late`, a history variable, holds what another
thread has scheduled after DoDispose's take-over; once the object is deleted it is
`Leaked`, as `~DefaultSimulatorImpl` destroys the list of pointers and releases no reference.
`disposed` is what was thrown away unexecuted. `handles` survive a life, as EventIds
in an application do. `simulator.h` says that destroy events cannot be removed or
cancelled; the code has branches for both, and the model follows the code.

### HeapScheduler, CalendarScheduler and EventLists

They are driven by the simulator that uses them: increasing uids, time stamps
not before the current time, RemoveNext followed by the execution of what it
returned. The heap is a sequence whose index 1 is the root, as in the code. A
bucket of the calendar is a set whose front is its first event; the code keeps
it sorted by insertion. A loop over the heap is the function from the number of a
turn to the array and the index before it: `Rise` and `Sink` are the bodies of
BottomUp's and TopDown's loops, and the function's last value is what the loop leaves. 64-bit sums in the width computation are taken modulo
`Word`. `EventLists` calls both at once, with the simulator's position kept once
per list so that a wrong answer of one does not hide in the other, and each list is asked
on after it. Remove is called for any event of either list, as the code lets it be; a list
that has given the event up already does nothing. The heap's Remove may leave the heap out
of order (section 4): `misplaced`, history, collects the events that filled a hole
below a later event, and is empty again when the whole heap is in order. The exchange
of the event list by `SetScheduler` is not modelled.

### RealtimeSimulator

The main thread's position is `main`, one value per place where others can
interfere: between the critical sections of ProcessOneEvent (`plan`, `sync`,
`take`), around the look at the condition in TimedWait (`check`, `checked`),
asleep in pthread_cond_timedwait, in the spin at the end of a wait, in the code
of an event. A critical section is one step, taken when no other thread holds
the mutex; a worker holds it from the insertion of its event until it has
signalled, in three steps: insertion, setting the condition, signal. `checked`
is the window between the look and the sleep, in which the mutex of the
condition variable is held: Signal waits for it, SetCondition does not. One tick
of `clock` is one jiffy, of which the synchronizer leaves three for the spin.
Before SetOrigin the clock reads the time since 1970, which the model calls
`Far`. The wait of a second for an empty queue ends after any number of ticks.

### DistributedSimulator

`phase` is where Run is on a rank; the two collectives are joint actions of all
ranks (`Reduce` for MPI_Allreduce, `Gather` for MPI_Allgather with the decisions
every rank takes from the same data). What a rank may send and when it arrives
come from `PointToPointNetDevice::TransmitStart`: a transmission time, then the
delay of the channel; the interframe gap, 0 unless an attribute sets it, is left out. A packet is in flight from MPI_Isend to the MPI_Testany
that returns it, and MPI_Testany may return any packet or none. The topology is
chosen in Init and stays. A scenario has at least two ranks.

### NullMessageSimulator

Messages of one neighbour keep their order (the code posts one receive at a time
per neighbour), those of different neighbours do not. A message is a record with
its receive time (0 for a null message) and the guarantee it carries. Cancelling
the event of the next null message only marks it; it stays in the list until its
time, as in the code. The script schedules Stop, as those in `src/src/mpi/examples`
do. A failed assertion is not a stop of the model but a property that does not
hold: `GuaranteesKept` implies the assertions in SetGuaranteeTime, CalculateSafeTime
and ScheduleWithContext. Its third part, `WaitsForOneBehind`, is the reason why ranks
do not wait for each other for ever.

### TestRunner

A job is its number in the order of dispatch. The main thread dispatches, puts in
one `Break` per worker, collects as many jobs as it dispatched, and joins the
workers. A worker's turn is split where the program of the test runs. The program
ends with any status, `run_job_synchronously` returns 1 if its output cannot be
decoded, and an exception there ends the worker with its job. `DispatchFails` is an
exception in the loops over the examples (an `eval` of a condition, a configuration variable that
was not set: `test.py:1528`, `:1540`, `:1619`, `:1647`), before any Break was put in. `truth` records how
a test really went, for comparison with what is counted.

### Abstract specifications and refinement

`EventSimulation` knows activities that are pending with a due time and a ticket,
and actions that add, move, drop and execute them; the earliest goes first, each
once. `LocalTimeSimulator` implements it: a superseded entry of the list is
nobody's activity, the entry that supersedes it is the moved activity.
`DefaultSimulator` implements it with all its lives together: two more actions let
time start over when nothing is pending (`Restart`), and give up activities that were never
pending (`Forget`, of what arrives too late for DoDispose). An activity that was dropped stays so, hence what
one life throws away no later one executes. `RealtimeSimulator` implements it
whatever other threads insert during a wait. `Scheduler` is implemented by the
calendar (the union of its buckets) and, while nothing is misplaced, by the heap (its elements
as a set); while something is, the heap's RemoveNext is another step, `RemovesNext`.
`ParallelSimulation` has a time and pending activities per rank; an activity
created for another rank is pending there at once, however long its message
travels, so that executing past a message in flight is a step it does not allow.
Both parallel simulators implement it.

## 3. Runs

| Run | Instance | Shows |
|---|---|---|
| `local_core` | 2 nodes, clocks 1/2 and 2, 3 activities, 1 update, cross-node updates allowed, Cancel | a moved event stands for the old one, its node's list knows every pending event, a cancelled activity never runs, order, count and assertions through skipped entries; implements `EventSimulation` |
| `local_updates` | 1 node, 3 activities, 2 updates, all calls, another thread; fairness | drift of at most one step per update; no reference released early, and balanced without updates; without updates EventIds and GetDelayLeft are exact and no assertion fails; what is pending is executed |
| `clock_readings` | 45 clocks (frequencies 1/4 to 5, offsets -3, 0, 2), delays 0 to 6, times 0 to 8 | timers on time, positive delays accepted, now is now on integral frequencies, moving to the same clock; a watchdog pinged with 1 and 3 keeps its promise |
| `event_lists` | 7 events (3 levels of the heap; 1 to 4 buckets), distances 0, 1, 7 | Remove of any event: heap order up to the misplaced events, the calendar's filing and search state; the calendar implements `Scheduler`, the heap while nothing is misplaced and for what comes before that always |
| `default` | 3 activities, 2 lives, all calls, another thread; fairness | order, count, assertions, references, with exactly what leaks; EventIds tell what is pending; destroy events in order and once, Destroy completes; the lives together implement `EventSimulation`, nothing thrown away is executed later |
| `realtime` | 1 other thread, 3 events, delays 0 and 4, 5 ticks; fairness | nothing early, waits are interrupted, no lost wake-up, an empty queue is slept on, what is due runs, Stop is noticed; implements `EventSimulation` |
| `distributed` | 3 ranks, a line and a rank without links, 2 packets, look-ahead set or not; fairness | windows stop before packets in flight, windows are private, Run returns on all ranks; implements `ParallelSimulation` |
| `null_message` | 3 ranks, a line and none linked, one channel per neighbour, relays; fairness | guarantees kept, whoever waits does so for a rank behind, null messages scheduled, Run returns on all ranks; implements `ParallelSimulation` |
| `test_py` | 2 workers; no job, 1 job, 4 jobs (one skipped, one example); 1 dying worker, exceptions while dispatching and collecting; fairness | jobs are in one place, the value returned is true, nothing is stranded, everything ends but in two places that are named |
| `twice_moved` | 2 updates | finding 1 below |
| `lost_packet` | 3 ranks, 1 packet | finding 2 |
| `null_guarantee` | 2 ranks, 2 channels between them | finding 3 |

**Bounds.** `MaxImpls`, `MaxUpdates`, `MaxLives`, `MaxEvents`, `MaxNow`, `MaxUid`,
`MaxPackets`, `MaxCalls` and `MaxDeaths` only bound how often callers call; they
are in the guards of the callers' actions. `MaxTime` bounds the ticks of the wall
clock. Three activities are the least with which one can be executing, one be
moved and one be superseded at the same time, or one be in the queue, one in the
batch and one in the destroy list; two updates give chains in the map; two lives
are enough for stale EventIds; seven events make three levels of the heap and
take the calendar through growth (at the fifth event) and both sizes below.
Delays are odd, so that halving them rounds. In real time a delay of 4 is the
least that sleeps (three ticks are left for the spin), a delay of 0 overtakes it,
and the third event comes from whoever is late. Two packets are a packet and its
relay, or two that overtake each other; three ranks are the least with one that
is not a neighbour, and events two apart on links of delay 1 leave room for a
packet to arrive between them. The bounded callers are why the cfgs say `CHECK_DEADLOCK FALSE`:
when the budget is spent and Run has returned, the program has ended.
In `clock_readings` the program ends where an assertion fails.

**Fairness.** Weak fairness of the main thread's own steps everywhere: the loops
of Run, SetClock and Destroy take their next turn, and the code of an event
returns. The loops are `while` loops of one thread; the code of a model's event
that does not return is that model's fault. Nothing is assumed of callers and
other threads before they call: they may never do so. In real time, time passes
and a worker that has begun to signal goes on, since the operating system runs every thread.
Between ranks, MPI completes a message that was sent if its receiver tests for it
again and again: strong fairness per rank, since a rank that polls may be told
"none" any number of times; a rank that blocks in MPI_Waitany is served under
weak fairness. In `test.py` the threads run and the programs of the tests end (they
have no time limit; a test that hangs does hang it).
No fairness is asked of exceptions. `PendingRuns` ends in "executed, revoked, stopped or an assertion failed".
`EverythingEnds` names the two states in which test.py waits for ever: run_tests for the job
of a worker that died, everything else having been run and collected, and the
workers for Breaks after an exception while dispatching, having run all that was dispatched.

## 4. Findings

1. *twice_moved* (`localtime-simulator-impl.cc:153`). The entry of the map is
   dropped when the EventId it leads to lies in the past, but that EventId may
   itself be superseded. With two updates the application's EventId is then
   expired although its activity is pending; a Cancel through it has no effect.
   With one update this cannot happen.
2. *lost_packet* (`distributed-simulator-impl.cc:409`). The ranks compare what was
   sent with what was received before they move the window, but not before
   they leave Run. If every event list is empty while the last packet is in flight,
   they all leave, nobody having called Stop, and the packet is lost. `RunReturns`
   and the safety of windows are unaffected.
3. *null_guarantee* (`null-message-simulator-impl.cc:591`). The guarantee sent with a
   packet is computed from the next event in the list; the event that is
   executing has left the list and may still transmit on another channel to the
   same neighbour. With one channel per neighbour the device is busy until the
   end of the transmission, which is in the list, and the guarantee holds (`null_message`).

Differences between code and documentation that the model exposes without a run
of their own:

* A superseded entry is taken from the list without releasing its reference to
  the EventImpl (`localtime-simulator-impl.cc:157`, against `scheduler.h:62-65`); `RefsMatchEntries`
  demands equality only while no clock has been updated.
* On a clock slower than global time ScheduleNow can compute a global delay of
  -1, which an assertion refuses (`localtime-simulator-impl.cc:310`). `DelaysAccepted`
  proves that integral frequencies are safe and that no positive delay is affected. The clocks of `local_updates` come by updates only,
  before which `PromisesKept` demands that no assertion fails.
* `HeapScheduler::Remove` only sifts the element that fills the hole down
  (`heap-scheduler.cc:239`). When it comes before the hole's parent it should rise, and
  RemoveNext may then return an event that is not the earliest, against
  `scheduler.h:122-129`. Seven inserts and four removals suffice: insert at times a = 0, b = 7, c = 0,
  d = 7, e = 7, f = 7 and g = 1; the array is then a b c d e f g, with g below c. Remove d, a child of b: g fills
  the hole and stays below b. RemoveNext returns a and then c, after which b is the root
  and the third RemoveNext returns b at 7 while g, due at 1, is inside. The model has this step,
  and the properties say how far it goes: the heap is right while nothing is
  `misplaced`, and always right about the events before the misplaced ones. It loses nothing.
* What another thread schedules between DoDispose's ProcessEventsWithContext and the
  deletion of the simulator is destroyed as a pointer and leaks
  (`default-simulator-impl.cc:88`, `:266-279`). `RefsMatchEntries` counts such references as
  `Leaked`, and shows that no other is lost.
* An exception in the loops of `test.py` that dispatch the examples leaves run_tests before the
  Breaks of lines 1689 to 1692 are put into the queue: the workers, which are not daemons, then wait in
  `input_queue.get ()` and keep the process (`LeftBehind`). After an exception
  in the loop that collects they end.
* GetDelayLeft and Remove of an EventId that a clock update moved look at the old
  time stamp (`localtime-simulator-impl.cc:384`, `:413`); IsExpired may be false of an
  executed activity after an update, once the map has forgotten the EventId whose
  own time stamp still lies ahead (`:153`).
* `watchdog.h:45-49` promises that the function is invoked when the end is reached. `Ping`
  and `Expire` schedule the difference of two global times as a local delay
  (`watchdog.cc:58`, `:71`). `WatchdogKept` shows the promise kept on clocks of frequency 1; on a
  faster clock Expire may reschedule itself at the same time for ever (frequency 5, one
  step to go), on a slower one it comes after the end and schedules a negative
  delay, which an assertion refuses.
* An event without context runs in the context of the event before it (`:170`,
  against `doc/manual/source/events.rst:133-142`).
* Events are rescheduled through the clock of the node whose code updates the clock,
  whatever node it belongs to (`local-clock.cc:169`); `DriftPerUpdate` is checked and proved for
  nodes that update their own clocks.
* `perfect-clock-model-impl.h:34` calls a clock of frequency 2 slower than global
  time, while the code and line 35 make it faster.
* EventIds kept across Destroy may compare as pending again
  (`default-simulator-impl.cc:391`), and Remove of one may fail an assertion.
* After a Remove of the realtime simulator's only event its condition stays true, and the
  loop spins on the wait that the code calls "Sleep until signalled"
  (`realtime-simulator-impl.cc:437`, `:461`).
* An event that another thread schedules between `m_running = true` and SetOrigin
  is due at the time since 1970 (`realtime-simulator-impl.cc:434-435`).
* `test.py:1817` says that return codes 0 to 2 mean a valid XML file; a suite that
  crashed with undecodable output has return code 1 and perhaps no file, and
  run_tests ends by an exception (`:814-824`, `:1838`).

## 5. Proofs

Checked by TLAPS for every value of the constants, from the named assumptions
only (`Node`, `Clock`, `Delay` of the stated kinds, natural bounds; delays are
not negative, clocks have positive rational frequencies; links have the same
positive delay both ways).

**LocalTimeSimulator_proofs.** `Consistency`: `Spec => []Consistent`, that is the
types (`TypeCorrect`), the order (`NothingLate`), the count (`NothingLost`) and the
assertions (`AssertionsNeverFail`), and besides it `ExecutionInOrder`. The type part of
the inductive invariant, `TypeInv`, is stronger than `TypeOK`: it ties a
clock that is not there to a list that is empty and keeps SetClock's local
variables consistent, so that the conversions are only applied to real clocks.
The order alone is not inductive: `IInv == TypeInv /\ QueueOK` adds that uids of
entries are below the counter, that no uid is given out twice (an entry taken
out leaves no twin), that a batch of another thread takes fresh consecutive
uids, and, for the count, that the list is finite and each insertion is new.
ProcessOneEvent takes the first entry, so the rest comes after the new current
event; a skipped entry changes nothing the order refers to. The assertions
follow: no entry is late, and an empty list is counted as 0.

What clock updates do to EventIds rests on the map from old uids to new EventIds.
In it uids grow and stay below the counter (`MapInv`), so a chain of updates ends and
the recursive function in IsExpired has a solution (`ExpiredExists`, `ExpiredFollows`; by induction on a
set of naturals). `EntryInv` then adds that an EventImpl is given out once, is in
the other threads' list or in the queue but not both, and has one entry that is not
superseded; and that the lists of the clocks hold no superseded EventId. This
gives `OneEntry` and `NothingUntracked`, for any number of updates. What the
*application's* EventIds say is true only up to one update: with two the map may
have forgotten the first step, which is the finding of run `twice_moved`. Hence
`PendingAlive` assumes `MaxUpdates <= 1`, and `RevokedStaysRevoked` and the refinement
`Implementation` assume `CancelWorks`: at most one update, or an application that revokes
by Remove, which does not ask IsExpired. The hypothesis is where the code stops
keeping its promise, not where the proof does. `Promises`
holds for all constants as it speaks of the time before the first update, when every
clock reads the global time. `NothingFreedEarly` counts the references by the place of the
entry that owns each - queue, other threads' list, hands of ProcessOneEvent - as
every action moves an entry or makes or ends one with its reference, except the
skipping of a superseded entry, which keeps the reference: hence the inequality.

`DriftIsBounded` says what rounding costs, for any clocks with frequencies between 1/k and k, any
delays and any number of updates: an activity is executed within `k (k + 3) * updates` time steps of
the moment its delay is over, at that moment if there was no update. Counted in global time the
errors of successive updates do not simply add up, since the next clock stretches or shrinks what the last one
left; counted in steps of the local clock they do. The inductive invariant `DriftInv (C, A, B)` says
where an entry may be off and by how much, for a set C of clocks and what is possible after n updates, A[n]
(clock, time stamp and exact due time), B[n] in time steps: a pending entry in a
clock's list is as far off as A allows for that clock, one still in SetClock's
hands as for the *old* clock and one update less, and an entry without a context is exact. That it
is inductive (`DriftNext`) needs only that Schedule and ReSchedule produce
what A allows (`ScheduleAllowed`, `MoveAllowed`), which is arithmetic. In `DriftIsBounded` A allows
`(k + 3) * updates` steps of the clock. One update adds
half a step each for the two conversions of `GlobalToLocalDelay`, and up to `k + 2` for the way back
(`LeftOver`, `NewDue`). `~CrossNode` is assumed because ReSchedule converts by the clock of the node
the code runs in (section 4). Until the first update the times are exact as a node reads global time;
a Schedule by a clock that was set rounds too, and is covered by the update that set it.

`DriftIsSharp` is the instance for clocks of frequency 1/2, 1 and 2 with any offset, where errors are whole
halves of a step (`OffBy`; hence `Scale % 4 = 0`, four parts of a time step in the exact due times, which
are a history variable). Only two conversions round: an odd time to the slow clock, upwards, and an odd reading of the fast
clock to global time, downwards. `Possible` says what that can add up to, by rate and direction: up to three updates cost one time step
each, which is `DriftPerUpdate`. Any number of updates costs at most two each, and the bound of one
ends at four, as TLC finds with `MaxUpdates = 4`: clock 2 at time 2 and Schedule(7); 1/2 at 2, 2 at 3,
1/2 at 4. The event is executed at 8 and is due at 13: the updates at 2, 3 and 4 lose 1, 1/2 and 1 step
of the clock, 2 1/2 together, and at half the speed a step is two time steps.

**ClockReadings_proofs.** The rounding operators are
characterised by inequalities (`LroundBounds`, `QuotientBounds`), and what follows
is linear: `PositiveDelay`, `IntegralRateNow`. With the invariant that a timer's
event is at the global time of its target these give `TimersOnTime`,
`DelaysAccepted`, `SameClockStays` and `LocalTimeAdvances`. (LocalTimeSimulator_proofs
states the few lemmas about the conversions' types that it needs itself.)

`WatchdogsKept` (`WatchdogSpec => []WatchdogKept`) is for every clock too. The node
behaves as in ClockReadings (`NodeUndisturbed`), and a delay is not longer in global time on a clock that is
not slower (`FastDelay`, by the same inequalities); so the event under way is never past the
end, and when there is none the function was invoked at the end (`WatchdogInv`).

**DistributedSimulator_proofs.** `WindowsAreSafe`, `WindowsArePrivate` and
`Implementation` (`Spec => ImplementsParallel`), for any number of ranks, any links and any traffic.
The inductive invariant speaks of a *base*, the smallest next event time of
the last exchange with nothing in flight: every event of a rank that is not stopped,
every packet in flight and every executing event is due at the base or later, while a linked rank
is granted at most the base plus its look-ahead, which is no longer than any link to it.
A packet sent within the window is therefore due after it, and the base survives until
the next exchange, where equal counts of sent and received packets mean that nothing is in flight
(finite sets, one within the other). For the refinement, which maps a packet in
flight to an activity pending at its receiver, `NameInv` adds that packets are numbered
uniquely and that no activity is in two places.

**NullMessageSimulator_proofs.** `Consistency` for all constants; `GuaranteesAreKept`,
`NoDeadlock` and `Implementation` (`Spec => ImplementsParallel`) if there is at most one channel between two
ranks (`OneChannel`), for any ranks, delays, tuning and transmission times: with two channels the code
breaks its guarantee, which is the finding of run `null_guarantee`. `BaseInv` knows every
event of a rank by its uid, says what a stopped rank still has, which channels are busy
and where the one live event of a neighbour's next null message is. `LinksInv` speaks of
the last guarantee on its way to a neighbour (`Promised`): guarantees never go back on a
link, and what a rank still has to execute, but for the null message's own event, is due late
enough for the last one given; or the device is sending, and both the end of its
transmission and the next null message are due late enough (`AllLate \/ DeviceLate`).
The sender's side bounds what can be sent below the guarantee, and the receiver's safe time is
a guarantee received, so nothing arrives in its past. For the refinement, as in the
distributed simulator, packets are numbered uniquely (`PacketInv`).

`NoDeadlock` is the safety part of `RunCompletes`, for every topology: while a rank has not
finished, one that has not is not `Waiting`, so it can execute an event, poll, return or take a
message. `WaitInv` adds that what is safe for a rank is the least guarantee it has
(`SafeKnown`), that the event of the next null message is due no later than what the last
message promised (`NullInTime`), as the interval is not longer than the delay (the
attribute SchedulerTune is at most 1; with an interval one step longer the run fails), and
that a rank that has finished shows StopTime (`StopKnown`). A rank that waits has the
guarantee of some neighbour below its next event, and nothing is on its way; so the neighbour's
null message is due before that event and still ahead, and the neighbour has not finished,
or its clock would be past it. Of all ranks that wait, the one with the first event would wait for
one with an earlier event. It needs StopTime to be no later than `GetMaximumSimulationTime`.

**TestRunner_proofs.** `Consistency`, `TrueReturn` and `NobodyStranded`, for every list of
jobs and every number of workers and of deaths among them, and with exceptions in the main thread. That a job is in one place is
inductive once it is said of the jobs not yet dispatched that they are in none
(`KeptInv`; the places are counted, so taking from a queue renumbers what is left, a
bijection). A job's fields are therefore written by its worker only while it is nowhere else, so
once it is back its return code is the truth about it, or it was interrupted or to be
skipped (`TruthInv`). `CountInv` ties the counts to the set of collected jobs; when as
many were collected as dispatched that set is all jobs, and counts that add up mean that all of
them are good, by cardinality. No Break is before a job in the queue (`BreaksLast`),
hence nobody is stranded. How many have died plays no part: a dead worker's job makes run_tests wait,
not return wrongly.

**RealtimeSimulator_proofs.** `Consistency`, `NothingEarly`, `WaitsAreInterrupted`,
`WakeupsArrive`, `IdleWaitsSleep` and `Implementation` (`Spec => ImplementsSimulation`), for any
number of threads, any delays and any horizon: all that `realtime` checks but liveness.
From the plan until the event is taken the main thread is committed to a
time, and the queue holds an event due by then (`PlanInv`), as nothing is removed meanwhile: so
whatever is at the head when the time is over is due. Only the plan resets the
condition, under the mutex, when no worker is between its insertion and its signal; hence
whoever told the main thread did so of an event besides the planned one
(`ToldInv`), and a true condition met in the window before the sleep has its signal
still to come (`SignalInv`), as Signal needs the lock that the window holds.

**DefaultSimulator_proofs.** `Consistency` (`Spec => []Consistent`), `EventIdsTell`
(`Spec => []ExpiredIffGone`), `DestroysInOrder` and `Implementation`
(`Spec => ImplementsSimulation`): all that `default` checks but liveness, for any application, any number of other threads' calls, at any moment of Destroy too, and any
number of lives. The argument about the references counts occurrences: of an
EventImpl in the queue, in the other threads' list, in the list of destroy events and
in the hands of the main thread (`RefsOK`). Every action moves one occurrence, or makes or ends
one together with its reference; taking in the other threads' list moves each item
to one entry (`BatchOccurrences`, a bijection, since the uids it is given are distinct), and erasing
from a list renumbers the rest (`InListErases`). The deletion ends occurrences whose references
stay: they are counted as leaked (`Lost`), and `LateOK` says that from DoDispose's take-over on the
other threads' list holds late events only, each once, so that what leaks is what was late and nothing else. The assertions follow as in
the local-time simulator, except the one of the scheduler's Remove, for which `HandlesOK` says where every
EventId of the first life is: in the queue, in the past, or cancelled. For `EventIdsTell`,
`NamesOK` adds that an entry with the EventImpl of an EventId is the entry that the EventId was
made for, and that uid 2 is a destroy event's only. `OnceOK` then says that the queue, the
other threads' list and the destroy events are disjoint, hold every EventImpl once, and nothing
that was executed, removed or thrown away; it also keeps the destroy events in the order of their
creation, also when one is erased from the middle (`DestroyErases`). The refinement
(`StepImplements`) reads off it that each call adds, drops or executes one abstract activity, a destroy
event being none; that each turn of DoDispose's loop drops one; that the deletion gives up activities that
never were pending (`DeleteSim`); and that the next object starts time over with nothing pending
(`GetImplSim`). No step is left unconstrained.

**EventLists_proofs.** `HeapStaysInOrder`, `CalendarStaysInOrder` and `SchedulersAgree`
(`Spec => ImplementsScheduler`), for any number of events and any distances. A loop is a function of the number
of the turn, which exists because each turn follows from the one before (`LoopRuns`), and what holds
before the first turn and is kept by a turn holds of all (`LoopStates`); both by induction on the
turns, as sets of naturals. For the heap the loop invariant is that the order is broken at one
place at most: between `index` and its parent while BottomUp rises (`OrderedBelow`), between
`index` and its children while TopDown sinks (`OrderedAbove`), where the children are in
order with the parent of `index`. A number of turns that is the heap's
size is enough, since each doubles or halves the index. TopDown may start in the middle only if what
fills the hole may stay below the hole's parent; the theorems hold for Remove of any event
because the order is kept relative to a set E of events (`Ordered`): no event of E comes before its
parent. A set that has with an event all that come before it (`Early`) is kept in order by
every exchange, whatever the events outside E do; and an event that fills its hole out of
order is taken out of E with all after it (`Misplacing`). With nothing misplaced E is everything. That no
event of E comes before the root follows along the path from any element up to it (`RootFirst`).

A calendar is `Sound` if it files a finite set of events with different uids by their days, the
search starts at the day of the last event removed, and no event is before that. With
buckets visited in the order of the days, a bucket that has an event of the visited day has the
earliest event there is; if a whole year has none, the earliest of the fronts is (`VisitedDay`,
`HitIsDay`, `EarlierDayBefore`; the arithmetic of days is in `Division` to `EndOfLaterDay`).
`DoRemoveNextIsSound` says this of any sound calendar, also of one that CalculateNewWidth
drains for its samples and puts back. The new width is positive whatever the sums wrap to
(`WidthIsPositive`), and a sound calendar of any number of buckets and any positive width
holds the same events, so resizing keeps it sound (`ResizeIsSound`).

**Only model-checked.** Liveness, which is outside the prover (of the null message protocol the
absence of deadlock is proved). Every safety invariant the runs check is proved. The recursive definitions
could be treated because each recurses along natural numbers - the uids of IsExpired's
chain, the turns of a loop - and induction on a set of naturals (`NatSetInduction`) can be had from the
library's well-founded minimum.

## 6. Assumptions and abstractions

* A debug build: a failed assertion ends the program. (In an optimized build the
  heap's wrong order, for one, goes on unnoticed.)
* Frequencies are rationals that doubles represent exactly, and times stay below
  2^53, so that the products in `GlobalToLocalTime` are exact.
* Time stamps, uids and reference counts do not overflow.
* In the null message simulation StopTime is at most `GetMaximumSimulationTime` and SchedulerTune
  is a whole number of percent from 1 to 100; the attribute's checker admits 0.01 to 1
  (`null-message-simulator-impl.cc:60-63`).
* The main thread is the one that calls Run; the assertions about the calling
  thread are not modelled. Other threads call what `simulator.h` lets them call.
* `NodeList`, `AggregateObject`, attributes and logging do what they say. MPI
  delivers every message once and unchanged.
* In real time, only the order of clock readings matters: the wall clock is a
  counter that only grows, best-effort synchronization is on, and the callers'
  delays are whole ticks.

## 7. Not modelled, and why

`LocalTimeSimulatorImpl`'s destroy events, Destroy, DoDispose and SetScheduler are
copies of `DefaultSimulatorImpl`'s and are modelled there; so are Cancel, Remove,
IsExpired and the destroy events of the two parallel simulators. SetScheduler, which moves
all events to another list, changes nothing where the list is modelled as a set, and is not
modelled with the lists of `EventLists`. `Stop (delay)` is Schedule of
an event that calls Stop. `ListScheduler` and `MapScheduler` wrap standard
containers. The unlocked creation in `Simulator::GetImpl`, the hard-limit mode and a second Run of the
realtime simulator, and Remove by threads other than the main one are left out.
`Timer` and `EventGarbageCollector` are sequential users of the
simulators and come next.

The network library consists of models of other systems, physical layers with
real-valued data, routing protocols and applications. Generated Python bindings
(`modulegen__gcc_*.py`, nearly all of the repository's Python: one call of a registration
function per C++ method) have no state and no control flow of their own, so that the share of
Python lines the models cover is small by nature: the logic is in C++, and in `test.py`, which
is modelled. Build scripts, examples and tools have no protocol either.
`PROJECT.json` lists all of them.

## 8. Plan

Done: the clock's arithmetic, all five simulators, the event lists, the
watchdog, the test runner, their abstract specifications; the proofs of section 5.

1. `Timers`: Timer and EventGarbageCollector on an abstract simulator; Timer's
   Suspend and Resume, which also pass a global delay to a local clock.
2. Destroy and disposal in `LocalTimeSimulator`; the creation race of `GetImpl`;
   the hard-limit mode and a second Run in `RealtimeSimulator`.
3. Proofs: the best constant in `DriftIsBounded` (for the rates 1/2, 1 and 2 and up to three updates,
   `DriftIsSharp` has it).
