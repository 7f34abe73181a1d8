---------------------- MODULE RealtimeSimulator_proofs ----------------------
(***************************************************************************)
(* Theorems about RealtimeSimulator: for any number of threads, any delays *)
(* and any horizon.                                                        *)
(*                                                                         *)
(* The argument: from the plan on, until the event is taken, the main      *)
(* thread is committed to a time, and the queue holds an event due by      *)
(* then, since nothing is removed meanwhile.  Whatever was inserted since  *)
(* the plan keeps the condition true, or its thread is about to set it,    *)
(* because only the plan resets it and does so under the mutex.            *)
(***************************************************************************)
EXTENDS RealtimeSimulator, TLAPS

Waiting == main \in {"sync", "check", "checked", "asleep", "spin"}

\* The main thread has planned to execute an event at the time until.
Committed == until # Idle /\ (Waiting \/ main = "take")

\* Somebody has told the main thread of an event, or is about to.
Told == condition \/ \E w \in Worker : thread[w] = "inserted"

\* Every event has a uid of its own and is due now or later.
QueueInv ==
  /\ \A e \in events : currentTs <= e.ts /\ e.uid \notin executed \cup removed
  /\ \A e, f \in events : e.uid = f.uid => e = f

\* The event that was planned, or an earlier one, is there to be executed.
PlanInv ==
  /\ main = "plan" => events # {}
  /\ main \in {"sync", "spin", "take"} => until # Idle
  /\ Committed => \E e \in events : e.ts <= until
  /\ main = "take" => until <= clock

\* A condition that is true has a signal to come when the main thread sleeps
\* or is about to.
SignalInv ==
  main \in {"checked", "asleep"} /\ condition
    => \E w \in Worker : thread[w] = "set"

\* Who tells the main thread does so of an event that is there, besides the
\* one that was planned; unless events were removed.
ToldInv ==
  Told /\ removed = {} =>
    /\ events # {}
    /\ Committed => \E e, f \in events : e # f

IInv == /\ TypeOK /\ QueueInv /\ PlanInv /\ NeverEarly
        /\ WaitIsInterrupted /\ SignalInv /\ ToldInv

-----------------------------------------------------------------------------
LEMMA IInvInit == Init => IInv
<1> SUFFICES ASSUME Init PROVE IInv
  OBVIOUS
<1>1. TypeOK
  <2>1. clock \in 0..MaxTime /\ wake \in Nat /\ currentTs \in Nat
    BY InputAssumption DEF Init
  <2>2. thread \in [Worker -> {"out", "inserted", "set"}]
    BY DEF Init
  <2>3. /\ events \subseteq [ts : Nat, uid : FirstUid..(uid - 1)]
        /\ executed \subseteq FirstUid..(uid - 1)
        /\ removed \subseteq FirstUid..(uid - 1)
    BY DEF Init
  <2>4. /\ uid \in Nat /\ uid >= FirstUid
        /\ until \in Nat \cup {Idle}
    BY DEF Init, FirstUid, Idle
  <2>5. /\ stop \in BOOLEAN /\ running \in BOOLEAN
        /\ origin \in BOOLEAN /\ condition \in BOOLEAN
        /\ main = "script"
    BY DEF Init
  <2> QED  BY <2>1, <2>2, <2>3, <2>4, <2>5 DEF TypeOK
<1>2. QueueInv /\ PlanInv /\ NeverEarly /\ WaitIsInterrupted /\ SignalInv /\ ToldInv
  BY DEF Init, QueueInv, PlanInv, NeverEarly, WaitIsInterrupted, SignalInv,
       ToldInv, Told, Committed, Waiting
<1> QED  BY <1>1, <1>2 DEF IInv

\* A new event: its uid is fresh and it is not due before m_currentTs.
LEMMA InsertEffect ==
  ASSUME TypeOK, NEW ts \in Nat, Insert(ts)
  PROVE  /\ events' = events \cup {[ts |-> ts, uid |-> uid]}
         /\ uid' = uid + 1
         /\ \A e \in events : e.uid # uid
         /\ uid \notin executed \cup removed
         /\ events' \subseteq [ts : Nat, uid : FirstUid..(uid' - 1)]
         /\ executed \subseteq FirstUid..(uid' - 1)
         /\ removed \subseteq FirstUid..(uid' - 1)
  BY DEF TypeOK, Insert, FirstUid

LEMMA ReadingType ==
  ASSUME TypeOK, NeverEarly
  PROVE  /\ Reading \in Nat /\ currentTs <= Reading
         /\ currentTs \in Nat
  BY InputAssumption DEF TypeOK, NeverEarly, Reading, Far

LEMMA TypeOKNext == TypeOK /\ NeverEarly /\ [Next]_vars => TypeOK'
<1> SUFFICES ASSUME TypeOK, NeverEarly, [Next]_vars PROVE TypeOK'
  OBVIOUS
<1>1. CASE Tick
  BY <1>1, InputAssumption DEF Tick, TypeOK, goneVars, waitVars
<1>2. ASSUME NEW w \in Worker, NEW d \in Delay, WorkerInsert(w, d) PROVE TypeOK'
  <2>1. PICK base \in Nat : Insert(base + d)
    BY <1>2, ReadingType DEF WorkerInsert
  <2>2. base + d \in Nat
    BY InputAssumption
  <2>3. /\ events' \subseteq [ts : Nat, uid : FirstUid..(uid' - 1)]
        /\ uid' = uid + 1
        /\ executed \subseteq FirstUid..(uid' - 1)
        /\ removed \subseteq FirstUid..(uid' - 1)
    BY <2>1, <2>2, InsertEffect
  <2> QED
    BY <1>2, <2>3 DEF WorkerInsert, TypeOK, FirstUid, goneVars, waitVars
<1>3. ASSUME NEW w \in Worker, WorkerSets(w) PROVE TypeOK'
  BY <1>3 DEF WorkerSets, TypeOK, goneVars, waitVars
<1>4. ASSUME NEW w \in Worker, WorkerSignals(w) PROVE TypeOK'
  BY <1>4 DEF WorkerSignals, TypeOK, goneVars, waitVars
<1>5. CASE WorkerStops
  BY <1>5 DEF WorkerStops, TypeOK, goneVars, waitVars
<1>6. ASSUME NEW d \in Delay, Schedule(d) PROVE TypeOK'
  <2>1. PICK base \in Nat : Insert(base + d)
    BY <1>6, ReadingType DEF Schedule
  <2>2. base + d \in Nat
    BY InputAssumption
  <2>3. /\ events' \subseteq [ts : Nat, uid : FirstUid..(uid' - 1)]
        /\ uid' = uid + 1
        /\ executed \subseteq FirstUid..(uid' - 1)
        /\ removed \subseteq FirstUid..(uid' - 1)
    BY <2>1, <2>2, InsertEffect
  <2> QED
    BY <1>6, <2>3 DEF Schedule, TypeOK, FirstUid, goneVars, waitVars
<1>7. ASSUME NEW e \in events, Remove(e) PROVE TypeOK'
  BY <1>7 DEF Remove, TypeOK, goneVars, waitVars
<1>8. CASE Stop
  BY <1>8 DEF Stop, TypeOK, goneVars, waitVars
<1>9. CASE Main
  <2>1. CASE RunBegins
    BY <2>1 DEF RunBegins, TypeOK, goneVars, waitVars
  <2>2. CASE SetOrigin
    BY <2>2 DEF SetOrigin, TypeOK, goneVars, waitVars
  <2>3. CASE Loop
    BY <2>3 DEF Loop, TypeOK, goneVars, waitVars
  <2>4. CASE RunReturns
    BY <2>4 DEF RunReturns, TypeOK, goneVars, waitVars
  <2>5. CASE Plan
    <3>1. \A e \in events : e.ts \in Nat
      BY DEF TypeOK
    <3>2. clock \in Nat
      BY InputAssumption DEF TypeOK
    <3>3. until' \in Nat
      BY <2>5, <3>1, <3>2 DEF Plan, IsFirst
    <3> QED  BY <2>5, <3>3 DEF Plan, TypeOK, goneVars
  <2>6. CASE Synchronize
    BY <2>6 DEF Synchronize, TypeOK, goneVars, Idle
  <2>7. CASE CheckCondition
    BY <2>7 DEF CheckCondition, Interrupted, TypeOK, goneVars, waitVars
  <2>8. CASE Sleep
    BY <2>8 DEF Sleep, TypeOK, goneVars, waitVars
  <2>9. CASE TimedOut
    BY <2>9 DEF TimedOut, TypeOK, goneVars, waitVars
  <2>10. CASE SpinWait
    BY <2>10 DEF SpinWait, TypeOK, goneVars, waitVars
  <2>11. CASE TakeEvent
    BY <2>11 DEF TakeEvent, TypeOK, IsFirst
  <2>12. CASE EventReturns
    BY <2>12 DEF EventReturns, TypeOK, goneVars, waitVars
  <2> QED
    BY <1>9, <2>1, <2>2, <2>3, <2>4, <2>5, <2>6, <2>7, <2>8, <2>9, <2>10, <2>11,
       <2>12 DEF Main
<1>10. CASE UNCHANGED vars
  BY <1>10 DEF vars, TypeOK, goneVars, waitVars
<1> QED
  BY <1>1, <1>2, <1>3, <1>4, <1>5, <1>6, <1>7, <1>8, <1>9, <1>10 DEF Next
-----------------------------------------------------------------------------
\* Both kinds of insertion, of a worker and of the main thread.
Inserts == \E b, d \in Nat : currentTs <= b /\ Insert(b + d)

LEMMA WorkerInserts ==
  ASSUME TypeOK, NeverEarly, NEW w \in Worker, NEW d \in Delay, WorkerInsert(w, d)
  PROVE  Inserts
<1>1. PICK b \in {IF running THEN Reading ELSE currentTs, Reading} : Insert(b + d)
  BY DEF WorkerInsert
<1>2. b \in Nat /\ currentTs <= b
  BY ReadingType
<1> QED  BY <1>1, <1>2, InputAssumption DEF Inserts

LEMMA MainInserts ==
  ASSUME TypeOK, NeverEarly, NEW d \in Delay, Schedule(d)
  PROVE  Inserts
<1>1. PICK b \in {currentTs, Reading} : Insert(b + d)
  BY DEF Schedule
<1>2. b \in Nat /\ currentTs <= b
  BY ReadingType
<1> QED  BY <1>1, <1>2, InputAssumption DEF Inserts

LEMMA InsertKeepsQueue ==
  ASSUME TypeOK, QueueInv, Inserts, UNCHANGED <<currentTs, executed, removed>>
  PROVE  /\ QueueInv'
         /\ \E g \in events' : g \notin events
         /\ events \subseteq events'
<1>1. PICK b \in Nat, d \in Nat : currentTs <= b /\ Insert(b + d)
  BY DEF Inserts
<1>2. b + d \in Nat /\ currentTs <= b + d
  BY <1>1 DEF TypeOK
<1> DEFINE g == [ts |-> b + d, uid |-> uid]
<1>3. /\ events' = events \cup {g}
      /\ \A e \in events : e.uid # uid
      /\ uid \notin executed \cup removed
  BY <1>1, <1>2, InsertEffect
<1>4. g.uid = uid /\ g.ts = b + d
  OBVIOUS
<1> HIDE DEF g
<1> QED  BY <1>2, <1>3, <1>4 DEF QueueInv

\* The event that is taken is due by the time the main thread waited for.
LEMMA TakenIsDue ==
  ASSUME TypeOK, PlanInv, main = "take",
         NEW e \in events, IsFirst(e, events)
  PROVE  e.ts <= clock
<1>1. until # Idle /\ until \in Nat /\ until <= clock /\ clock \in Nat
  BY InputAssumption DEF PlanInv, TypeOK
<1>2. PICK f \in events : f.ts <= until
  BY <1>1 DEF PlanInv, Committed
<1>3. e.ts \in Nat /\ f.ts \in Nat
  BY DEF TypeOK
<1>4. e.ts <= f.ts
  BY <1>3 DEF IsFirst, Before
<1> QED  BY <1>1, <1>2, <1>3, <1>4

LEMMA QueueInvNext ==
  TypeOK /\ QueueInv /\ PlanInv /\ NeverEarly /\ [Next]_vars
    => QueueInv' /\ NeverEarly'
<1> SUFFICES ASSUME TypeOK, QueueInv, PlanInv, NeverEarly, [Next]_vars
             PROVE  QueueInv' /\ NeverEarly'
  OBVIOUS
<1>1. CASE UNCHANGED <<events, currentTs, executed, removed, clock>>
  BY <1>1 DEF QueueInv, NeverEarly
<1>2. CASE Tick
  BY <1>2, InputAssumption DEF Tick, QueueInv, NeverEarly, goneVars, TypeOK
<1>3. CASE Inserts /\ UNCHANGED <<currentTs, executed, removed, clock>>
  BY <1>3, InsertKeepsQueue DEF NeverEarly
<1>4. ASSUME NEW e \in events, Remove(e) PROVE QueueInv' /\ NeverEarly'
  BY <1>4 DEF Remove, QueueInv, NeverEarly
<1>5. CASE TakeEvent
  <2>1. PICK e \in events : /\ IsFirst(e, events)
                            /\ events' = events \ {e}
                            /\ currentTs' = e.ts
                            /\ executed' = executed \cup {e.uid}
    BY <1>5 DEF TakeEvent
  <2>2. \A f \in events' : e.ts <= f.ts
    BY <2>1 DEF IsFirst, Before, TypeOK
  <2>3. e.ts <= clock
    BY <1>5, <2>1, TakenIsDue DEF TakeEvent
  <2>4. removed' = removed /\ clock' = clock
    BY <1>5 DEF TakeEvent
  <2> QED  BY <2>1, <2>2, <2>3, <2>4 DEF QueueInv, NeverEarly
<1> QED
  <2>1. ASSUME NEW w \in Worker, NEW d \in Delay, WorkerInsert(w, d)
        PROVE  Inserts /\ UNCHANGED <<currentTs, executed, removed, clock>>
    BY <2>1, WorkerInserts DEF WorkerInsert, goneVars
  <2>2. ASSUME NEW d \in Delay, Schedule(d)
        PROVE  Inserts /\ UNCHANGED <<currentTs, executed, removed, clock>>
    BY <2>2, MainInserts DEF Schedule, goneVars
  <2>3. ASSUME NEW w \in Worker, WorkerSets(w) \/ WorkerSignals(w)
        PROVE  UNCHANGED <<events, currentTs, executed, removed, clock>>
    BY <2>3 DEF WorkerSets, WorkerSignals, goneVars
  <2>4. CASE WorkerStops \/ Stop \/ UNCHANGED vars
    BY <1>1, <2>4 DEF WorkerStops, Stop, goneVars, vars
  <2>5. CASE Main
    BY <1>1, <1>5, <2>5 DEF Main, RunBegins, SetOrigin, Loop, RunReturns, Plan,
       Synchronize, CheckCondition, Sleep, TimedOut, SpinWait, EventReturns,
       goneVars
  <2> QED
    BY <1>1, <1>2, <1>3, <1>4, <2>1, <2>2, <2>3, <2>4, <2>5 DEF Next

\* The wait keeps its reason until the event is taken.
LEMMA PlanInvNext ==
  TypeOK /\ QueueInv /\ PlanInv /\ [Next]_vars => PlanInv'
<1> SUFFICES ASSUME TypeOK, QueueInv, PlanInv, [Next]_vars PROVE PlanInv'
  OBVIOUS
<1> USE DEF PlanInv, Committed, Waiting
<1>1. CASE events \subseteq events' /\ UNCHANGED <<main, until, clock>>
  BY <1>1
<1>2. CASE Tick
  <2>1. main = "take" => until \in Nat
    BY DEF TypeOK
  <2>2. clock' = clock + 1 /\ clock \in Nat /\ UNCHANGED <<main, until, events>>
    BY <1>2, InputAssumption DEF Tick, waitVars, TypeOK
  <2> QED  BY <2>1, <2>2
<1>3. ASSUME main' \in {"script", "origin", "loop", "event", "done"} PROVE PlanInv'
  BY <1>3
<1>4. ASSUME NEW w \in Worker, WorkerSignals(w) PROVE PlanInv'
  BY <1>4 DEF WorkerSignals, waitVars
<1>5. ASSUME NEW e \in events, Remove(e) PROVE PlanInv'
  BY <1>3, <1>5 DEF Remove
<1>6. CASE Main
  <2>1. CASE RunBegins \/ SetOrigin \/ RunReturns \/ TakeEvent \/ EventReturns
    BY <1>3, <2>1 DEF RunBegins, SetOrigin, RunReturns, TakeEvent, EventReturns
  <2>2. CASE Loop
    BY <2>2 DEF Loop
  <2>3. CASE Plan
    <3>1. PICK e \in events : until' = IF e.ts <= clock THEN clock ELSE e.ts
      BY <2>3 DEF Plan
    <3>2. e.ts \in Nat /\ clock \in Nat
      BY InputAssumption DEF TypeOK
    <3>3. until' \in Nat /\ e.ts <= until'
      BY <3>1, <3>2
    <3>4. main' = "sync" /\ events' = events
      BY <2>3 DEF Plan
    <3>5. until' # Idle
      BY <3>3 DEF Idle
    <3> QED  BY <3>3, <3>4, <3>5
  <2>4. CASE Synchronize
    BY <2>4 DEF Synchronize
  <2>5. CASE CheckCondition
    BY <2>5 DEF CheckCondition, Interrupted, waitVars
  <2>6. CASE Sleep \/ TimedOut
    BY <2>6 DEF Sleep, TimedOut, waitVars
  <2>7. CASE SpinWait
    BY <2>7, InputAssumption DEF SpinWait, waitVars, TypeOK
  <2> QED
    BY <1>6, <2>1, <2>2, <2>3, <2>4, <2>5, <2>6, <2>7 DEF Main
<1> QED
  <2>1. ASSUME NEW w \in Worker, NEW d \in Delay, WorkerInsert(w, d) PROVE PlanInv'
    BY <1>1, <2>1 DEF WorkerInsert, Insert, waitVars
  <2>2. ASSUME NEW d \in Delay, Schedule(d) PROVE PlanInv'
    BY <1>1, <2>2 DEF Schedule, Insert, waitVars
  <2>3. ASSUME NEW w \in Worker, WorkerSets(w) PROVE PlanInv'
    BY <1>1, <2>3 DEF WorkerSets, waitVars
  <2>4. CASE WorkerStops \/ Stop \/ UNCHANGED vars
    BY <1>1, <2>4 DEF WorkerStops, Stop, vars, waitVars
  <2> QED
    BY <1>2, <1>4, <1>5, <1>6, <2>1, <2>2, <2>3, <2>4 DEF Next

\* Whoever inserts tells the main thread, or is about to, until the main
\* thread plans again.
LEMMA InterruptNext ==
  TypeOK /\ WaitIsInterrupted /\ [Next]_vars => WaitIsInterrupted'
<1> SUFFICES ASSUME TypeOK, WaitIsInterrupted, [Next]_vars
             PROVE  WaitIsInterrupted'
  OBVIOUS
<1> USE DEF WaitIsInterrupted
<1>1. ASSUME Told => Told',
             events' \subseteq events, UNCHANGED until,
             clock' >= clock, clock \in Nat, clock' \in Nat, until \in Int,
             main' \in {"sync", "check", "checked", "asleep", "spin"}
               => main \in {"sync", "check", "checked", "asleep", "spin"}
      PROVE  WaitIsInterrupted'
  <2>1. clock' < until' => clock < until
    BY <1>1
  <2> QED  BY <1>1, <2>1 DEF Told
<1>2. clock \in Nat /\ until \in Int /\ clock >= clock
  BY InputAssumption DEF TypeOK, Idle
<1>3. CASE Told' \/ main' \notin {"sync", "check", "checked", "asleep", "spin"}
  BY <1>3 DEF Told
<1>4. CASE Tick
  BY <1>1, <1>2, <1>4 DEF Tick, Told, waitVars
<1>5. CASE UNCHANGED <<condition, thread, events, until, clock>> /\
           (main' = main \/ main = "sync" \/ main = "check" \/ main = "checked"
            \/ main = "asleep" \/ main = "spin")
  BY <1>1, <1>2, <1>5 DEF Told
<1>6. ASSUME NEW w \in Worker, NEW d \in Delay, WorkerInsert(w, d)
      PROVE  WaitIsInterrupted'
  <2>1. thread'[w] = "inserted"
    BY <1>6 DEF WorkerInsert, TypeOK
  <2> QED  BY <1>3, <2>1 DEF Told
<1>7. ASSUME NEW w \in Worker, WorkerSets(w) PROVE WaitIsInterrupted'
  BY <1>3, <1>7 DEF WorkerSets, Told
<1>8. ASSUME NEW w \in Worker, WorkerSignals(w) PROVE WaitIsInterrupted'
  <2>1. \A v \in Worker : thread[v] = "inserted" => thread'[v] = "inserted"
    BY <1>8 DEF WorkerSignals, TypeOK
  <2>2. /\ main' = main \/ (main = "asleep" /\ main' = "check")
        /\ UNCHANGED <<condition, events, until, clock>>
    BY <1>8 DEF WorkerSignals, waitVars
  <2> QED  BY <1>1, <1>2, <2>1, <2>2 DEF Told
<1>9. ASSUME NEW d \in Delay, Schedule(d) PROVE WaitIsInterrupted'
  BY <1>3, <1>9 DEF Schedule
<1>10. ASSUME NEW e \in events, Remove(e) PROVE WaitIsInterrupted'
  BY <1>3, <1>10 DEF Remove
<1>11. CASE Main
  <2>1. CASE RunBegins \/ SetOrigin \/ RunReturns \/ TakeEvent \/ EventReturns
    BY <1>3, <2>1 DEF RunBegins, SetOrigin, RunReturns, TakeEvent, EventReturns
  <2>2. CASE Loop
    BY <1>3, <2>2 DEF Loop
  <2>3. CASE Plan
    <3>1. PICK e \in events : /\ IsFirst(e, events)
                              /\ until' = IF e.ts <= clock THEN clock ELSE e.ts
      BY <2>3 DEF Plan
    <3>2. e.ts \in Nat /\ \A f \in events : f.ts \in Nat
      BY DEF TypeOK
    <3>3. \A f \in events : e.ts <= f.ts
      BY <3>1, <3>2 DEF IsFirst, Before
    <3>4. events' = events /\ clock' = clock
      BY <2>3 DEF Plan
    <3>5. until' \in Nat
      BY <1>2, <3>1, <3>2
    <3>6. until' # Idle
      BY <3>5 DEF Idle
    <3>7. \A f \in events' : ~(f.ts < until' /\ clock' < until')
      BY <1>2, <3>1, <3>2, <3>3, <3>4
    <3> QED  BY <3>6, <3>7
  <2>4. CASE Synchronize \/ CheckCondition \/ Sleep \/ TimedOut \/ SpinWait
    BY <1>5, <2>4 DEF Synchronize, CheckCondition, Sleep, TimedOut, SpinWait,
       waitVars
  <2> QED  BY <1>11, <2>1, <2>2, <2>3, <2>4 DEF Main
<1> QED
  <2>1. CASE WorkerStops \/ Stop \/ UNCHANGED vars
    BY <1>5, <2>1 DEF WorkerStops, Stop, vars, waitVars
  <2> QED
    BY <1>4, <1>6, <1>7, <1>8, <1>9, <1>10, <1>11, <2>1 DEF Next

LEMMA SignalInvNext ==
  TypeOK /\ SignalInv /\ [Next]_vars => SignalInv'
<1> SUFFICES ASSUME TypeOK, SignalInv, [Next]_vars PROVE SignalInv'
  OBVIOUS
<1> USE DEF SignalInv
<1>1. CASE main' \notin {"checked", "asleep"}
  BY <1>1
<1>2. CASE UNCHANGED <<main, condition, thread>>
  BY <1>2
<1>3. ASSUME NEW w \in Worker, NEW d \in Delay, WorkerInsert(w, d) PROVE SignalInv'
  BY <1>3 DEF WorkerInsert, Unlocked, TypeOK
<1>4. ASSUME NEW w \in Worker, WorkerSets(w) PROVE SignalInv'
  <2>1. thread'[w] = "set"
    BY <1>4 DEF WorkerSets, TypeOK
  <2> QED  BY <2>1
<1>5. ASSUME NEW w \in Worker, WorkerSignals(w) PROVE SignalInv'
  BY <1>1, <1>5 DEF WorkerSignals
<1>6. ASSUME NEW d \in Delay, Schedule(d) PROVE SignalInv'
  BY <1>1, <1>6 DEF Schedule
<1>7. ASSUME NEW e \in events, Remove(e) PROVE SignalInv'
  BY <1>1, <1>7 DEF Remove
<1>8. CASE Main
  <2>1. CASE CheckCondition
    BY <2>1 DEF CheckCondition, Interrupted
  <2>2. CASE Sleep
    BY <2>2 DEF Sleep
  <2>3. CASE Loop \/ Plan \/ Synchronize \/ TimedOut \/ SpinWait \/ TakeEvent
             \/ RunBegins \/ SetOrigin \/ RunReturns \/ EventReturns
    BY <1>1, <2>3 DEF Loop, Plan, Synchronize, TimedOut, SpinWait, TakeEvent,
       RunBegins, SetOrigin, RunReturns, EventReturns
  <2> QED  BY <1>8, <2>1, <2>2, <2>3 DEF Main
<1> QED
  <2>1. CASE Tick \/ WorkerStops \/ Stop \/ UNCHANGED vars
    BY <1>2, <2>1 DEF Tick, WorkerStops, Stop, vars
  <2> QED
    BY <1>3, <1>4, <1>5, <1>6, <1>7, <1>8, <2>1 DEF Next

\* Planning resets the condition while no worker is in the critical section:
\* from then on there is a second event for whoever told of one.
LEMMA ToldInvNext ==
  TypeOK /\ PlanInv /\ ToldInv /\ [Next]_vars => ToldInv'
<1> SUFFICES ASSUME TypeOK, PlanInv, ToldInv, [Next]_vars PROVE ToldInv'
  OBVIOUS
<1> USE DEF ToldInv
<1>1. CASE ~Told' \/ removed' # {}
  BY <1>1
<1>2. ASSUME UNCHANGED <<events, removed>>, Told' => Told, Committed' => Committed
      PROVE  ToldInv'
  BY <1>2
<1>3. ASSUME UNCHANGED <<events, removed, until>>, Told' => Told,
             main \in {"sync", "check", "checked", "asleep", "spin"}
      PROVE  ToldInv'
  BY <1>2, <1>3 DEF Committed, Waiting
<1>4. ASSUME UNCHANGED <<events, removed>>, Told' => Told,
             main' \in {"script", "origin", "loop", "plan", "event", "done"}
      PROVE  ToldInv'
  BY <1>2, <1>4 DEF Committed, Waiting
<1>5. ASSUME NEW w \in Worker, NEW d \in Delay, WorkerInsert(w, d) PROVE ToldInv'
  <2>1. PICK ts : Insert(ts)
    BY <1>5 DEF WorkerInsert
  <2> DEFINE g == [ts |-> ts, uid |-> uid]
  <2>2. events' = events \cup {g} /\ g.uid = uid
    BY <2>1 DEF Insert
  <2>3. \A e \in events : e # g
    BY <2>2 DEF TypeOK, FirstUid
  <2>4. UNCHANGED <<until, main>>
    BY <1>5 DEF WorkerInsert, waitVars
  <2> HIDE DEF g
  <2>5. Committed' => \E e \in events : e # g
    BY <2>3, <2>4 DEF Committed, Waiting, PlanInv
  <2> QED  BY <2>2, <2>5
<1>6. ASSUME NEW w \in Worker, WorkerSets(w) PROVE ToldInv'
  <2>1. Told
    BY <1>6 DEF WorkerSets, Told
  <2> QED  BY <1>6, <2>1 DEF WorkerSets, Committed, Waiting, goneVars, waitVars
<1>7. ASSUME NEW w \in Worker, WorkerSignals(w) PROVE ToldInv'
  <2>1. \A v \in Worker : thread'[v] = "inserted" => thread[v] = "inserted"
    BY <1>7 DEF WorkerSignals, TypeOK
  <2>2. Told' => Told
    BY <1>7, <2>1 DEF WorkerSignals, Told
  <2> QED  BY <1>2, <1>7, <2>2 DEF WorkerSignals, Committed, Waiting, goneVars, waitVars
<1>8. ASSUME NEW d \in Delay, Schedule(d) PROVE ToldInv'
  BY <1>8 DEF Schedule, Insert, Committed, Waiting, goneVars, waitVars
<1>9. ASSUME NEW e \in events, Remove(e) PROVE ToldInv'
  BY <1>9 DEF Remove
<1>10. CASE Main
  <2>1. CASE RunBegins \/ SetOrigin \/ RunReturns \/ EventReturns
    BY <1>4, <2>1 DEF RunBegins, SetOrigin, RunReturns, EventReturns, Told, goneVars
  <2>2. CASE Loop
    BY <2>2 DEF Loop, Told, Committed, goneVars
  <2>3. CASE Plan
    BY <1>1, <2>3 DEF Plan, Told, Unlocked
  <2>4. CASE Synchronize \/ CheckCondition \/ Sleep \/ TimedOut \/ SpinWait
    BY <1>3, <2>4 DEF Synchronize, CheckCondition, Sleep, TimedOut, SpinWait,
       Told, goneVars, waitVars
  <2>5. CASE TakeEvent
    <3>1. Committed
      BY <2>5 DEF TakeEvent, Committed, PlanInv
    <3>2. PICK e \in events : events' = events \ {e}
      BY <2>5 DEF TakeEvent
    <3>3. (Told' => Told) /\ removed' = removed /\ ~Committed'
      BY <2>5 DEF TakeEvent, Told, Committed, Waiting
    <3>4. (\E f, g \in events : f # g) => events' # {}
      BY <3>2
    <3> QED  BY <3>1, <3>3, <3>4
  <2> QED  BY <1>10, <2>1, <2>2, <2>3, <2>4, <2>5 DEF Main
<1> QED
  <2>1. CASE Tick \/ WorkerStops \/ Stop \/ UNCHANGED vars
    BY <1>2, <2>1 DEF Tick, WorkerStops, Stop, vars, Told, Committed, Waiting,
       goneVars, waitVars
  <2> QED
    BY <1>5, <1>6, <1>7, <1>8, <1>9, <1>10, <2>1 DEF Next

LEMMA IInvNext == IInv /\ [Next]_vars => IInv'
BY TypeOKNext, QueueInvNext, PlanInvNext, InterruptNext, SignalInvNext,
   ToldInvNext DEF IInv

LEMMA IInvAlways == Spec => []IInv
BY IInvInit, IInvNext, PTL DEF Spec
-----------------------------------------------------------------------------
\* Consistent: the queue and the time keep their types, ProcessOneEvent finds
\* an event in both critical sections, and nothing is due in the past.
THEOREM Consistency == Spec => []Consistent
<1>1. IInv => Consistent
  <2>1. TypeOK /\ QueueInv => \A e \in events : e.ts >= currentTs
    BY DEF TypeOK, QueueInv
  <2>2. PlanInv => (main \in {"plan", "sync", "spin", "take"} => events # {})
    BY DEF PlanInv, Committed, Waiting
  <2> QED  BY <2>1, <2>2 DEF IInv, Consistent, NoFault
<1> QED  BY <1>1, IInvAlways, PTL

\* NeverEarly: no event is executed before the wall clock has reached it.
THEOREM NothingEarly == Spec => []NeverEarly
<1>1. IInv => NeverEarly
  BY DEF IInv
<1> QED  BY <1>1, IInvAlways, PTL

\* WaitIsInterrupted: whoever waits is told of an event that should not wait
\* that long.
THEOREM WaitsAreInterrupted == Spec => []WaitIsInterrupted
<1>1. IInv => WaitIsInterrupted
  BY DEF IInv
<1> QED  BY <1>1, IInvAlways, PTL

\* NoLostWakeup: nobody sleeps through a condition that is true.
THEOREM WakeupsArrive == Spec => []NoLostWakeup
<1>1. IInv => NoLostWakeup
  BY DEF IInv, SignalInv, NoLostWakeup
<1> QED  BY <1>1, IInvAlways, PTL

\* IdleSleeps: unless events were removed, the wait for an empty queue finds
\* no condition left over from an event that was executed.
THEOREM IdleWaitsSleep == Spec => []IdleSleeps
<1>1. IInv => IdleSleeps
  BY DEF IInv, ToldInv, Told, IdleSleeps
<1> QED  BY <1>1, IInvAlways, PTL
-----------------------------------------------------------------------------
\* The activity of an event of the queue.
EntryOf(e) == [act |-> e.uid, due |-> e.ts, ticket |-> e.uid]
Entries == {EntryOf(e) : e \in events}

LEMMA AddStep ==
  ASSUME TypeOK, QueueInv, Inserts, UNCHANGED <<currentTs, executed, removed>>
  PROVE  Sim!Add
<1>1. PICK b \in Nat, d \in Nat : currentTs <= b /\ Insert(b + d)
  BY DEF Inserts
<1> DEFINE g == [ts |-> b + d, uid |-> uid]
<1>2. b + d \in Nat /\ b + d >= currentTs /\ uid \in Nat /\ uid' = uid + 1
  BY <1>1 DEF TypeOK, Insert
<1>3. /\ events' = events \cup {g}
      /\ \A e \in events : e.uid # uid
      /\ uid \notin executed \cup removed
  BY <1>1, <1>2, InsertEffect
<1>4. EntryOf(g) = [act |-> uid, due |-> b + d, ticket |-> uid]
  BY DEF EntryOf
<1> HIDE DEF g
<1>5. \A x \in Entries : x.act # uid
  BY <1>3 DEF Entries, EntryOf
<1>6. Entries' = Entries \cup {EntryOf(g)}
  BY <1>3 DEF Entries, EntryOf
<1>7. EntryOf(g) \notin Entries
  BY <1>4, <1>5
<1>8. Entries' \ Entries = {EntryOf(g)}
  BY <1>6, <1>7
<1>9. Sim!Acts(Entries' \ Entries) = {uid}
  BY <1>4, <1>8 DEF Sim!Acts
<1>10. uid \notin Sim!Acts(Entries)
  BY <1>5 DEF Sim!Acts
<1>11. Sim!Acts(Entries' \ Entries) \subseteq
         Nat \ (Sim!Acts(Entries) \cup executed \cup removed)
  BY <1>2, <1>3, <1>9, <1>10
<1>12. Sim!Takes(Entries' \ Entries)
  BY <1>2, <1>4, <1>8 DEF Sim!Takes
<1>13. /\ Entries \subseteq Entries'
       /\ Entries' \ Entries # {}
       /\ uid' \in Nat
       /\ \A x \in Entries' \ Entries : x.ticket < uid'
  BY <1>2, <1>4, <1>6, <1>8
<1> QED
  BY <1>11, <1>12, <1>13 DEF Sim!Add, Sim!Fresh, Entries, EntryOf

LEMMA DropStep ==
  ASSUME TypeOK, QueueInv, NEW e \in events, Remove(e)
  PROVE  Sim!Drop
<1>1. events' = events \ {e} /\ removed' = removed \cup {e.uid}
  BY DEF Remove
<1>2. \A f \in events : f # e => EntryOf(f) # EntryOf(e)
  BY DEF QueueInv, EntryOf
<1>3. Entries' = Entries \ {EntryOf(e)}
  BY <1>1, <1>2 DEF Entries, EntryOf
<1>4. EntryOf(e) \in Entries /\ EntryOf(e).act = e.uid
  BY DEF Entries, EntryOf
<1>5. UNCHANGED <<currentTs, uid, executed>>
  BY DEF Remove
<1> QED  BY <1>1, <1>3, <1>4, <1>5 DEF Sim!Drop, Entries, EntryOf

LEMMA ExecuteStep ==
  ASSUME TypeOK, QueueInv, TakeEvent
  PROVE  Sim!Execute
<1>1. PICK e \in events : /\ IsFirst(e, events)
                          /\ events' = events \ {e}
                          /\ currentTs' = e.ts
                          /\ executed' = executed \cup {e.uid}
  BY DEF TakeEvent
<1>2. \A f \in events : f # e => EntryOf(f) # EntryOf(e)
  BY DEF QueueInv, EntryOf
<1>3. Entries' = Entries \ {EntryOf(e)}
  BY <1>1, <1>2 DEF Entries, EntryOf
<1>4. /\ EntryOf(e) \in Entries
      /\ EntryOf(e).act = e.uid /\ EntryOf(e).due = e.ts
  BY DEF Entries, EntryOf
<1>5. \A x \in Entries \ {EntryOf(e)} : Sim!Earlier(EntryOf(e), x)
  BY <1>1 DEF Entries, EntryOf, IsFirst, Before, Sim!Earlier
<1>6. e.uid \notin executed \cup removed
  BY DEF QueueInv
<1>7. UNCHANGED <<uid, removed>>
  BY DEF TakeEvent
<1> QED
  BY <1>1, <1>3, <1>4, <1>5, <1>6, <1>7 DEF Sim!Execute, Entries, EntryOf

LEMMA StepImplements ==
  IInv /\ [Next]_vars => [Sim!SimNext]_(Sim!simVars)
<1> SUFFICES ASSUME IInv, [Next]_vars PROVE [Sim!SimNext]_(Sim!simVars)
  OBVIOUS
<1> USE DEF IInv
<1>1. CASE UNCHANGED <<events, uid, currentTs, executed, removed>>
  BY <1>1 DEF Sim!simVars
<1>2. CASE Inserts /\ UNCHANGED <<currentTs, executed, removed>>
  BY <1>2, AddStep DEF Sim!SimNext
<1>3. ASSUME NEW e \in events, Remove(e) PROVE Sim!SimNext
  BY <1>3, DropStep DEF Sim!SimNext
<1>4. CASE TakeEvent
  BY <1>4, ExecuteStep DEF Sim!SimNext
<1>5. ASSUME NEW w \in Worker, NEW d \in Delay, WorkerInsert(w, d)
      PROVE  Inserts /\ UNCHANGED <<currentTs, executed, removed>>
  BY <1>5, WorkerInserts DEF WorkerInsert, goneVars
<1>6. ASSUME NEW d \in Delay, Schedule(d)
      PROVE  Inserts /\ UNCHANGED <<currentTs, executed, removed>>
  BY <1>6, MainInserts DEF Schedule, goneVars
<1>7. ASSUME NEW w \in Worker, WorkerSets(w) \/ WorkerSignals(w)
      PROVE  UNCHANGED <<events, uid, currentTs, executed, removed>>
  BY <1>7 DEF WorkerSets, WorkerSignals, goneVars
<1>8. CASE Tick \/ WorkerStops \/ Stop \/ UNCHANGED vars
  BY <1>1, <1>8 DEF Tick, WorkerStops, Stop, goneVars, vars
<1>9. CASE Main
  BY <1>1, <1>4, <1>9 DEF Main, RunBegins, SetOrigin, Loop, RunReturns, Plan,
     Synchronize, CheckCondition, Sleep, TimedOut, SpinWait, EventReturns,
     goneVars
<1> QED
  BY <1>1, <1>2, <1>3, <1>5, <1>6, <1>7, <1>8, <1>9 DEF Next

\* ImplementsSimulation: the events of the main thread and of the workers are
\* executed in the order of time, each once and none after it was removed.
THEOREM Implementation == Spec => ImplementsSimulation
<1>1. Init => Sim!SimInit
  BY DEF Init, Sim!SimInit, FirstUid
<1> QED
  BY <1>1, IInvAlways, StepImplements, PTL
     DEF Spec, ImplementsSimulation, Sim!SimSpec
=============================================================================
