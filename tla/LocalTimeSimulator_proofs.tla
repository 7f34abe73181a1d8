---------------------- MODULE LocalTimeSimulator_proofs ----------------------
(***************************************************************************)
(* Theorems about LocalTimeSimulator, for all values of its constants: any *)
(* number of nodes, any set of clock models, any bounds.                   *)
(***************************************************************************)
EXTENDS LocalTimeSimulator, FiniteSetTheorems, SequenceTheorems,
        WellFoundedInduction, TLAPS

-----------------------------------------------------------------------------
\* The conversions of the clocks: their types, and where they are exact.

\* Time (double) yields a time.
LEMMA LroundType ==
  ASSUME NEW p \in Int, NEW q \in Nat \ {0}
  PROVE  Lround(p, q) \in Int
BY DEF Lround

\* Local times are times, also for a clock whose frequency is 0.
LEMMA GlobalToLocalTimeType ==
  ASSUME NEW c \in [num : Nat, den : Nat \ {0}, offset : Int],
         NEW g \in Int
  PROVE  GlobalToLocalTime(c, g) \in Int
<1>1. g * c.num \in Int
  OBVIOUS
<1>2. Lround(g * c.num, c.den) \in Int
  BY <1>1, LroundType
<1> QED  BY <1>2 DEF GlobalToLocalTime

\* Quotients by a positive number are integers.
LEMMA QuotientType ==
  ASSUME NEW p \in Int, NEW q \in Nat \ {0}
  PROVE  p \div q \in Int
OBVIOUS

\* Global times are times.
LEMMA LocalToGlobalTimeType ==
  ASSUME NEW c \in ClockModel, NEW l \in Int
  PROVE  LocalToGlobalTime(c, l) \in Int
<1>1. c.num \in Nat \ {0} /\ c.den \in Int /\ c.offset \in Int
  BY DEF ClockModel
<1>2. (l - c.offset) * c.den \in Int
  BY <1>1
<1> QED  BY <1>1, <1>2, QuotientType DEF LocalToGlobalTime

\* Global delays are times.
LEMMA LocalToGlobalDelayType ==
  ASSUME NEW c \in ClockModel, NEW now \in Int, NEW d \in Int
  PROVE  LocalToGlobalDelay(c, now, d) \in Int
<1>1. GetLocalTime(c, now) \in Int
  BY GlobalToLocalTimeType DEF GetLocalTime, ClockModel
<1>2. LocalToGlobalTime(c, GetLocalTime(c, now) + d) \in Int
  BY <1>1, LocalToGlobalTimeType
<1> QED  BY <1>2 DEF LocalToGlobalDelay

\* Local delays are times, also for a clock whose frequency is 0.
LEMMA GlobalToLocalDelayType ==
  ASSUME NEW c \in [num : Nat, den : Nat \ {0}, offset : Int],
         NEW now \in Int, NEW d \in Int
  PROVE  GlobalToLocalDelay(c, now, d) \in Int
<1>1. GlobalToLocalTime(c, now + d) \in Int /\ GlobalToLocalTime(c, now) \in Int
  BY GlobalToLocalTimeType
<1> QED  BY <1>1 DEF GlobalToLocalDelay, GetLocalTime

\* lround of an integer is that integer.
LEMMA LroundExact ==
  ASSUME NEW p \in Int
  PROVE  Lround(p, 1) = p
BY DEF Lround

\* A quotient of a multiple is exact.
LEMMA ExactQuotient ==
  ASSUME NEW k \in Int, NEW n \in Nat \ {0}
  PROVE  (k * n) \div n = k
OBVIOUS

-----------------------------------------------------------------------------
\* While SetClock's list is not empty, the node it works for has a clock.
ReschedulingOK ==
  rescheduling.list # {} =>
    /\ rescheduling.node \in Node
    /\ clock[rescheduling.node] \in ClockModel

TypeInv == TypeOK /\ ReschedulingOK

-----------------------------------------------------------------------------
\* Types of the operators the actions are built from.

LEMMA NodeClockType ==
  ASSUME TypeOK, NEW n \in Node
  PROVE  NodeClock(n) \in ClockModel
BY DEF TypeOK, NodeClock, DefaultClock, ClockModel

LEMMA GlobalDelayType ==
  ASSUME TypeOK, NEW d \in Int
  PROVE  GlobalDelay(d) \in Int
<1>1. CASE currentContext = NoContext
  BY <1>1 DEF GlobalDelay
<1>2. CASE currentContext # NoContext
  <2>1. currentContext \in Node
    BY <1>2 DEF TypeOK, Context
  <2>2. NodeClock(currentContext) \in ClockModel
    BY <2>1, NodeClockType
  <2>3. currentTs \in Int
    BY DEF TypeOK
  <2> QED  BY <1>2, <2>2, <2>3, LocalToGlobalDelayType DEF GlobalDelay
<1> QED  BY <1>1, <1>2

LEMMA ScheduledIdType ==
  ASSUME TypeOK, NEW d \in Int, NEW i \in Nat
  PROVE  /\ ScheduledId(d, i) \in EventId
         /\ ScheduledId(d, i).uid = uid
         /\ ScheduledId(d, i).impl = i
         /\ ScheduledId(d, i).ts = currentTs + GlobalDelay(d)
BY GlobalDelayType DEF ScheduledId, EventId, TypeOK

LEMMA ExactDueType ==
  ASSUME TypeOK, NEW c \in ClockModel, NEW d \in Int
  PROVE  ExactDue(c, d) \in Int
<1>1. c.num \in Nat \ {0} /\ d * c.den \in Int
  BY DEF ClockModel
<1>2. (d * c.den) \div c.num \in Int
  BY <1>1, QuotientType
<1>3. currentTs * Scale \in Int
  BY BoundAssumption DEF TypeOK
<1> QED  BY <1>2, <1>3 DEF ExactDue

LEMMA CallerDueType ==
  ASSUME TypeOK, NEW d \in Int
  PROVE  CallerDue(d) \in Int
<1>1. currentTs \in Int /\ Scale \in Int
  BY BoundAssumption DEF TypeOK
<1>2. CASE currentContext = NoContext
  BY <1>1, <1>2 DEF CallerDue
<1>3. CASE currentContext # NoContext
  <2>1. NodeClock(currentContext) \in ClockModel
    BY <1>3, NodeClockType DEF TypeOK, Context
  <2>2. d * Scale \in Int
    BY <1>1
  <2> QED  BY <1>3, <2>1, <2>2, ExactDueType DEF CallerDue
<1> QED  BY <1>2, <1>3

LEMMA MovedDueType ==
  ASSUME TypeOK, NEW old \in ClockModel \cup {NoClock}, NEW c \in ClockModel,
         NEW i \in ImplId
  PROVE  MovedDue(old, c, i) \in Int
<1>1. old.num \in Int /\ old.den \in Nat \ {0}
  BY DEF ClockModel, NoClock
<1>2. due[i] \in Int /\ currentTs \in Int /\ Scale \in Int
  BY BoundAssumption DEF TypeOK
<1>3. due[i] - currentTs * Scale \in Int
  BY <1>2
<1>4. (due[i] - currentTs * Scale) * old.num \in Int
  BY <1>1, <1>3
<1>5. ((due[i] - currentTs * Scale) * old.num) \div old.den \in Int
  BY <1>1, <1>4, QuotientType
<1> QED  BY <1>5, ExactDueType DEF MovedDue

\* A counter per key stays a counter when one of them changes.
LEMMA CounterType ==
  ASSUME NEW S, NEW f \in [S -> Int], NEW k, NEW d \in Int
  PROVE  /\ [f EXCEPT ![k] = @ + d] \in [S -> Int]
         /\ [f EXCEPT ![k] = @ - d] \in [S -> Int]
<1>1. \A x \in S : f[x] + d \in Int /\ f[x] - d \in Int
  OBVIOUS
<1> QED  BY <1>1

-----------------------------------------------------------------------------
\* Types after the operators that change the state.

LEMMA InsertSchedulerType ==
  ASSUME TypeOK, NEW e \in EventId, InsertScheduler(e)
  PROVE  /\ events' \subseteq EventId
         /\ uid' \in Nat
         /\ unscheduledEvents' \in Int
         /\ refs' \in [ImplId -> Int]
<1>1. events' \subseteq EventId
  BY DEF InsertScheduler, TypeOK
<1>2. uid' \in Nat /\ unscheduledEvents' \in Int
  BY DEF InsertScheduler, TypeOK
<1>3. refs' \in [ImplId -> Int]
  <2>1. refs \in [ImplId -> Int]
    BY DEF TypeOK
  <2>2. refs' = [refs EXCEPT ![e.impl] = @ + 1]
    BY DEF InsertScheduler
  <2> QED  BY <2>1, <2>2, CounterType
<1> QED  BY <1>1, <1>2, <1>3

LEMMA InsertEventType ==
  ASSUME TypeOK, NEW e \in EventId, InsertEvent(e)
  PROVE  /\ clock' \in [Node -> ClockModel \cup {NoClock}]
         /\ clockEvents' \in [Node -> SUBSET EventId]
         /\ \A n \in Node : clock[n] \in ClockModel => clock'[n] \in ClockModel
<1>1. CASE e.ctx = NoContext
  BY <1>1 DEF InsertEvent, clockVars, TypeOK
<1>2. CASE e.ctx # NoContext
  <2>1. e.ctx \in Node
    BY <1>2 DEF EventId, Context
  <2>2. NodeClock(e.ctx) \in ClockModel
    BY <2>1, NodeClockType
  <2>3. Live(clockEvents[e.ctx]) \cup {e} \subseteq EventId
    BY <2>1 DEF Live, TypeOK
  <2>4. /\ clock' = [clock EXCEPT ![e.ctx] = NodeClock(e.ctx)]
        /\ clockEvents' = [clockEvents EXCEPT ![e.ctx] =
                             Live(clockEvents[e.ctx]) \cup {e}]
    BY <1>2, <2>1 DEF InsertEvent, TypeOK
  <2> QED  BY <2>1, <2>2, <2>3, <2>4 DEF TypeOK
<1> QED  BY <1>1, <1>2

LEMMA CancelReschedulingType ==
  ASSUME TypeOK, NEW id \in EventId, NEW newId \in EventId,
         CancelRescheduling(id, newId)
  PROVE  /\ DOMAIN cancelEventMap' \subseteq Nat
         /\ \A u \in DOMAIN cancelEventMap' : cancelEventMap'[u] \in EventId
<1>1. CASE IsExpired(id)
  BY <1>1 DEF CancelRescheduling, TypeOK
<1>2. CASE ~IsExpired(id)
  <2>1. cancelEventMap' =
          [u \in DOMAIN cancelEventMap \cup {id.uid} |->
             IF u \in DOMAIN cancelEventMap THEN cancelEventMap[u] ELSE newId]
    BY <1>2 DEF CancelRescheduling
  <2>2. id.uid \in Nat
    BY DEF EventId
  <2> QED  BY <2>1, <2>2 DEF TypeOK
<1> QED  BY <1>1, <1>2

LEMMA TakeOutType ==
  ASSUME TypeOK, NEW e, TakeOut(e)
  PROVE  events' \subseteq EventId /\ unscheduledEvents' \in Int
BY DEF TakeOut, TypeOK

LEMMA ProcessEventsWithContextType ==
  ASSUME TypeOK, ProcessEventsWithContext
  PROVE  /\ events' \subseteq EventId
         /\ uid' \in Nat
         /\ unscheduledEvents' \in Int
         /\ eventsWithContext' \in Seq([ctx : Node, delay : Nat, impl : Nat])
<1> DEFINE Item == [ctx : Node, delay : Nat, impl : Nat]
           Entry(i) == [uid  |-> uid + i - 1,
                        ts   |-> currentTs + eventsWithContext[i].delay,
                        ctx  |-> eventsWithContext[i].ctx,
                        impl |-> eventsWithContext[i].impl]
<1>1. eventsWithContext \in Seq(Item)
  BY DEF TypeOK
<1>2. Len(eventsWithContext) \in Nat
      /\ DOMAIN eventsWithContext = 1..Len(eventsWithContext)
  BY <1>1
<1>3. ASSUME NEW i \in DOMAIN eventsWithContext
      PROVE  Entry(i) \in EventId
  <2>1. i \in Nat /\ i >= 1
    BY <1>2
  <2>2. eventsWithContext[i] \in Item
    <3> HIDE DEF Item
    <3> QED  BY <1>1
  <2>3. /\ uid + i - 1 \in Nat
        /\ currentTs + eventsWithContext[i].delay \in Int
        /\ eventsWithContext[i].ctx \in Context
        /\ eventsWithContext[i].impl \in Nat
    BY <2>1, <2>2 DEF TypeOK, Context
  <2> QED  BY <2>3 DEF EventId
<1>4. events' = events \cup {Entry(i) : i \in DOMAIN eventsWithContext}
  BY DEF ProcessEventsWithContext
<1>5. events' \subseteq EventId
  BY <1>3, <1>4 DEF TypeOK
<1>6. uid' \in Nat /\ unscheduledEvents' \in Int
  BY <1>2 DEF ProcessEventsWithContext, TypeOK
<1>7. eventsWithContext' \in Seq(Item)
  BY DEF ProcessEventsWithContext
<1> QED  BY <1>5, <1>6, <1>7

-----------------------------------------------------------------------------
\* Each action preserves the types.

LEMMA FaultType ==
  ASSUME TypeInv, NEW what \in Faults, Fault(what)
  PROVE  TypeInv'
BY DEF TypeInv, TypeOK, ReschedulingOK, Fault, queueVars, currentVars,
       clockVars, historyVars

LEMMA ScheduleAfterType ==
  ASSUME TypeInv, NEW d \in Nat, ScheduleAfter(d)
  PROVE  TypeInv'
<1> DEFINE e == ScheduledId(d, impls + 1)
<1>1. impls + 1 \in Nat
  BY DEF TypeInv, TypeOK
<1>2. e \in EventId /\ CallerDue(d) \in Int
  BY <1>1, ScheduledIdType, CallerDueType DEF TypeInv
<1>3. CASE GlobalDelay(d) < 0
  BY <1>3, FaultType DEF ScheduleAfter, Faults
<1>4. CASE ~(GlobalDelay(d) < 0)
  <2> HIDE DEF e
  <2>1. /\ InsertScheduler(e)
        /\ InsertEvent(e)
        /\ impls' = impls + 1
        /\ handles' = handles \cup {e}
        /\ due' = [due EXCEPT ![e.impl] = CallerDue(d)]
        /\ UNCHANGED <<currentVars, stop, cancelEventMap, eventsWithContext,
             rescheduling, cancelled, phase, running, fault, ran, revoked,
             updates>>
    BY <1>4 DEF ScheduleAfter, e
  <2>2. /\ events' \subseteq EventId
        /\ uid' \in Nat
        /\ unscheduledEvents' \in Int
        /\ refs' \in [ImplId -> Int]
    BY <1>2, <2>1, InsertSchedulerType DEF TypeInv
  <2>3. /\ clock' \in [Node -> ClockModel \cup {NoClock}]
        /\ clockEvents' \in [Node -> SUBSET EventId]
        /\ \A n \in Node : clock[n] \in ClockModel => clock'[n] \in ClockModel
    BY <1>2, <2>1, InsertEventType DEF TypeInv
  <2>4. due' \in [ImplId -> Int]
    BY <1>2, <2>1 DEF TypeInv, TypeOK
  <2>5. handles' \subseteq EventId
    BY <1>2, <2>1 DEF TypeInv, TypeOK
  <2>6. ReschedulingOK'
    BY <2>1, <2>3 DEF TypeInv, ReschedulingOK
  <2>7. TypeOK'
    BY <1>1, <2>1, <2>2, <2>3, <2>4, <2>5 DEF TypeInv, TypeOK, currentVars
  <2> QED  BY <2>6, <2>7 DEF TypeInv
<1> QED  BY <1>3, <1>4

LEMMA ScheduleWithContextType ==
  ASSUME TypeInv, ScheduleWithContext
  PROVE  TypeInv'
<1>1. PICK ctx \in Node, d \in Delay :
        InsertScheduler([uid |-> uid, ts |-> currentTs + d, ctx |-> ctx,
                         impl |-> impls + 1])
  BY DEF ScheduleWithContext
<1>2. [uid |-> uid, ts |-> currentTs + d, ctx |-> ctx, impl |-> impls + 1]
        \in EventId
  BY DelayAssumption DEF TypeInv, TypeOK, EventId, Context
<1>3. /\ events' \subseteq EventId
      /\ uid' \in Nat
      /\ unscheduledEvents' \in Int
      /\ refs' \in [ImplId -> Int]
  BY <1>1, <1>2, InsertSchedulerType DEF TypeInv
<1> QED
  BY <1>3 DEF TypeInv, TypeOK, ReschedulingOK, ScheduleWithContext,
              currentVars, clockVars, historyVars

LEMMA WorkerScheduleWithContextType ==
  ASSUME TypeInv, WorkerScheduleWithContext
  PROVE  TypeInv'
<1> DEFINE Item == [ctx : Node, delay : Nat, impl : Nat]
<1>1. PICK ctx \in Node, d \in Delay :
        eventsWithContext' = Append(eventsWithContext,
                               [ctx |-> ctx, delay |-> d, impl |-> impls + 1])
  BY DEF WorkerScheduleWithContext
<1>2. [ctx |-> ctx, delay |-> d, impl |-> impls + 1] \in Item
  BY DelayAssumption DEF TypeInv, TypeOK
<1>3. eventsWithContext \in Seq(Item)
  BY DEF TypeInv, TypeOK
<1>4. eventsWithContext' \in Seq(Item)
  <2> HIDE DEF Item
  <2> QED  BY <1>1, <1>2, <1>3
<1>5. refs' \in [ImplId -> Int]
  <2>1. refs \in [ImplId -> Int]
    BY DEF TypeInv, TypeOK
  <2>2. refs' = [refs EXCEPT ![impls + 1] = @ + 1]
    BY DEF WorkerScheduleWithContext
  <2> QED  BY <2>1, <2>2, CounterType
<1> QED
  BY <1>4, <1>5 DEF TypeInv, TypeOK, ReschedulingOK,
       WorkerScheduleWithContext, queueVars, currentVars, clockVars, historyVars

LEMMA SetClockType ==
  ASSUME TypeInv, SetClock
  PROVE  TypeInv'
<1>1. PICK n \in Node, c \in Clock :
        /\ clock' = [clock EXCEPT ![n] = c]
        /\ clockEvents' = [clockEvents EXCEPT ![n] = {}]
        /\ rescheduling' =
             IF Live(clockEvents[n]) = {}
             THEN NotRescheduling
             ELSE [node |-> n, old |-> clock[n], list |-> Live(clockEvents[n])]
  BY DEF SetClock
<1>2. c \in ClockModel
  BY ClockAssumption
<1>3. Live(clockEvents[n]) \subseteq EventId
  BY DEF Live, TypeInv, TypeOK
<1>4. clock' \in [Node -> ClockModel \cup {NoClock}] /\ clock'[n] = c
  BY <1>1, <1>2 DEF TypeInv, TypeOK
<1>5. clockEvents' \in [Node -> SUBSET EventId]
  BY <1>1 DEF TypeInv, TypeOK
<1>6. rescheduling' \in [node : Context, old : ClockModel \cup {NoClock},
                         list : SUBSET EventId]
  BY <1>1, <1>3 DEF TypeInv, TypeOK, NotRescheduling, Context
<1>7. ReschedulingOK'
  BY <1>1, <1>2, <1>4 DEF ReschedulingOK, NotRescheduling
<1>8. updates' \in Nat
  BY DEF SetClock, TypeInv, TypeOK
<1> QED
  BY <1>4, <1>5, <1>6, <1>7, <1>8 DEF TypeInv, TypeOK, SetClock, queueVars,
                                      currentVars

LEMMA RescheduleOneType ==
  ASSUME TypeInv, RescheduleOne
  PROVE  TypeInv'
<1> DEFINE old == rescheduling.old
           remain(id) == GlobalToLocalDelay(old, currentTs, id.ts - currentTs)
           newId(id) == ScheduledId(remain(id), id.impl)
<1>1. PICK id \in rescheduling.list :
        IF GlobalDelay(remain(id)) < 0
        THEN Fault("NegativeDelay")
        ELSE /\ InsertScheduler(newId(id))
             /\ InsertEvent(newId(id))
             /\ CancelRescheduling(id, newId(id))
             /\ rescheduling' =
                  IF rescheduling.list \ {id} = {} THEN NotRescheduling
                  ELSE [rescheduling EXCEPT !.list = rescheduling.list \ {id}]
             /\ due' = [due EXCEPT ![id.impl] =
                          MovedDue(old, clock[rescheduling.node], id.impl)]
             /\ UNCHANGED <<currentVars, stop, eventsWithContext, impls,
                  cancelled, phase, running, fault, handles, ran, revoked,
                  updates>>
  BY DEF RescheduleOne
<1>2. id \in EventId
  BY DEF TypeInv, TypeOK
<1>3. CASE GlobalDelay(remain(id)) < 0
  BY <1>1, <1>3, FaultType DEF Faults
<1>4. CASE ~(GlobalDelay(remain(id)) < 0)
  <2>1. /\ old \in ClockModel \cup {NoClock}
        /\ rescheduling.node \in Node
        /\ clock[rescheduling.node] \in ClockModel
    BY DEF TypeInv, TypeOK, ReschedulingOK
  <2>2. remain(id) \in Int
    <3>1. old \in [num : Nat, den : Nat \ {0}, offset : Int]
      BY <2>1 DEF ClockModel, NoClock
    <3>2. currentTs \in Int /\ id.ts - currentTs \in Int
      BY <1>2 DEF TypeInv, TypeOK, EventId
    <3> HIDE DEF old
    <3> QED  BY <3>1, <3>2, GlobalToLocalDelayType
  <2>3. newId(id) \in EventId
    <3>1. id.impl \in Nat
      BY <1>2 DEF EventId
    <3> HIDE DEF remain
    <3> QED  BY <2>2, <3>1, ScheduledIdType DEF TypeInv
  <2> DEFINE new == newId(id)
             moved == MovedDue(old, clock[rescheduling.node], id.impl)
  <2>4. /\ InsertScheduler(new)
        /\ InsertEvent(new)
        /\ CancelRescheduling(id, new)
        /\ rescheduling' =
             IF rescheduling.list \ {id} = {} THEN NotRescheduling
             ELSE [rescheduling EXCEPT !.list = rescheduling.list \ {id}]
        /\ due' = [due EXCEPT ![id.impl] = moved]
        /\ UNCHANGED <<currentVars, stop, eventsWithContext, impls,
             cancelled, phase, running, fault, handles, ran, revoked,
             updates>>
    BY <1>1, <1>4
  <2>5. id.impl \in ImplId => moved \in Int
    <3> HIDE DEF old
    <3> QED  BY <2>1, MovedDueType DEF TypeInv
  <2>6. new \in EventId
    BY <2>3
  <2> HIDE DEF new, moved, newId, remain, old
  <2>7. /\ events' \subseteq EventId
        /\ uid' \in Nat
        /\ unscheduledEvents' \in Int
        /\ refs' \in [ImplId -> Int]
    BY <2>4, <2>6, InsertSchedulerType DEF TypeInv
  <2>8. /\ clock' \in [Node -> ClockModel \cup {NoClock}]
        /\ clockEvents' \in [Node -> SUBSET EventId]
        /\ \A n \in Node : clock[n] \in ClockModel => clock'[n] \in ClockModel
    BY <2>4, <2>6, InsertEventType DEF TypeInv
  <2>9. /\ DOMAIN cancelEventMap' \subseteq Nat
        /\ \A u \in DOMAIN cancelEventMap' : cancelEventMap'[u] \in EventId
    BY <1>2, <2>4, <2>6, CancelReschedulingType DEF TypeInv
  <2>10. due' \in [ImplId -> Int]
    BY <2>4, <2>5 DEF TypeInv, TypeOK
  <2>11. rescheduling' \in [node : Context, old : ClockModel \cup {NoClock},
                            list : SUBSET EventId]
    BY <2>4 DEF TypeInv, TypeOK, NotRescheduling, Context
  <2>12. rescheduling'.list # {} => rescheduling'.node = rescheduling.node
    BY <2>4 DEF TypeInv, TypeOK, NotRescheduling
  <2>13. ReschedulingOK'
    BY <2>1, <2>8, <2>12 DEF ReschedulingOK
  <2>14. TypeOK'
    BY <2>4, <2>7, <2>8, <2>9, <2>10, <2>11 DEF TypeInv, TypeOK, currentVars
  <2> QED  BY <2>13, <2>14 DEF TypeInv
<1> QED  BY <1>3, <1>4

LEMMA CancelType ==
  ASSUME TypeInv, Cancel
  PROVE  TypeInv'
<1>1. PICK id \in handles :
        /\ cancelled' = IF IsExpired(id) THEN cancelled
                        ELSE cancelled \cup {id.impl}
        /\ revoked' = revoked \cup ({id.impl} \cap PendingImpls)
  BY DEF Cancel
<1>2. id.impl \in Nat
  BY DEF TypeInv, TypeOK, EventId
<1>3. cancelled' \subseteq Nat /\ revoked' \subseteq Nat
  BY <1>1, <1>2 DEF TypeInv, TypeOK
<1> QED
  BY <1>3 DEF TypeInv, TypeOK, ReschedulingOK, Cancel, queueVars, currentVars,
              clockVars

LEMMA RemoveType ==
  ASSUME TypeInv, Remove
  PROVE  TypeInv'
<1>1. PICK id \in handles :
        IF id \notin events
        THEN Fault("NoSuchEvent")
        ELSE /\ TakeOut(id)
             /\ refs' = [refs EXCEPT ![id.impl] = @ - 1]
             /\ cancelled' = cancelled \cup {id.impl}
             /\ revoked' = revoked \cup ({id.impl} \cap PendingImpls)
             /\ UNCHANGED <<uid, currentVars, stop, cancelEventMap,
                  eventsWithContext, clockVars, rescheduling, impls, phase,
                  running, fault, handles, ran, due, updates>>
  BY DEF Remove
<1>2. id.impl \in Nat
  BY DEF TypeInv, TypeOK, EventId
<1>3. CASE id \notin events
  BY <1>1, <1>3, FaultType DEF Faults
<1>4. CASE id \in events
  <2>1. cancelled' \subseteq Nat /\ revoked' \subseteq Nat
    BY <1>1, <1>2, <1>4 DEF TypeInv, TypeOK
  <2>2. refs' \in [ImplId -> Int]
    <3>1. refs \in [ImplId -> Int]
      BY DEF TypeInv, TypeOK
    <3> QED  BY <1>1, <1>4, <3>1, CounterType
  <2>3. events' \subseteq EventId /\ unscheduledEvents' \in Int
    BY <1>1, <1>4, TakeOutType DEF TypeInv
  <2> QED
    BY <1>1, <1>4, <2>1, <2>2, <2>3 DEF TypeInv, TypeOK, ReschedulingOK,
                                       currentVars, clockVars
<1> QED  BY <1>3, <1>4

LEMMA StopType ==
  ASSUME TypeInv, Stop
  PROVE  TypeInv'
BY DEF TypeInv, TypeOK, ReschedulingOK, Stop, queueVars, currentVars,
       clockVars, historyVars

LEMMA RunType ==
  ASSUME TypeInv, Run
  PROVE  TypeInv'
<1>1. /\ events' \subseteq EventId
      /\ uid' \in Nat
      /\ unscheduledEvents' \in Int
      /\ eventsWithContext' \in Seq([ctx : Node, delay : Nat, impl : Nat])
  BY ProcessEventsWithContextType DEF Run, TypeInv
<1> QED
  BY <1>1 DEF TypeInv, TypeOK, ReschedulingOK, Run, currentVars, clockVars,
              historyVars

LEMMA RunReturnsType ==
  ASSUME TypeInv, RunReturns
  PROVE  TypeInv'
<1>1. CASE events = {} /\ unscheduledEvents # 0
  BY <1>1, FaultType DEF RunReturns, Faults
<1>2. CASE ~(events = {} /\ unscheduledEvents # 0)
  BY <1>2 DEF TypeInv, TypeOK, ReschedulingOK, RunReturns, queueVars,
              currentVars, clockVars, historyVars
<1> QED  BY <1>1, <1>2

LEMMA SkipSupersededType ==
  ASSUME TypeInv, NEW next \in events, SkipSuperseded(next)
  PROVE  TypeInv'
<1>1. events' \subseteq EventId /\ unscheduledEvents' \in Int
  BY TakeOutType DEF SkipSuperseded, TypeInv
<1>2. /\ DOMAIN cancelEventMap' \subseteq Nat
      /\ \A u \in DOMAIN cancelEventMap' : cancelEventMap'[u] \in EventId
  BY DEF SkipSuperseded, TypeInv, TypeOK
<1> QED
  BY <1>1, <1>2 DEF TypeInv, TypeOK, ReschedulingOK, SkipSuperseded,
                    currentVars, clockVars, historyVars

LEMMA InvokeType ==
  ASSUME TypeInv, NEW next \in events, Invoke(next)
  PROVE  TypeInv'
<1>1. /\ next.uid \in Nat
      /\ next.ts \in Int
      /\ next.ctx \in Context
      /\ next.impl \in Nat
  BY DEF TypeInv, TypeOK, EventId
<1>2. CASE next.ts < currentTs
  BY <1>2, FaultType DEF Invoke, Faults
<1>3. CASE ~(next.ts < currentTs)
  <2>1. /\ TakeOut(next)
        /\ currentTs' = next.ts
        /\ currentContext' = IF next.ctx = NoContext THEN currentContext
                                                     ELSE next.ctx
        /\ currentUid' = next.uid
        /\ running' = next.impl
        /\ IF next.impl \in cancelled
           THEN phase' = "skipped" /\ ran' = ran
           ELSE phase' = "event" /\ ran' = ran \cup {next.impl}
        /\ UNCHANGED <<uid, stop, cancelEventMap, eventsWithContext,
             clockVars, rescheduling, impls, refs, cancelled, fault, handles,
             revoked, due, updates>>
    BY <1>3 DEF Invoke
  <2>2. events' \subseteq EventId /\ unscheduledEvents' \in Int
    BY <2>1, TakeOutType DEF TypeInv
  <2>3. currentTs' \in Nat
    BY <1>1, <1>3, <2>1 DEF TypeInv, TypeOK
  <2>4. /\ currentUid' \in Nat
        /\ currentContext' \in Context
        /\ running' \in Nat
        /\ ran' \subseteq Nat
        /\ phase' \in {"ready", "loop", "event", "skipped"}
    BY <1>1, <2>1 DEF TypeInv, TypeOK
  <2> QED
    BY <2>1, <2>2, <2>3, <2>4 DEF TypeInv, TypeOK, ReschedulingOK, clockVars
<1> QED  BY <1>2, <1>3

LEMMA EventReturnsType ==
  ASSUME TypeInv, EventReturns
  PROVE  TypeInv'
<1>1. /\ events' \subseteq EventId
      /\ uid' \in Nat
      /\ unscheduledEvents' \in Int
      /\ eventsWithContext' \in Seq([ctx : Node, delay : Nat, impl : Nat])
  BY ProcessEventsWithContextType DEF EventReturns, TypeInv
<1>2. refs' \in [ImplId -> Int]
  <2>1. refs \in [ImplId -> Int]
    BY DEF TypeInv, TypeOK
  <2>2. refs' = [refs EXCEPT ![running] = @ - 1]
    BY DEF EventReturns
  <2> QED  BY <2>1, <2>2, CounterType
<1> QED
  BY <1>1, <1>2 DEF TypeInv, TypeOK, ReschedulingOK, EventReturns,
                    currentVars, clockVars, historyVars

-----------------------------------------------------------------------------
LEMMA TypeInvInit == Init => TypeInv
<1> SUFFICES ASSUME Init PROVE TypeInv
  OBVIOUS
<1>1. eventsWithContext \in Seq([ctx : Node, delay : Nat, impl : Nat])
  BY DEF Init
<1>2. /\ DOMAIN cancelEventMap \subseteq Nat
      /\ \A u \in DOMAIN cancelEventMap : cancelEventMap[u] \in EventId
  BY DEF Init
<1>3. /\ clock \in [Node -> ClockModel \cup {NoClock}]
      /\ clockEvents \in [Node -> SUBSET EventId]
      /\ refs \in [ImplId -> Int]
      /\ due \in [ImplId -> Int]
  BY DEF Init, NoDue
<1>4. rescheduling \in [node : Context, old : ClockModel \cup {NoClock},
                        list : SUBSET EventId]
  BY DEF Init, NotRescheduling, Context
<1>5. rescheduling.list = {}
  BY DEF Init, NotRescheduling
<1>6. /\ uid \in Nat /\ currentUid \in Nat /\ currentTs \in Nat
      /\ unscheduledEvents \in Int
      /\ impls \in Nat /\ running \in Nat /\ updates \in Nat
  BY DEF Init
<1>7. /\ events \subseteq EventId /\ handles \subseteq EventId
      /\ cancelled \subseteq Nat /\ ran \subseteq Nat /\ revoked \subseteq Nat
  BY DEF Init
<1>8. /\ currentContext \in Context
      /\ stop \in BOOLEAN
      /\ phase \in {"ready", "loop", "event", "skipped"}
      /\ fault \in Faults
  BY DEF Init, Context, Faults
<1>9. TypeOK
  BY <1>1, <1>2, <1>3, <1>4, <1>6, <1>7, <1>8 DEF TypeOK
<1> QED  BY <1>5, <1>9 DEF TypeInv, ReschedulingOK

LEMMA TypeInvNext == TypeInv /\ [Next]_vars => TypeInv'
<1> SUFFICES ASSUME TypeInv, [Next]_vars PROVE TypeInv'
  OBVIOUS
<1>1. CASE Schedule
  BY <1>1, ScheduleAfterType, DelayAssumption DEF Schedule
<1>2. CASE ScheduleNow
  BY <1>2, ScheduleAfterType DEF ScheduleNow
<1>3. CASE ScheduleWithContext
  BY <1>3, ScheduleWithContextType
<1>4. CASE WorkerScheduleWithContext
  BY <1>4, WorkerScheduleWithContextType
<1>5. CASE SetClock
  BY <1>5, SetClockType
<1>6. CASE RescheduleOne
  BY <1>6, RescheduleOneType
<1>7. CASE Cancel
  BY <1>7, CancelType
<1>8. CASE Remove
  BY <1>8, RemoveType
<1>9. CASE Stop
  BY <1>9, StopType
<1>10. CASE Run
  BY <1>10, RunType
<1>11. CASE RunReturns
  BY <1>11, RunReturnsType
<1>12. CASE ProcessOneEvent
  BY <1>12, SkipSupersededType, InvokeType DEF ProcessOneEvent
<1>13. CASE EventReturns
  BY <1>13, EventReturnsType
<1>14. CASE UNCHANGED vars
  BY <1>14 DEF TypeInv, TypeOK, ReschedulingOK, vars, queueVars, currentVars,
               clockVars, historyVars
<1> QED
  BY <1>1, <1>2, <1>3, <1>4, <1>5, <1>6, <1>7, <1>8, <1>9, <1>10, <1>11,
     <1>12, <1>13, <1>14 DEF Next

\* Every variable of the simulator keeps its type, whatever the clocks, the
\* nodes, the delays and the order of the calls.
THEOREM TypeCorrect == Spec => []TypeOK
<1>1. Init => TypeInv
  BY TypeInvInit
<1>2. TypeInv /\ [Next]_vars => TypeInv'
  BY TypeInvNext
<1>3. TypeInv => TypeOK
  BY DEF TypeInv
<1> QED  BY <1>1, <1>2, <1>3, PTL DEF Spec

-----------------------------------------------------------------------------
(***************************************************************************)
(* The queue.  QueueAhead and CountsTheQueue are the reason why the two    *)
(* assertions of the simulator hold, and each other's only company: the    *)
(* conjunction is inductive.                                               *)
(***************************************************************************)
QueueOK == /\ QueueAhead
           /\ IsFiniteSet(events)
           /\ CountsTheQueue
           /\ AssertionsHold

IInv == TypeInv /\ QueueOK

\* Some calls touch neither the queue nor the position in it.
LEMMA QueueUnchanged ==
  ASSUME QueueOK, UNCHANGED <<queueVars, currentUid, currentTs, fault>>
  PROVE  QueueOK'
BY DEF QueueOK, QueueAhead, CountsTheQueue, AssertionsHold, queueVars

LEMMA FaultQueue ==
  ASSUME QueueOK, NEW what \in {"NegativeDelay", "NoSuchEvent"}, Fault(what)
  PROVE  QueueOK'
BY DEF QueueOK, QueueAhead, CountsTheQueue, AssertionsHold, Fault, queueVars,
       currentVars

\* A new entry has the next uid and is not due before the current time.
LEMMA InsertSchedulerQueue ==
  ASSUME IInv, NEW e \in EventId, e.uid = uid, e.ts >= currentTs,
         InsertScheduler(e), UNCHANGED <<currentUid, currentTs, fault>>
  PROVE  QueueOK'
<1>1. /\ events' = events \cup {e}
      /\ uid' = uid + 1
      /\ unscheduledEvents' = unscheduledEvents + 1
  BY DEF InsertScheduler
<1>2. /\ uid \in Nat /\ currentUid \in Nat /\ currentTs \in Nat
      /\ e.ts \in Int
      /\ \A f \in events : f.uid \in Nat /\ f.ts \in Int
  BY DEF IInv, TypeInv, TypeOK, EventId
<1>3. e \notin events
  BY <1>2 DEF IInv, QueueOK, QueueAhead
<1>4. QueueAhead'
  BY <1>1, <1>2 DEF IInv, QueueOK, QueueAhead
<1>5. IsFiniteSet(events') /\ Cardinality(events') = Cardinality(events) + 1
  BY <1>1, <1>3, FS_AddElement DEF IInv, QueueOK
<1>6. CountsTheQueue'
  BY <1>1, <1>5 DEF IInv, QueueOK, CountsTheQueue
<1> QED  BY <1>4, <1>5, <1>6 DEF IInv, QueueOK, AssertionsHold

\* Taking an entry out counts it out.
LEMMA TakeOutQueue ==
  ASSUME IInv, NEW e \in events, TakeOut(e)
  PROVE  IsFiniteSet(events') /\ CountsTheQueue'
<1>1. /\ events' = events \ {e}
      /\ unscheduledEvents' = unscheduledEvents - 1
  BY DEF TakeOut
<1>2. IsFiniteSet(events') /\ Cardinality(events') = Cardinality(events) - 1
  BY <1>1, FS_RemoveElement DEF IInv, QueueOK
<1> QED  BY <1>1, <1>2 DEF IInv, QueueOK, CountsTheQueue

LEMMA DropQueue ==
  ASSUME IInv, NEW e \in events, TakeOut(e),
         UNCHANGED <<uid, currentUid, currentTs, fault>>
  PROVE  QueueOK'
<1>1. events' \subseteq events
  BY DEF TakeOut
<1>2. QueueAhead'
  BY <1>1 DEF IInv, QueueOK, QueueAhead
<1> QED  BY <1>2, TakeOutQueue DEF IInv, QueueOK, AssertionsHold

\* The other threads' batch gets consecutive new uids.
LEMMA ProcessEventsWithContextQueue ==
  ASSUME IInv, ProcessEventsWithContext,
         UNCHANGED <<currentUid, currentTs, fault>>
  PROVE  QueueOK'
<1> DEFINE n == Len(eventsWithContext)
           Item == [ctx : Node, delay : Nat, impl : Nat]
           Entry(i) == [uid  |-> uid + i - 1,
                        ts   |-> currentTs + eventsWithContext[i].delay,
                        ctx  |-> eventsWithContext[i].ctx,
                        impl |-> eventsWithContext[i].impl]
           batch == {Entry(i) : i \in 1..n}
<1>1. eventsWithContext \in Seq(Item)
  BY DEF IInv, TypeInv, TypeOK
<1>2. n \in Nat /\ DOMAIN eventsWithContext = 1..n
  BY <1>1
<1>3. /\ events' = events \cup batch
      /\ uid' = uid + n
      /\ unscheduledEvents' = unscheduledEvents + n
  BY <1>2 DEF ProcessEventsWithContext
<1>4. ASSUME NEW i \in 1..n
      PROVE  /\ Entry(i).uid = uid + i - 1
             /\ Entry(i).ts \in Int /\ Entry(i).ts >= currentTs
  <2>1. eventsWithContext[i] \in Item
    <3> HIDE DEF Item
    <3> QED  BY <1>1, <1>2
  <2>2. eventsWithContext[i].delay \in Nat /\ currentTs \in Nat
    BY <2>1 DEF IInv, TypeInv, TypeOK
  <2> QED  BY <2>2
<1>5. /\ uid \in Nat /\ currentUid \in Nat /\ currentTs \in Nat
      /\ \A f \in events : f.uid \in Nat /\ f.ts \in Int
  BY DEF IInv, TypeInv, TypeOK, EventId
<1> HIDE DEF Entry
<1>6. \A e \in batch : /\ e.uid \in Nat /\ e.uid >= uid /\ e.uid < uid + n
                       /\ e.ts \in Int /\ e.ts >= currentTs
  BY <1>2, <1>4, <1>5
<1>7. \A i, j \in 1..n : Entry(i).uid = Entry(j).uid => i = j
  BY <1>2, <1>4, <1>5
<1>8. \A e, f \in batch : e.uid = f.uid => e = f
  BY <1>7
<1>9. QueueAhead'
  <2> HIDE DEF batch
  <2>1. currentUid < uid /\ \A e \in events :
          /\ e.uid < uid
          /\ e.ts > currentTs \/ (e.ts = currentTs /\ e.uid > currentUid)
    BY DEF IInv, QueueOK, QueueAhead
  <2>2. \A e, f \in events : e.uid = f.uid => e = f
    BY DEF IInv, QueueOK, QueueAhead
  <2>3. currentUid' < uid'
    BY <1>2, <1>3, <1>5, <2>1
  <2>4. \A e \in events' :
          /\ e.uid < uid'
          /\ e.ts > currentTs \/ (e.ts = currentTs /\ e.uid > currentUid)
    BY <1>2, <1>3, <1>5, <1>6, <2>1
  <2>5. \A e, f \in events' : e.uid = f.uid => e = f
    BY <1>3, <1>5, <1>6, <1>8, <2>1, <2>2
  <2> QED  BY <2>3, <2>4, <2>5 DEF QueueAhead
<1>10. IsFiniteSet(batch) /\ Cardinality(batch) = n
  <2> DEFINE f == [i \in 1..n |-> Entry(i)]
  <2>1. f \in Surjection(1..n, batch)
    BY DEF Surjection
  <2>2. f \in Injection(1..n, batch)
    BY <1>7 DEF Injection, IsInjective
  <2>3. f \in Bijection(1..n, batch)
    BY <2>1, <2>2 DEF Bijection
  <2>4. ExistsBijection(1..n, batch)
    BY <2>3 DEF ExistsBijection
  <2> HIDE DEF batch
  <2>5. IsFiniteSet(1..n) /\ Cardinality(1..n) = n
    <3> HIDE DEF n
    <3>1. /\ IsFiniteSet(1..n)
          /\ Cardinality(1..n) = IF 1 > n THEN 0 ELSE n - 1 + 1
      BY <1>2, FS_Interval
    <3> QED  BY <1>2, <3>1
  <2> QED  BY <2>4, <2>5, FS_Bijection
<1>11. events \cap batch = {}
  BY <1>5, <1>6 DEF IInv, QueueOK, QueueAhead
<1>12. IsFiniteSet(events') /\ CountsTheQueue'
  <2> HIDE DEF batch
  <2>1. IsFiniteSet(events) /\ unscheduledEvents = Cardinality(events)
    BY DEF IInv, QueueOK, CountsTheQueue
  <2>2. /\ IsFiniteSet(events \cup batch)
        /\ Cardinality(events \cup batch) =
             Cardinality(events) + Cardinality(batch)
    <3>1. /\ IsFiniteSet(events \cup batch)
          /\ Cardinality(events \cup batch) =
               Cardinality(events) + Cardinality(batch)
                 - Cardinality(events \cap batch)
      BY <1>10, <2>1, FS_Union
    <3>2. Cardinality(events \cap batch) = 0
      BY <1>11, FS_EmptySet
    <3>3. Cardinality(events) \in Nat
      BY <2>1, FS_CardinalityType
    <3> QED  BY <1>2, <1>10, <3>1, <3>2, <3>3
  <2> QED  BY <1>3, <1>10, <2>1, <2>2 DEF CountsTheQueue
<1> QED  BY <1>9, <1>12 DEF IInv, QueueOK, AssertionsHold

LEMMA ScheduleAfterQueue ==
  ASSUME IInv, NEW d \in Nat, ScheduleAfter(d)
  PROVE  QueueOK'
<1> DEFINE e == ScheduledId(d, impls + 1)
<1>1. CASE GlobalDelay(d) < 0
  BY <1>1, FaultQueue DEF ScheduleAfter, IInv
<1>2. CASE ~(GlobalDelay(d) < 0)
  <2>1. impls + 1 \in Nat /\ currentTs \in Nat /\ GlobalDelay(d) \in Int
    BY GlobalDelayType DEF IInv, TypeInv, TypeOK
  <2>2. e \in EventId /\ e.uid = uid /\ e.ts >= currentTs
    BY <1>2, <2>1, ScheduledIdType DEF IInv, TypeInv
  <2>3. InsertScheduler(e) /\ UNCHANGED <<currentUid, currentTs, fault>>
    BY <1>2 DEF ScheduleAfter, currentVars
  <2> HIDE DEF e
  <2> QED  BY <2>2, <2>3, InsertSchedulerQueue
<1> QED  BY <1>1, <1>2

LEMMA ScheduleWithContextQueue ==
  ASSUME IInv, ScheduleWithContext
  PROVE  QueueOK'
<1>1. PICK ctx \in Node, d \in Delay :
        InsertScheduler([uid |-> uid, ts |-> currentTs + d, ctx |-> ctx,
                         impl |-> impls + 1])
  BY DEF ScheduleWithContext
<1> DEFINE e == [uid |-> uid, ts |-> currentTs + d, ctx |-> ctx,
                 impl |-> impls + 1]
<1>2. e \in EventId /\ e.uid = uid /\ e.ts >= currentTs
  BY DelayAssumption DEF IInv, TypeInv, TypeOK, EventId, Context
<1>3. UNCHANGED <<currentUid, currentTs, fault>>
  BY DEF ScheduleWithContext, currentVars
<1>4. InsertScheduler(e)
  BY <1>1
<1> HIDE DEF e
<1> QED  BY <1>2, <1>3, <1>4, InsertSchedulerQueue

LEMMA RescheduleOneQueue ==
  ASSUME IInv, RescheduleOne
  PROVE  QueueOK'
<1> DEFINE old == rescheduling.old
           remain(id) == GlobalToLocalDelay(old, currentTs, id.ts - currentTs)
           newId(id) == ScheduledId(remain(id), id.impl)
<1>1. PICK id \in rescheduling.list :
        IF GlobalDelay(remain(id)) < 0
        THEN Fault("NegativeDelay")
        ELSE InsertScheduler(newId(id)) /\ UNCHANGED <<currentVars, fault>>
  BY DEF RescheduleOne
<1>2. CASE GlobalDelay(remain(id)) < 0
  BY <1>1, <1>2, FaultQueue DEF IInv
<1>3. CASE ~(GlobalDelay(remain(id)) < 0)
  <2>1. /\ id.impl \in Nat /\ id.ts \in Int /\ currentTs \in Nat
        /\ old \in ClockModel \cup {NoClock}
    BY DEF IInv, TypeInv, TypeOK, EventId
  <2>2. old \in [num : Nat, den : Nat \ {0}, offset : Int]
    BY <2>1 DEF ClockModel, NoClock
  <2>3. remain(id) \in Int
    BY <2>1, <2>2, GlobalToLocalDelayType
  <2>4. GlobalDelay(remain(id)) \in Int
    BY <2>3, GlobalDelayType DEF IInv, TypeInv
  <2>5. /\ newId(id) \in EventId /\ newId(id).uid = uid
        /\ newId(id).ts = currentTs + GlobalDelay(remain(id))
    BY <2>1, <2>3, ScheduledIdType DEF IInv, TypeInv
  <2>6. newId(id).ts >= currentTs
    BY <1>3, <2>1, <2>4, <2>5
  <2>7. InsertScheduler(newId(id)) /\ UNCHANGED <<currentUid, currentTs, fault>>
    BY <1>1, <1>3 DEF currentVars
  <2> HIDE DEF newId
  <2> QED  BY <2>5, <2>6, <2>7, InsertSchedulerQueue
<1> QED  BY <1>2, <1>3

LEMMA RemoveQueue ==
  ASSUME IInv, Remove
  PROVE  QueueOK'
<1>1. PICK id \in handles :
        IF id \notin events
        THEN Fault("NoSuchEvent")
        ELSE TakeOut(id) /\ UNCHANGED <<uid, currentVars, fault>>
  BY DEF Remove
<1>2. CASE id \notin events
  BY <1>1, <1>2, FaultQueue DEF IInv
<1>3. CASE id \in events
  BY <1>1, <1>3, DropQueue DEF currentVars
<1> QED  BY <1>2, <1>3

\* The queue is empty, so its counter is 0: nothing was lost.
LEMMA RunReturnsQueue ==
  ASSUME IInv, RunReturns
  PROVE  QueueOK'
<1>1. ~(events = {} /\ unscheduledEvents # 0)
  BY FS_EmptySet DEF IInv, QueueOK, CountsTheQueue
<1> QED  BY <1>1, QueueUnchanged DEF RunReturns, IInv, currentVars

\* The next event is not late, and everything else comes after it.
LEMMA InvokeQueue ==
  ASSUME IInv, NEW next \in events, IsFirst(next, events), Invoke(next)
  PROVE  /\ QueueOK'
         /\ \/ currentTs' > currentTs
            \/ currentTs' = currentTs /\ currentUid' > currentUid
<1>1. /\ uid \in Nat /\ currentUid \in Nat /\ currentTs \in Nat
      /\ \A e \in events : e.uid \in Nat /\ e.ts \in Int
  BY DEF IInv, TypeInv, TypeOK, EventId
<1>2. ~(next.ts < currentTs)
  BY <1>1 DEF IInv, QueueOK, QueueAhead
<1>3. /\ TakeOut(next) /\ currentTs' = next.ts /\ currentUid' = next.uid
      /\ UNCHANGED <<uid, fault>>
  BY <1>2 DEF Invoke
<1>4. events' = events \ {next}
  BY <1>3 DEF TakeOut
<1>5. \A e \in events' : Before(next, e)
  BY <1>4 DEF IsFirst
<1>6. QueueAhead'
  BY <1>1, <1>3, <1>4, <1>5 DEF IInv, QueueOK, QueueAhead, Before
<1>7. \/ currentTs' > currentTs
      \/ currentTs' = currentTs /\ currentUid' > currentUid
  BY <1>1, <1>3 DEF IInv, QueueOK, QueueAhead
<1> QED  BY <1>3, <1>6, <1>7, TakeOutQueue DEF IInv, QueueOK, AssertionsHold

LEMMA IInvInit == Init => IInv
<1> SUFFICES ASSUME Init PROVE IInv
  OBVIOUS
<1>1. QueueAhead /\ AssertionsHold
  BY DEF Init, QueueAhead, AssertionsHold
<1>2. IsFiniteSet(events) /\ CountsTheQueue
  BY FS_EmptySet DEF Init, CountsTheQueue
<1> QED  BY <1>1, <1>2, TypeInvInit DEF IInv, QueueOK

LEMMA IInvNext == IInv /\ [Next]_vars => IInv'
<1> SUFFICES ASSUME IInv, [Next]_vars PROVE QueueOK'
  BY TypeInvNext DEF IInv
<1>1. CASE Schedule
  BY <1>1, ScheduleAfterQueue, DelayAssumption DEF Schedule
<1>2. CASE ScheduleNow
  BY <1>2, ScheduleAfterQueue DEF ScheduleNow
<1>3. CASE ScheduleWithContext
  BY <1>3, ScheduleWithContextQueue
<1>4. CASE RescheduleOne
  BY <1>4, RescheduleOneQueue
<1>5. CASE Remove
  BY <1>5, RemoveQueue
<1>6. CASE WorkerScheduleWithContext \/ SetClock \/ Cancel \/ Stop
  BY <1>6, QueueUnchanged DEF IInv, WorkerScheduleWithContext, SetClock,
       Cancel, Stop, currentVars
<1>7. CASE Run \/ EventReturns
  BY <1>7, ProcessEventsWithContextQueue DEF Run, EventReturns, currentVars
<1>8. CASE RunReturns
  BY <1>8, RunReturnsQueue
<1>9. CASE ProcessOneEvent
  <2>1. PICK next \in events :
          /\ IsFirst(next, events)
          /\ IF Superseded(next) THEN SkipSuperseded(next) ELSE Invoke(next)
    BY <1>9 DEF ProcessOneEvent
  <2>2. CASE Superseded(next)
    BY <2>1, <2>2, DropQueue DEF SkipSuperseded, currentVars
  <2>3. CASE ~Superseded(next)
    BY <2>1, <2>3, InvokeQueue
  <2> QED  BY <2>2, <2>3
<1>10. CASE UNCHANGED vars
  BY <1>10, QueueUnchanged DEF IInv, vars, currentVars
<1> QED
  BY <1>1, <1>2, <1>3, <1>4, <1>5, <1>6, <1>7, <1>8, <1>9, <1>10 DEF Next

LEMMA IInvAlways == Spec => []IInv
<1>1. Init => IInv
  BY IInvInit
<1>2. IInv /\ [Next]_vars => IInv'
  BY IInvNext
<1> QED  BY <1>1, <1>2, PTL DEF Spec

\* No entry of the queue is ever late, whatever the clocks do to the delays.
THEOREM NothingLate == Spec => []QueueAhead
<1>1. IInv => QueueAhead
  BY DEF IInv, QueueOK
<1> QED  BY <1>1, IInvAlways, PTL

\* m_unscheduledEvents is the length of the queue.
THEOREM NothingLost == Spec => []CountsTheQueue
<1>1. IInv => CountsTheQueue
  BY DEF IInv, QueueOK
<1> QED  BY <1>1, IInvAlways, PTL

\* The assertion on the time of the next event (line 163) and the one at the
\* end of Run (line 237) never fail.
THEOREM AssertionsNeverFail == Spec => []AssertionsHold
<1>1. IInv => AssertionsHold
  BY DEF IInv, QueueOK
<1> QED  BY <1>1, IInvAlways, PTL

\* The four together: the queue, its counter, the position of the simulator
\* in it and the assertions are consistent in every state.
THEOREM Consistency == Spec => []Consistent
<1>1. TypeOK /\ QueueAhead /\ CountsTheQueue /\ AssertionsHold <=> Consistent
  BY DEF Consistent
<1> QED
  BY <1>1, TypeCorrect, NothingLate, NothingLost, AssertionsNeverFail, PTL

\* Events are executed in the order of Scheduler::EventKey.
THEOREM ExecutionInOrder == Spec => InOrder
<1> DEFINE Forward ==
      phase = "loop" /\ phase' \in {"event", "skipped"} =>
        \/ currentTs' > currentTs
        \/ currentTs' = currentTs /\ currentUid' > currentUid
<1>1. IInv /\ [Next]_vars => [Forward]_vars
  <2> SUFFICES ASSUME IInv, Next, phase = "loop",
                      phase' \in {"event", "skipped"}
               PROVE  \/ currentTs' > currentTs
                      \/ currentTs' = currentTs /\ currentUid' > currentUid
    OBVIOUS
  <2>1. CASE ProcessOneEvent
    <3>1. PICK next \in events :
            /\ IsFirst(next, events)
            /\ IF Superseded(next) THEN SkipSuperseded(next) ELSE Invoke(next)
      BY <2>1 DEF ProcessOneEvent
    <3>2. ~Superseded(next)
      BY <3>1 DEF SkipSuperseded
    <3> QED  BY <3>1, <3>2, InvokeQueue
  <2>2. CASE ~ProcessOneEvent
    BY <2>2 DEF Next, Schedule, ScheduleNow, ScheduleAfter, CallerRuns,
         ScheduleWithContext, WorkerScheduleWithContext, SetClock,
         RescheduleOne, Cancel, Remove, Stop, Run, RunReturns, EventReturns,
         Fault
  <2> QED  BY <2>1, <2>2
<1>2. [][Forward]_vars <=> InOrder
  BY PTL DEF InOrder
<1> QED  BY <1>1, IInvAlways, PTL DEF Spec, InOrder

-----------------------------------------------------------------------------
(***************************************************************************)
(* IsExpired follows the map from uid to uid.  The uids it meets grow and  *)
(* are bounded by m_uid, so that the recursion ends; what a chain ends in  *)
(* is compared with the position of the simulator and with what was        *)
(* cancelled.                                                              *)
(***************************************************************************)
MapInv == \A u \in DOMAIN cancelEventMap :
            u < cancelEventMap[u].uid /\ cancelEventMap[u].uid < uid

Past(e) == e.ts < currentTs \/ (e.ts = currentTs /\ e.uid <= currentUid)
Over(e) == Past(e) \/ e.impl \in cancelled

\* Induction on the natural numbers, for a set of them.
LEMMA NatSetInduction ==
  ASSUME NEW S \in SUBSET Nat, 0 \in S, \A n \in S : n + 1 \in S
  PROVE  S = Nat
<1> DEFINE R == {ss \in Nat \X Nat : ss[1] < ss[2]}
           T == Nat \ S
<1>1. SUFFICES ASSUME T # {} PROVE FALSE
  OBVIOUS
<1>2. IsWellFoundedOn(R, Nat)
  BY NatLessThanWellFounded DEF OpToRel
<1>3. PICK n \in T : \A m \in T : <<m, n>> \notin R
  <2>1. T \subseteq Nat
    OBVIOUS
  <2> HIDE DEF R, T
  <2> QED  BY <1>1, <1>2, <2>1, WFMin
<1>4. n \in Nat /\ n # 0
  OBVIOUS
<1>5. n - 1 \in Nat /\ n - 1 \notin T
  <2>1. n - 1 \in Nat /\ n - 1 < n
    BY <1>4
  <2>2. <<n - 1, n>> \in R
    BY <1>4, <2>1
  <2> QED  BY <1>3, <2>1, <2>2
<1> QED  BY <1>4, <1>5

\* The recursion of IsExpired has a solution.
LEMMA ExpiredExists ==
  ASSUME TypeOK, MapInv
  PROVE  \E f : f = [e \in EventId |->
                       IF Superseded(e) THEN f[cancelEventMap[e.uid]]
                                        ELSE Over(e)]
<1> DEFINE Step(f, e) == IF Superseded(e) THEN f[cancelEventMap[e.uid]]
                                          ELSE Over(e)
           Solves(f, n) == \A e \in EventId : e.uid + n >= uid => f[e] = Step(f, e)
           S == {n \in Nat : \E f \in [EventId -> BOOLEAN] : Solves(f, n)}
<1>1. /\ uid \in Nat /\ \A e \in EventId : e.uid \in Nat
      /\ \A e \in EventId : Superseded(e) =>
           /\ cancelEventMap[e.uid] \in EventId
           /\ e.uid < cancelEventMap[e.uid].uid
           /\ cancelEventMap[e.uid].uid < uid
  BY DEF TypeOK, MapInv, EventId, Superseded
<1>2. \A e : Over(e) \in BOOLEAN
  BY DEF Over, Past
<1>3. 0 \in S
  <2> DEFINE f == [e \in EventId |-> Over(e)]
  <2>1. f \in [EventId -> BOOLEAN]
    BY <1>2
  <2>2. ASSUME NEW e \in EventId, e.uid + 0 >= uid
        PROVE  f[e] = Step(f, e)
    BY <1>1, <2>2
  <2> QED  BY <2>1, <2>2
<1>4. ASSUME NEW n \in S PROVE n + 1 \in S
  <2>1. PICK f \in [EventId -> BOOLEAN] : Solves(f, n)
    OBVIOUS
  <2> DEFINE g == [e \in EventId |->
                     IF e.uid + n >= uid THEN f[e] ELSE Step(f, e)]
  <2>2. \A e \in EventId : Step(f, e) \in BOOLEAN
    BY <1>1, <1>2
  <2>3. g \in [EventId -> BOOLEAN]
    BY <2>2
  <2>4. ASSUME NEW e \in EventId, e.uid + (n + 1) >= uid
        PROVE  g[e] = Step(g, e)
    <3>1. n \in Nat
      OBVIOUS
    <3>2. g[e] = Step(f, e)
      BY <2>1
    <3>3. CASE Superseded(e)
      <4>1. cancelEventMap[e.uid].uid + n >= uid
        BY <1>1, <2>4, <3>1, <3>3
      <4>2. g[cancelEventMap[e.uid]] = f[cancelEventMap[e.uid]]
        BY <1>1, <3>3, <4>1
      <4> QED  BY <3>2, <3>3, <4>2
    <3>4. CASE ~Superseded(e)
      BY <3>2, <3>4
    <3> QED  BY <3>3, <3>4
  <2>5. Solves(g, n + 1)
    BY <2>4
  <2>6. \E h \in [EventId -> BOOLEAN] : Solves(h, n + 1)
    <3> HIDE DEF g, Solves
    <3> QED  BY <2>3, <2>5
  <2>7. n + 1 \in Nat
    OBVIOUS
  <2> QED  BY <2>6, <2>7
<1>5. uid \in S
  <2> HIDE DEF S
  <2>1. S \subseteq Nat
    BY DEF S
  <2> QED  BY <1>1, <1>3, <1>4, <2>1, NatSetInduction
<1>6. PICK f \in [EventId -> BOOLEAN] : Solves(f, uid)
  BY <1>5
<1>7. \A e \in EventId : f[e] = Step(f, e)
  BY <1>1, <1>6
<1>8. f = [e \in EventId |-> Step(f, e)]
  BY <1>7
<1> QED  BY <1>8

\* IsExpired is what its definition says.
LEMMA ExpiredFollows ==
  ASSUME TypeOK, MapInv, NEW id \in EventId
  PROVE  IsExpired(id) = IF Superseded(id)
                         THEN IsExpired(cancelEventMap[id.uid])
                         ELSE Over(id)
<1> DEFINE expired[e \in EventId] ==
             IF Superseded(e)
             THEN expired[cancelEventMap[e.uid]]
             ELSE \/ e.ts < currentTs
                  \/ e.ts = currentTs /\ e.uid <= currentUid
                  \/ e.impl \in cancelled
           P(g) == g = [e \in EventId |->
                          IF Superseded(e)
                          THEN g[cancelEventMap[e.uid]]
                          ELSE \/ e.ts < currentTs
                               \/ e.ts = currentTs /\ e.uid <= currentUid
                               \/ e.impl \in cancelled]
<1>1. \E f : P(f)
  BY ExpiredExists DEF Over, Past
<1>2. expired = CHOOSE g : P(g)
  OBVIOUS
<1>3. P(CHOOSE g : P(g))
  BY <1>1
<1>4. P(expired)
  BY <1>2, <1>3
<1>5. \A e : IsExpired(e) = expired[e]
  BY DEF IsExpired
<1> HIDE DEF expired
<1> QED  BY <1>4, <1>5 DEF Over, Past

-----------------------------------------------------------------------------
(***************************************************************************)
(* One entry per activity.  Every EventImpl was given out once (NamesInv); *)
(* one that waits in the other threads' list is nowhere else (FreshInv);   *)
(* and the lists of the LocalClocks hold no superseded EventId, and none   *)
(* that has left the queue unless it is over (TrackInv).                   *)
(***************************************************************************)
Tracked == {e \in EventId : \/ e \in rescheduling.list
                            \/ \E n \in Node : e \in clockEvents[n]}
Known == events \cup handles \cup Tracked

NamesInv ==
  /\ impls <= MaxImpls
  /\ \A e \in Known : e.impl \in 1..impls
  /\ ran \cup cancelled \cup revoked \subseteq 1..impls
  /\ \A i \in ImplId : i > impls => due[i] = NoDue

FreshInv ==
  /\ \A k \in DOMAIN eventsWithContext :
       LET i == eventsWithContext[k].impl IN
         /\ i \in 1..impls /\ due[i] = NoDue
         /\ i \notin ran \cup cancelled \cup revoked
         /\ \A e \in Known : e.impl # i
  /\ \A k, l \in DOMAIN eventsWithContext :
       eventsWithContext[k].impl = eventsWithContext[l].impl => k = l

TrackInv ==
  /\ \A n \in Node : \A e \in clockEvents[n] : e.ctx = n
  /\ \A n \in Node : clockEvents[n] \cap rescheduling.list = {}
  /\ \A e \in Tracked : /\ e.uid < uid /\ ~Superseded(e)
                        /\ e \in events \/ Over(e)
  /\ \A e, f \in Tracked : e.uid = f.uid => e = f
  /\ \A e \in rescheduling.list : ~Over(e)
  /\ rescheduling.list # {} => phase \in {"ready", "event"}

EntryInv == NamesInv /\ FreshInv /\ MapInv /\ TrackInv
            /\ OneEntryPerImpl /\ PendingIsTracked

\* What a LocalClock knows is expired if it is over.
LEMMA LiveIsNotOver ==
  ASSUME IInv, EntryInv, NEW list \in SUBSET Tracked
  PROVE  Live(list) = {e \in list : ~Over(e)}
<1>1. \A e \in list : e \in EventId /\ ~Superseded(e)
  BY DEF EntryInv, TrackInv, Tracked
<1>2. \A e \in list : IsExpired(e) = Over(e)
  BY <1>1, ExpiredFollows DEF IInv, TypeInv, EntryInv
<1> QED  BY <1>2 DEF Live

\* An entry of the queue is over only if it was cancelled.
LEMMA QueuedIsNotPast ==
  ASSUME IInv, NEW e \in events
  PROVE  ~Past(e)
<1>1. /\ uid \in Nat /\ currentUid \in Nat /\ currentTs \in Nat
      /\ e.uid \in Nat /\ e.ts \in Int
  BY DEF IInv, TypeInv, TypeOK, EventId
<1> QED  BY <1>1 DEF IInv, QueueOK, QueueAhead, Past

\* The lists of the LocalClocks after InsertEvent: nothing that is not over is
\* lost, and the new EventId is in the list of its node.
LEMMA InsertEventEffect ==
  ASSUME IInv, EntryInv, NEW e \in EventId, InsertEvent(e)
  PROVE  /\ \A n \in Node : \A f \in clockEvents'[n] :
              f \in clockEvents[n] \/ (f = e /\ n = e.ctx)
         /\ \A n \in Node : \A f \in clockEvents[n] :
              ~Over(f) => f \in clockEvents'[n]
         /\ e.ctx \in Node => e \in clockEvents'[e.ctx]
         /\ clockEvents' \in [Node -> SUBSET EventId]
<1>1. CASE e.ctx = NoContext
  BY <1>1, NodeAssumption
     DEF InsertEvent, clockVars, IInv, TypeInv, TypeOK
<1>2. CASE e.ctx # NoContext
  <2>1. e.ctx \in Node /\ clockEvents \in [Node -> SUBSET EventId]
    BY <1>2 DEF EventId, Context, IInv, TypeInv, TypeOK
  <2>2. clockEvents[e.ctx] \subseteq Tracked
    BY <2>1 DEF Tracked
  <2>3. Live(clockEvents[e.ctx]) = {f \in clockEvents[e.ctx] : ~Over(f)}
    BY <2>2, LiveIsNotOver
  <2>4. clockEvents' = [clockEvents EXCEPT ![e.ctx] =
                          Live(clockEvents[e.ctx]) \cup {e}]
    BY <1>2, <2>1 DEF InsertEvent
  <2> QED  BY <2>1, <2>3, <2>4
<1> QED  BY <1>1, <1>2

whoVars == <<cancelEventMap, currentUid, currentTs, ran, cancelled, revoked>>

\* Numbers that every step of these proofs compares.
LEMMA Numbers ==
  ASSUME IInv, EntryInv
  PROVE  /\ uid \in Nat /\ impls \in Nat /\ currentUid \in Nat
         /\ currentTs \in Nat /\ MaxImpls \in Nat
         /\ ImplId = 1..MaxImpls
         /\ due \in [ImplId -> Int]
         /\ \A e \in EventId : e.uid \in Nat /\ e.ts \in Int /\ e.impl \in Nat
         /\ events \subseteq EventId /\ handles \subseteq EventId
         /\ Tracked \subseteq EventId /\ Pending \subseteq events
         /\ rescheduling.list \subseteq EventId
BY BoundAssumption
   DEF IInv, TypeInv, TypeOK, EventId, ImplId, Tracked, Pending

\* A new activity with a new uid.
LEMMA NewEntry ==
  ASSUME IInv, EntryInv, NEW e \in EventId,
         e.uid = uid, e.impl = impls + 1, e.ts >= currentTs, impls < MaxImpls,
         events' = events \cup {e}, uid' = uid + 1, impls' = impls + 1,
         handles' \subseteq handles \cup {e},
         UNCHANGED <<whoVars, eventsWithContext, rescheduling, phase>>,
         \A i \in ImplId : i # impls + 1 => due'[i] = due[i],
         \A n \in Node : \A f \in clockEvents'[n] :
              f \in clockEvents[n] \/ (f = e /\ n = e.ctx),
         \A n \in Node : \A f \in clockEvents[n] :
              ~Over(f) => f \in clockEvents'[n],
         \/ due'[impls + 1] = NoDue
         \/ e.ctx = NoContext
         \/ e \in clockEvents'[e.ctx]
  PROVE  EntryInv'
<1> USE Numbers
<1>1. UNCHANGED <<cancelEventMap, currentUid, currentTs, ran, cancelled,
                  revoked, eventsWithContext, rescheduling, phase>>
  BY DEF whoVars
<1>2. Tracked' \subseteq Tracked \cup {e} /\ Known' \subseteq Known \cup {e}
  BY <1>1 DEF Tracked, Known
<1>3. \A f \in EventId : /\ Over(f)' = Over(f)
                         /\ Superseded(f)' = Superseded(f)
  BY <1>1 DEF Over, Past, Superseded
<1>4. ~Superseded(e) /\ \A f \in Known : f.impl # e.impl
  <2>1. \A u \in DOMAIN cancelEventMap : u \in Nat /\ cancelEventMap[u].uid \in Nat
    BY DEF IInv, TypeInv, TypeOK
  <2>2. uid \notin DOMAIN cancelEventMap
    BY <2>1 DEF EntryInv, MapInv
  <2> QED  BY <2>2 DEF EntryInv, NamesInv, Superseded
<1>5. e.impl \notin ran \cup cancelled \cup revoked
  BY DEF EntryInv, NamesInv
<1>6. Pending' = Pending \cup {e}
  BY <1>1, <1>3, <1>4, <1>5 DEF Pending
<1>7. NamesInv'
  <2>1. impls' <= MaxImpls /\ 1..impls \subseteq 1..impls'
    OBVIOUS
  <2>2. \A f \in Known' : f.impl \in 1..impls'
    BY <1>2, <2>1 DEF EntryInv, NamesInv
  <2>3. ran' \cup cancelled' \cup revoked' \subseteq 1..impls'
    BY <1>1, <2>1 DEF EntryInv, NamesInv
  <2>4. \A i \in ImplId : i > impls' => due'[i] = NoDue
    <3>1. \A i \in ImplId : i > impls' => i > impls /\ i # impls + 1
      OBVIOUS
    <3> QED  BY <3>1 DEF EntryInv, NamesInv
  <2> QED  BY <2>1, <2>2, <2>3, <2>4 DEF NamesInv
<1>8. FreshInv'
  <2>1. \A k \in DOMAIN eventsWithContext :
          eventsWithContext[k].impl \in 1..impls
    BY DEF EntryInv, FreshInv
  <2>2. \A i \in 1..impls : due'[i] = due[i] /\ i # e.impl
    OBVIOUS
  <2> QED  BY <1>1, <1>2, <2>1, <2>2 DEF EntryInv, FreshInv
<1>9. MapInv'
  BY <1>1 DEF EntryInv, MapInv, TypeOK, IInv, TypeInv
<1>10. TrackInv'
  <2>1. \A n \in Node : \A f \in clockEvents'[n] : f.ctx = n
    BY DEF EntryInv, TrackInv
  <2>2. e \notin Tracked
    BY DEF EntryInv, TrackInv
  <2>3. \A n \in Node : clockEvents'[n] \cap rescheduling'.list = {}
    BY <1>1, <2>2 DEF EntryInv, TrackInv, Tracked
  <2>4. \A f \in Tracked' : /\ f.uid < uid' /\ ~Superseded(f)'
                            /\ f \in events' \/ Over(f)'
    BY <1>2, <1>3, <1>4 DEF EntryInv, TrackInv
  <2>5. \A f, g \in Tracked' : f.uid = g.uid => f = g
    <3>1. \A f \in Tracked : f.uid # e.uid
      BY DEF EntryInv, TrackInv
    <3> QED  BY <1>2, <3>1 DEF EntryInv, TrackInv
  <2>6. \A f \in rescheduling'.list : ~Over(f)'
    BY <1>1, <1>3 DEF EntryInv, TrackInv
  <2> QED  BY <1>1, <2>1, <2>3, <2>4, <2>5, <2>6 DEF EntryInv, TrackInv
<1>11. OneEntryPerImpl'
  <2>1. \A f \in Pending : f.impl # e.impl
    BY <1>4 DEF Known
  <2> QED  BY <1>1, <1>5, <1>6, <2>1 DEF EntryInv, OneEntryPerImpl
<1>12. PendingIsTracked'
  <2> SUFFICES ASSUME NEW f \in Pending', f.ctx # NoContext,
                      due'[f.impl] # NoDue
               PROVE  f \in clockEvents'[f.ctx] \cup rescheduling'.list
    BY DEF PendingIsTracked
  <2>1. CASE f = e
    BY <2>1
  <2>2. CASE f # e
    <3>1. f \in Pending /\ f \in events /\ f \in EventId
      BY <1>6, <2>2
    <3>2. f.impl \in ImplId /\ f.impl # e.impl
      BY <1>4, <3>1 DEF Known, EntryInv, NamesInv
    <3>3. f \in clockEvents[f.ctx] \cup rescheduling.list
      BY <3>1, <3>2 DEF EntryInv, PendingIsTracked
    <3>4. ~Over(f)
      BY <3>1, QueuedIsNotPast DEF Over, Pending
    <3>5. f.ctx \in Node
      BY <3>1 DEF EventId, Context
    <3> QED  BY <1>1, <3>3, <3>4, <3>5
  <2> QED  BY <2>1, <2>2
<1> QED
  BY <1>7, <1>8, <1>9, <1>10, <1>11, <1>12 DEF EntryInv

entryVars == <<events, uid, cancelEventMap, eventsWithContext, clockEvents,
               rescheduling, impls, handles, due>>

\* Nothing that the invariant speaks of changes.
LEMMA EntrySame ==
  ASSUME IInv, EntryInv, UNCHANGED <<entryVars, whoVars>>,
         rescheduling.list # {} => phase' \in {"ready", "event"}
  PROVE  EntryInv'
<1>1. UNCHANGED <<events, uid, cancelEventMap, eventsWithContext, clockEvents,
         rescheduling, impls, handles, due, currentUid, currentTs, ran,
         cancelled, revoked>>
  BY DEF entryVars, whoVars
<1>2. Tracked' = Tracked /\ Known' = Known /\ Pending' = Pending
  BY <1>1 DEF Tracked, Known, Pending, Superseded
<1>3. \A f : Over(f)' = Over(f) /\ Superseded(f)' = Superseded(f)
  BY <1>1 DEF Over, Past, Superseded
<1>4. NamesInv' /\ FreshInv' /\ MapInv'
  BY <1>1, <1>2 DEF EntryInv, NamesInv, FreshInv, MapInv
<1>5. TrackInv'
  BY <1>1, <1>2, <1>3 DEF EntryInv, TrackInv
<1>6. OneEntryPerImpl' /\ PendingIsTracked'
  BY <1>1, <1>2 DEF EntryInv, OneEntryPerImpl, PendingIsTracked
<1> QED  BY <1>4, <1>5, <1>6 DEF EntryInv

\* Entries leave the queue, are cancelled or executed.
LEMMA EntriesShrink ==
  ASSUME IInv, EntryInv, rescheduling.list = {},
         UNCHANGED <<uid, eventsWithContext, clockEvents, rescheduling, impls,
                     handles, due>>,
         events' \subseteq events,
         DOMAIN cancelEventMap' \subseteq DOMAIN cancelEventMap,
         \A u \in DOMAIN cancelEventMap' :
           cancelEventMap'[u] = cancelEventMap[u],
         \A i \in ran' \cup cancelled' \cup revoked' :
           \/ i \in ran \cup cancelled \cup revoked
           \/ \E f \in events \cup handles : i = f.impl,
         Pending' \subseteq Pending,
         \A f \in Pending' : f.impl \notin ran',
         \A f \in Tracked : f \in events \/ Over(f) => f \in events' \/ Over(f)'
  PROVE  EntryInv'
<1> USE Numbers
<1>1. Tracked' = Tracked
  BY DEF Tracked
<1>2. Known' \subseteq Known /\ events \cup handles \subseteq Known
  BY <1>1 DEF Known
<1>3. \A f : Superseded(f)' => Superseded(f)
  BY DEF Superseded
<1>4. ran' \cup cancelled' \cup revoked' \subseteq 1..impls
  BY <1>2 DEF EntryInv, NamesInv
<1>5. NamesInv'
  BY <1>2, <1>4 DEF EntryInv, NamesInv
<1>6. FreshInv'
  <2>1. ASSUME NEW k \in DOMAIN eventsWithContext
        PROVE  eventsWithContext[k].impl \notin ran' \cup cancelled' \cup revoked'
    BY <1>2 DEF EntryInv, FreshInv
  <2> QED  BY <1>2, <2>1 DEF EntryInv, FreshInv
<1>7. MapInv'
  BY DEF EntryInv, MapInv
<1>8. TrackInv'
  BY <1>1, <1>3 DEF EntryInv, TrackInv
<1>9. OneEntryPerImpl' /\ PendingIsTracked'
  BY DEF EntryInv, OneEntryPerImpl, PendingIsTracked
<1> QED  BY <1>5, <1>6, <1>7, <1>8, <1>9 DEF EntryInv

LEMMA CancelEntries == IInv /\ EntryInv /\ Cancel => EntryInv'
<1> SUFFICES ASSUME IInv, EntryInv, Cancel PROVE EntryInv'
  OBVIOUS
<1>1. PICK id \in handles :
        /\ cancelled' = IF IsExpired(id) THEN cancelled
                        ELSE cancelled \cup {id.impl}
        /\ revoked' = revoked \cup ({id.impl} \cap PendingImpls)
  BY DEF Cancel
<1>2. /\ rescheduling.list = {}
      /\ UNCHANGED <<uid, eventsWithContext, clockEvents, rescheduling, impls,
                     handles, due, events, cancelEventMap, ran, currentTs,
                     currentUid>>
  BY DEF Cancel, CallerRuns, queueVars, currentVars, clockVars
<1>3. cancelled \subseteq cancelled'
  BY <1>1
<1>4. Pending' \subseteq Pending
  BY <1>2, <1>3 DEF Pending, Superseded
<1>5. \A f \in Pending' : f.impl \notin ran'
  BY <1>2, <1>4 DEF EntryInv, OneEntryPerImpl
<1>6. \A f \in Tracked : f \in events \/ Over(f) => f \in events' \/ Over(f)'
  BY <1>2, <1>3 DEF Over, Past
<1>7. \A i \in ran' \cup cancelled' \cup revoked' :
        \/ i \in ran \cup cancelled \cup revoked
        \/ \E f \in events \cup handles : i = f.impl
  BY <1>1, <1>2
<1> QED
  BY <1>2, <1>4, <1>5, <1>6, <1>7, EntriesShrink

LEMMA RemoveEntries == IInv /\ EntryInv /\ Remove => EntryInv'
<1> SUFFICES ASSUME IInv, EntryInv, Remove PROVE EntryInv'
  OBVIOUS
<1>1. PICK id \in handles :
        IF id \notin events
        THEN Fault("NoSuchEvent")
        ELSE /\ TakeOut(id)
             /\ cancelled' = cancelled \cup {id.impl}
             /\ revoked' = revoked \cup ({id.impl} \cap PendingImpls)
             /\ UNCHANGED <<uid, currentVars, cancelEventMap,
                  eventsWithContext, clockVars, rescheduling, impls, handles,
                  ran, due>>
  BY DEF Remove
<1>2. rescheduling.list = {}
  BY DEF Remove, CallerRuns
<1>3. CASE id \notin events
  BY <1>1, <1>2, <1>3, EntrySame
     DEF Fault, entryVars, whoVars, queueVars, currentVars, clockVars,
         historyVars
<1>4. CASE id \in events
  <2>1. /\ events' = events \ {id}
        /\ cancelled' = cancelled \cup {id.impl}
        /\ revoked' = revoked \cup ({id.impl} \cap PendingImpls)
        /\ UNCHANGED <<uid, eventsWithContext, clockEvents, rescheduling,
                       impls, handles, due, cancelEventMap, ran, currentTs,
                       currentUid>>
    BY <1>1, <1>4 DEF TakeOut, currentVars, clockVars
  <2>2. Pending' \subseteq Pending
    BY <2>1 DEF Pending, Superseded
  <2>3. \A f \in Pending' : f.impl \notin ran'
    BY <2>1, <2>2 DEF EntryInv, OneEntryPerImpl
  <2>4. \A f \in Tracked : f \in events \/ Over(f) => f \in events' \/ Over(f)'
    BY <2>1 DEF Over, Past
  <2>5. \A i \in ran' \cup cancelled' \cup revoked' :
          \/ i \in ran \cup cancelled \cup revoked
          \/ \E f \in events \cup handles : i = f.impl
    BY <2>1
  <2> QED  BY <1>2, <2>1, <2>2, <2>3, <2>4, <2>5, EntriesShrink
<1> QED  BY <1>3, <1>4

\* A superseded entry is not pending, and in no list of a LocalClock.
LEMMA SkipEntries ==
  ASSUME IInv, EntryInv, phase = "loop", NEW next \in events,
         Superseded(next), SkipSuperseded(next)
  PROVE  EntryInv' /\ Pending' = Pending
<1>1. /\ events' = events \ {next}
      /\ UNCHANGED <<uid, eventsWithContext, clockEvents, rescheduling, impls,
                     handles, due, ran, cancelled, revoked, currentTs,
                     currentUid>>
  BY DEF SkipSuperseded, TakeOut, currentVars, clockVars, historyVars
<1>2. rescheduling.list = {}
  BY DEF EntryInv, TrackInv
<1>3. /\ DOMAIN cancelEventMap' \subseteq DOMAIN cancelEventMap
      /\ \A u \in DOMAIN cancelEventMap' :
           cancelEventMap'[u] = cancelEventMap[u]
      /\ \A u \in DOMAIN cancelEventMap :
           u # next.uid => u \in DOMAIN cancelEventMap'
  BY DEF SkipSuperseded
<1>4. \A f \in events' : Superseded(f)' = Superseded(f)
  BY <1>1, <1>3 DEF Superseded, IInv, QueueOK, QueueAhead
<1>5. next \notin Pending
  BY DEF Pending
<1>6. Pending' = Pending
  BY <1>1, <1>4, <1>5 DEF Pending
<1>7. \A f \in Pending' : f.impl \notin ran'
  BY <1>1, <1>6 DEF EntryInv, OneEntryPerImpl
<1>8. \A f \in Tracked : f \in events \/ Over(f) => f \in events' \/ Over(f)'
  <2>1. \A f \in Tracked : f # next
    BY DEF EntryInv, TrackInv
  <2> QED  BY <1>1, <2>1 DEF Over, Past
<1> QED  BY <1>1, <1>2, <1>3, <1>6, <1>7, <1>8, EntriesShrink

\* The entry that is executed was the only one of its EventImpl.
LEMMA InvokeEntries ==
  ASSUME IInv, EntryInv, phase = "loop", NEW next \in events,
         IsFirst(next, events), ~Superseded(next), Invoke(next)
  PROVE  /\ EntryInv'
         /\ Pending' = Pending \ {next}
         /\ currentTs' = next.ts
         /\ ran' = IF next.impl \in cancelled THEN ran
                   ELSE ran \cup {next.impl}
<1> USE Numbers
<1>1. next.uid \in Nat /\ next.ts \in Int
  OBVIOUS
<1>2. ~(next.ts < currentTs)
  BY <1>1 DEF IInv, QueueOK, QueueAhead
<1>3. /\ events' = events \ {next}
      /\ currentTs' = next.ts /\ currentUid' = next.uid
      /\ ran' = IF next.impl \in cancelled THEN ran
                ELSE ran \cup {next.impl}
      /\ UNCHANGED <<uid, eventsWithContext, clockEvents, rescheduling, impls,
                     handles, due, cancelled, revoked, cancelEventMap>>
  BY <1>2 DEF Invoke, TakeOut, clockVars
<1>4. rescheduling.list = {}
  BY DEF EntryInv, TrackInv
<1>5. Pending' = Pending \ {next}
  BY <1>3 DEF Pending, Superseded
<1>6. \A f \in Pending' : f.impl \notin ran'
  BY <1>3, <1>5 DEF EntryInv, OneEntryPerImpl, Pending
<1>7. \A f \in Tracked : f \in events \/ Over(f) => f \in events' \/ Over(f)'
  <2> SUFFICES ASSUME NEW f \in Tracked, f \in events \/ Over(f)
               PROVE  f \in events' \/ Over(f)'
    OBVIOUS
  <2>1. CASE f = next
    BY <1>1, <1>3, <2>1 DEF Over, Past
  <2>2. CASE f \in events /\ f # next
    BY <1>3, <2>2
  <2>3. CASE Over(f)
    <3>1. \/ currentTs' > currentTs
          \/ currentTs' = currentTs /\ currentUid' > currentUid
      BY <1>1, <1>3 DEF IInv, QueueOK, QueueAhead
    <3>2. f.uid \in Nat /\ f.ts \in Int
      OBVIOUS
    <3> QED  BY <1>1, <1>3, <2>3, <3>1, <3>2 DEF Over, Past
  <2> QED  BY <2>1, <2>2, <2>3
<1>8. \A i \in ran' \cup cancelled' \cup revoked' :
        \/ i \in ran \cup cancelled \cup revoked
        \/ \E f \in events \cup handles : i = f.impl
  BY <1>3
<1>9. EntryInv'
  BY <1>3, <1>4, <1>5, <1>6, <1>7, <1>8, EntriesShrink
<1> QED  BY <1>3, <1>5, <1>9

LEMMA ScheduledCtx == \A d, i : ScheduledId(d, i).ctx = currentContext
BY DEF ScheduledId

LEMMA ScheduleEntries ==
  ASSUME IInv, EntryInv, NEW d \in Nat, ScheduleAfter(d)
  PROVE  \/ EntryInv' /\ UNCHANGED <<entryVars, whoVars>>
         \/ \E e \in EventId :
              /\ EntryInv'
              /\ e.uid = uid /\ e.impl = impls + 1 /\ e.ts >= currentTs
              /\ impls < MaxImpls
              /\ events' = events \cup {e} /\ uid' = uid + 1
              /\ impls' = impls + 1 /\ handles' = handles \cup {e}
              /\ UNCHANGED <<whoVars, eventsWithContext, rescheduling, phase>>
<1> USE Numbers
<1> DEFINE e == ScheduledId(d, impls + 1)
<1>1. CASE GlobalDelay(d) < 0
  <2>1. Fault("NegativeDelay") /\ rescheduling.list = {}
    BY <1>1 DEF ScheduleAfter, CallerRuns
  <2>2. UNCHANGED <<entryVars, whoVars>>
    BY <2>1 DEF Fault, entryVars, whoVars, queueVars, currentVars, clockVars,
       historyVars
  <2> QED  BY <2>1, <2>2, EntrySame
<1>2. CASE ~(GlobalDelay(d) < 0)
  <2>1. GlobalDelay(d) \in Int
    BY GlobalDelayType DEF IInv, TypeInv
  <2>2. /\ e \in EventId /\ e.uid = uid /\ e.impl = impls + 1
        /\ e.ts >= currentTs /\ e.ctx = currentContext
    BY <1>2, <2>1, ScheduledIdType, ScheduledCtx DEF IInv, TypeInv
  <2>3. /\ impls < MaxImpls
        /\ InsertScheduler(e) /\ InsertEvent(e)
        /\ impls' = impls + 1 /\ handles' = handles \cup {e}
        /\ due' = [due EXCEPT ![e.impl] = CallerDue(d)]
        /\ UNCHANGED <<whoVars, eventsWithContext, rescheduling, phase>>
    BY <1>2 DEF ScheduleAfter, whoVars, currentVars
  <2> HIDE DEF e
  <2>4. events' = events \cup {e} /\ uid' = uid + 1
    BY <2>3 DEF InsertScheduler
  <2>5. \A i \in ImplId : i # impls + 1 => due'[i] = due[i]
    BY <2>2, <2>3
  <2>6. e.ctx \in Node \/ e.ctx = NoContext
    BY <2>2 DEF EventId, Context
  <2>7. EntryInv'
    BY <2>2, <2>3, <2>4, <2>5, <2>6, InsertEventEffect, NewEntry
  <2> QED  BY <2>2, <2>3, <2>4, <2>7
<1> QED  BY <1>1, <1>2

LEMMA WithContextEntries ==
  ASSUME IInv, EntryInv, ScheduleWithContext
  PROVE  \E e \in EventId :
           /\ EntryInv'
           /\ e.uid = uid /\ e.impl = impls + 1 /\ e.ts >= currentTs
           /\ impls < MaxImpls
           /\ events' = events \cup {e} /\ uid' = uid + 1
           /\ impls' = impls + 1 /\ handles' = handles
           /\ UNCHANGED <<whoVars, eventsWithContext, rescheduling, phase>>
<1> USE Numbers
<1>1. PICK ctx \in Node, d \in Delay :
        InsertScheduler([uid |-> uid, ts |-> currentTs + d, ctx |-> ctx,
                         impl |-> impls + 1])
  BY DEF ScheduleWithContext
<1> DEFINE e == [uid |-> uid, ts |-> currentTs + d, ctx |-> ctx,
                 impl |-> impls + 1]
<1>2. /\ e \in EventId /\ e.uid = uid /\ e.ts >= currentTs
      /\ e.impl = impls + 1
  BY DelayAssumption DEF EventId, Context
<1>3. InsertScheduler(e)
  BY <1>1
<1> HIDE DEF e
<1>4. /\ impls < MaxImpls /\ impls' = impls + 1 /\ handles' = handles
      /\ due' = due /\ clockEvents' = clockEvents
      /\ UNCHANGED <<whoVars, eventsWithContext, rescheduling, phase>>
  BY DEF ScheduleWithContext, whoVars, currentVars, clockVars, historyVars
<1>5. events' = events \cup {e} /\ uid' = uid + 1
  BY <1>3 DEF InsertScheduler
<1>6. due'[impls + 1] = NoDue
  BY <1>4 DEF EntryInv, NamesInv
<1>7. EntryInv'
  BY <1>2, <1>4, <1>5, <1>6, NewEntry
<1> QED  BY <1>2, <1>4, <1>5, <1>7

\* An activity of another thread is nowhere but in the list of the threads.
LEMMA WorkerEntries == IInv /\ EntryInv /\ WorkerScheduleWithContext => EntryInv'
<1> SUFFICES ASSUME IInv, EntryInv, WorkerScheduleWithContext PROVE EntryInv'
  OBVIOUS
<1> USE Numbers
<1> DEFINE Item == [ctx : Node, delay : Nat, impl : Nat]
<1>1. PICK ctx \in Node, d \in Delay :
        eventsWithContext' = Append(eventsWithContext,
                               [ctx |-> ctx, delay |-> d, impl |-> impls + 1])
  BY DEF WorkerScheduleWithContext
<1>2. /\ impls < MaxImpls /\ impls' = impls + 1
      /\ UNCHANGED <<events, uid, cancelEventMap, clockEvents, rescheduling,
                     handles, due, currentUid, currentTs, ran, cancelled,
                     revoked, phase>>
  BY DEF WorkerScheduleWithContext, queueVars, currentVars, clockVars,
     historyVars
<1>3. Tracked' = Tracked /\ Known' = Known /\ Pending' = Pending
  BY <1>2 DEF Tracked, Known, Pending, Superseded
<1>4. \A f : Over(f)' = Over(f) /\ Superseded(f)' = Superseded(f)
  BY <1>2 DEF Over, Past, Superseded
<1>5. NamesInv'
  BY <1>2, <1>3 DEF EntryInv, NamesInv
<1>6. FreshInv'
  <2>1. eventsWithContext \in Seq(Item)
    BY DEF IInv, TypeInv, TypeOK
  <2> DEFINE n == Len(eventsWithContext)
  <2>2. n \in Nat /\ DOMAIN eventsWithContext = 1..n
    BY <2>1
  <2>3. /\ DOMAIN eventsWithContext' = 1..(n + 1)
        /\ eventsWithContext'[n + 1].impl = impls + 1
        /\ \A k \in 1..n : eventsWithContext'[k] = eventsWithContext[k]
    BY <1>1, <2>1
  <2>4. \A k \in 1..n :
          /\ eventsWithContext[k].impl \in 1..impls
          /\ due[eventsWithContext[k].impl] = NoDue
          /\ eventsWithContext[k].impl \notin ran \cup cancelled \cup revoked
          /\ \A e \in Known : e.impl # eventsWithContext[k].impl
    BY <2>2 DEF EntryInv, FreshInv
  <2>5. /\ impls + 1 \in 1..impls' /\ due[impls + 1] = NoDue
        /\ impls + 1 \notin ran \cup cancelled \cup revoked
        /\ \A e \in Known : e.impl # impls + 1
    BY <1>2 DEF EntryInv, NamesInv
  <2>6. \A k \in 1..(n + 1) : k \in 1..n \/ k = n + 1
    BY <2>2
  <2>7. \A k, l \in 1..n :
          eventsWithContext[k].impl = eventsWithContext[l].impl => k = l
    BY <2>2 DEF EntryInv, FreshInv
  <2> HIDE DEF n
  <2>8. ASSUME NEW k \in DOMAIN eventsWithContext'
        PROVE  LET i == eventsWithContext'[k].impl IN
                 /\ i \in 1..impls' /\ due'[i] = NoDue
                 /\ i \notin ran' \cup cancelled' \cup revoked'
                 /\ \A e \in Known' : e.impl # i
    BY <1>2, <1>3, <2>3, <2>4, <2>5, <2>6
  <2>9. \A k, l \in DOMAIN eventsWithContext' :
          eventsWithContext'[k].impl = eventsWithContext'[l].impl => k = l
    BY <2>3, <2>4, <2>6, <2>7
  <2> QED  BY <2>8, <2>9 DEF FreshInv
<1>7. MapInv'
  BY <1>2 DEF EntryInv, MapInv
<1>8. TrackInv'
  BY <1>2, <1>3, <1>4 DEF EntryInv, TrackInv
<1>9. OneEntryPerImpl' /\ PendingIsTracked'
  BY <1>2, <1>3 DEF EntryInv, OneEntryPerImpl, PendingIsTracked
<1> QED  BY <1>5, <1>6, <1>7, <1>8, <1>9 DEF EntryInv

\* The entry that the i-th item of the other threads' list becomes.
BatchEntry(i) == [uid  |-> uid + i - 1,
                  ts   |-> currentTs + eventsWithContext[i].delay,
                  ctx  |-> eventsWithContext[i].ctx,
                  impl |-> eventsWithContext[i].impl]
Batch == {BatchEntry(i) : i \in DOMAIN eventsWithContext}

LEMMA BatchFacts ==
  ASSUME IInv, EntryInv
  PROVE  /\ Batch \subseteq EventId
         /\ Len(eventsWithContext) \in Nat
         /\ DOMAIN eventsWithContext = 1..Len(eventsWithContext)
         /\ \A e \in Batch : /\ e.uid >= uid /\ e.ts >= currentTs
                             /\ e.uid < uid + Len(eventsWithContext)
                             /\ e.impl \in 1..impls /\ due[e.impl] = NoDue
                             /\ e.impl \notin ran \cup cancelled \cup revoked
                             /\ \A f \in Known : f.impl # e.impl
         /\ \A e, f \in Batch : e.impl = f.impl \/ e.uid = f.uid => e = f
<1> USE Numbers
<1> DEFINE Item == [ctx : Node, delay : Nat, impl : Nat]
<1>1. eventsWithContext \in Seq(Item)
  BY DEF IInv, TypeInv, TypeOK
<1>2. /\ Len(eventsWithContext) \in Nat
      /\ DOMAIN eventsWithContext = 1..Len(eventsWithContext)
  BY <1>1
<1>3. ASSUME NEW i \in 1..Len(eventsWithContext)
      PROVE  eventsWithContext[i] \in Item
  <2> HIDE DEF Item
  <2> QED  BY <1>1, <1>3
<1>4. ASSUME NEW i \in 1..Len(eventsWithContext)
      PROVE  /\ BatchEntry(i) \in EventId
             /\ BatchEntry(i).uid = uid + i - 1
             /\ BatchEntry(i).ts >= currentTs
             /\ BatchEntry(i).impl = eventsWithContext[i].impl
  BY <1>2, <1>3 DEF BatchEntry, EventId, Context
<1>5. \A i \in 1..Len(eventsWithContext) :
        LET j == eventsWithContext[i].impl IN
          /\ j \in 1..impls /\ due[j] = NoDue
          /\ j \notin ran \cup cancelled \cup revoked
          /\ \A f \in Known : f.impl # j
  BY <1>2 DEF EntryInv, FreshInv
<1>6. \A e \in Batch : /\ e \in EventId
                       /\ e.uid >= uid /\ e.ts >= currentTs
                       /\ e.uid < uid + Len(eventsWithContext)
                       /\ e.impl \in 1..impls /\ due[e.impl] = NoDue
                       /\ e.impl \notin ran \cup cancelled \cup revoked
                       /\ \A f \in Known : f.impl # e.impl
  <2> SUFFICES ASSUME NEW i \in 1..Len(eventsWithContext)
               PROVE  LET e == BatchEntry(i) IN
                        /\ e \in EventId
                        /\ e.uid >= uid /\ e.ts >= currentTs
                        /\ e.uid < uid + Len(eventsWithContext)
                        /\ e.impl \in 1..impls /\ due[e.impl] = NoDue
                        /\ e.impl \notin ran \cup cancelled \cup revoked
                        /\ \A f \in Known : f.impl # e.impl
    BY <1>2 DEF Batch
  <2>1. BatchEntry(i).impl = eventsWithContext[i].impl
    BY <1>4
  <2>2. BatchEntry(i).uid >= uid /\ BatchEntry(i).uid < uid + Len(eventsWithContext)
    BY <1>2, <1>4
  <2> QED  BY <1>4, <1>5, <2>1, <2>2
<1>7. ASSUME NEW i \in 1..Len(eventsWithContext),
             NEW j \in 1..Len(eventsWithContext),
             \/ BatchEntry(i).impl = BatchEntry(j).impl
             \/ BatchEntry(i).uid = BatchEntry(j).uid
      PROVE  i = j
  <2>1. CASE BatchEntry(i).impl = BatchEntry(j).impl
    <3>1. eventsWithContext[i].impl = eventsWithContext[j].impl
      BY <1>4, <2>1
    <3>2. i \in DOMAIN eventsWithContext /\ j \in DOMAIN eventsWithContext
      BY <1>2
    <3> QED  BY <3>1, <3>2 DEF EntryInv, FreshInv
  <2>2. CASE BatchEntry(i).uid = BatchEntry(j).uid
    BY <1>2, <1>4, <2>2
  <2> QED  BY <1>7, <2>1, <2>2
<1>8. \A e, f \in Batch : e.impl = f.impl \/ e.uid = f.uid => e = f
  BY <1>2, <1>7 DEF Batch
<1> QED  BY <1>2, <1>6, <1>8

\* The other threads' activities become entries of the queue.
LEMMA TakeInEntries ==
  ASSUME IInv, EntryInv, rescheduling.list = {}, ProcessEventsWithContext,
         UNCHANGED <<whoVars, clockEvents, rescheduling, impls, handles, due>>
  PROVE  /\ EntryInv'
         /\ Pending' = Pending \cup Batch
<1> USE Numbers, BatchFacts
<1>1. /\ events' = events \cup Batch
      /\ uid' = uid + Len(eventsWithContext)
      /\ eventsWithContext' = <<>>
      /\ UNCHANGED <<cancelEventMap, currentUid, currentTs, ran, cancelled,
                     revoked, clockEvents, rescheduling, impls, handles, due>>
  BY DEF ProcessEventsWithContext, Batch, BatchEntry, whoVars
<1>2. Tracked' = Tracked /\ Known' = Known \cup Batch
  BY <1>1 DEF Tracked, Known
<1>3. \A f : Over(f)' = Over(f) /\ Superseded(f)' = Superseded(f)
  BY <1>1 DEF Over, Past, Superseded
<1>4. \A e \in Batch : ~Superseded(e)
  <2>1. \A u \in DOMAIN cancelEventMap : u \in Nat /\ cancelEventMap[u].uid \in Nat
    BY DEF IInv, TypeInv, TypeOK
  <2> QED  BY <2>1 DEF EntryInv, MapInv, Superseded
<1>5. Pending' = Pending \cup Batch
  BY <1>1, <1>3, <1>4 DEF Pending
<1>6. NamesInv' /\ FreshInv'
  BY <1>1, <1>2 DEF EntryInv, NamesInv, FreshInv
<1>7. MapInv'
  BY <1>1 DEF EntryInv, MapInv, IInv, TypeInv, TypeOK
<1>8. TrackInv'
  BY <1>1, <1>2, <1>3 DEF EntryInv, TrackInv
<1>9. OneEntryPerImpl'
  <2>1. \A e \in Pending, f \in Batch : e.impl # f.impl
    BY DEF Known
  <2> QED  BY <1>1, <1>5, <2>1 DEF EntryInv, OneEntryPerImpl
<1>10. PendingIsTracked'
  BY <1>1, <1>5 DEF EntryInv, PendingIsTracked
<1> QED  BY <1>5, <1>6, <1>7, <1>8, <1>9, <1>10 DEF EntryInv

\* SetClock takes the list of the node: what is pending there is in its hands.
LEMMA SetClockEntries ==
  ASSUME IInv, EntryInv, SetClock
  PROVE  /\ EntryInv'
         /\ Pending' = Pending
         /\ rescheduling'.list \subseteq Tracked
<1> USE Numbers
<1>1. PICK n \in Node :
        /\ clockEvents' = [clockEvents EXCEPT ![n] = {}]
        /\ rescheduling'.list = Live(clockEvents[n])
  <2>1. PICK n \in Node :
          /\ clockEvents' = [clockEvents EXCEPT ![n] = {}]
          /\ rescheduling' = IF Live(clockEvents[n]) = {}
                             THEN NotRescheduling
                             ELSE [node |-> n, old |-> clock[n],
                                   list |-> Live(clockEvents[n])]
    BY DEF SetClock
  <2> QED  BY <2>1 DEF NotRescheduling
<1>2. /\ rescheduling.list = {} /\ phase \in {"ready", "event"}
      /\ UNCHANGED <<events, uid, cancelEventMap, eventsWithContext, impls,
                     handles, due, currentUid, currentTs, ran, cancelled,
                     revoked, phase>>
  BY DEF SetClock, CallerRuns, queueVars, currentVars
<1>3. clockEvents \in [Node -> SUBSET EventId]
  BY DEF IInv, TypeInv, TypeOK
<1>4. clockEvents[n] \subseteq Tracked
  BY <1>3 DEF Tracked
<1>5. rescheduling'.list = {f \in clockEvents[n] : ~Over(f)}
  BY <1>1, <1>4, LiveIsNotOver
<1>6. \A m \in Node : clockEvents'[m] = IF m = n THEN {} ELSE clockEvents[m]
  BY <1>1, <1>3
<1>7. Tracked' \subseteq Tracked
  BY <1>4, <1>5, <1>6 DEF Tracked
<1>8. Known' \subseteq Known /\ Pending' = Pending
  BY <1>2, <1>7 DEF Known, Pending, Superseded
<1>9. \A f : Over(f)' = Over(f) /\ Superseded(f)' = Superseded(f)
  BY <1>2 DEF Over, Past, Superseded
<1>10. NamesInv' /\ FreshInv' /\ MapInv'
  BY <1>2, <1>8 DEF EntryInv, NamesInv, FreshInv, MapInv
<1>11. TrackInv'
  <2>1. \A m \in Node : clockEvents'[m] \cap rescheduling'.list = {}
    BY <1>5, <1>6 DEF EntryInv, TrackInv
  <2>2. \A m \in Node : \A f \in clockEvents'[m] : f.ctx = m
    BY <1>6 DEF EntryInv, TrackInv
  <2>3. \A f \in Tracked' : /\ f.uid < uid' /\ ~Superseded(f)'
                            /\ f \in events' \/ Over(f)'
    BY <1>2, <1>7, <1>9 DEF EntryInv, TrackInv
  <2>4. \A f \in rescheduling'.list : ~Over(f)'
    BY <1>5, <1>9
  <2> QED  BY <1>2, <1>7, <2>1, <2>2, <2>3, <2>4 DEF EntryInv, TrackInv
<1>12. OneEntryPerImpl'
  BY <1>2, <1>8 DEF EntryInv, OneEntryPerImpl
<1>13. PendingIsTracked'
  <2> SUFFICES ASSUME NEW f \in Pending, f.ctx # NoContext,
                      due[f.impl] # NoDue
               PROVE  f \in clockEvents'[f.ctx] \cup rescheduling'.list
    BY <1>2, <1>8 DEF PendingIsTracked
  <2>1. f \in clockEvents[f.ctx] /\ f.ctx \in Node
    BY <1>2 DEF EntryInv, PendingIsTracked, EventId, Context
  <2>2. ~Over(f)
    BY QueuedIsNotPast DEF Over, Pending
  <2> QED  BY <1>5, <1>6, <2>1, <2>2
<1> QED
  BY <1>4, <1>5, <1>8, <1>10, <1>11, <1>12, <1>13 DEF EntryInv

\* One turn of SetClock's loop: the new entry takes the place of the old one.
LEMMA RescheduleEntries ==
  ASSUME IInv, EntryInv, RescheduleOne
  PROVE  \/ /\ EntryInv' /\ Fault("NegativeDelay")
            /\ UNCHANGED <<entryVars, whoVars>>
         \/ \E id \in rescheduling.list, newId \in EventId :
              /\ EntryInv'
              /\ id \in Pending /\ ~Over(id)
              /\ newId = ScheduledId(GlobalToLocalDelay(rescheduling.old,
                                       currentTs, id.ts - currentTs), id.impl)
              /\ InsertEvent(newId)
              /\ due' = [due EXCEPT ![id.impl] =
                           MovedDue(rescheduling.old,
                                    clock[rescheduling.node], id.impl)]
              /\ rescheduling' = IF rescheduling.list \ {id} = {}
                                 THEN NotRescheduling
                                 ELSE [rescheduling EXCEPT
                                         !.list = rescheduling.list \ {id}]
              /\ UNCHANGED <<currentVars, phase, running, updates>>
              /\ newId.uid = uid /\ newId.impl = id.impl
              /\ newId.ts >= currentTs
              /\ uid' = uid + 1
              /\ Pending' = (Pending \ {id}) \cup {newId}
              /\ id.uid \notin DOMAIN cancelEventMap
              /\ cancelEventMap' =
                   [u \in DOMAIN cancelEventMap \cup {id.uid} |->
                      IF u \in DOMAIN cancelEventMap THEN cancelEventMap[u]
                      ELSE newId]
              /\ rescheduling'.list = rescheduling.list \ {id}
              /\ UNCHANGED <<handles, currentTs, ran, cancelled, revoked>>
<1> USE Numbers
<1> DEFINE old == rescheduling.old
           remain(id) == GlobalToLocalDelay(old, currentTs, id.ts - currentTs)
           newOf(id) == ScheduledId(remain(id), id.impl)
<1>1. PICK id \in rescheduling.list :
        IF GlobalDelay(remain(id)) < 0
        THEN Fault("NegativeDelay")
        ELSE /\ InsertScheduler(newOf(id))
             /\ InsertEvent(newOf(id))
             /\ CancelRescheduling(id, newOf(id))
             /\ rescheduling' = IF rescheduling.list \ {id} = {}
                                THEN NotRescheduling
                                ELSE [rescheduling EXCEPT
                                        !.list = rescheduling.list \ {id}]
             /\ due' = [due EXCEPT ![id.impl] =
                          MovedDue(old, clock[rescheduling.node], id.impl)]
             /\ UNCHANGED <<currentVars, eventsWithContext, impls, cancelled,
                            phase, running, handles, ran, revoked, updates>>
  BY DEF RescheduleOne
<1>2. /\ phase \in {"ready", "event"}
      /\ id \in Tracked /\ id \in EventId /\ ~Over(id) /\ ~Superseded(id)
      /\ id \in events /\ id.uid < uid
  BY DEF EntryInv, TrackInv, Tracked
<1>3. id \in Pending
  BY <1>2 DEF Pending, Over
<1>4. CASE GlobalDelay(remain(id)) < 0
  <2>1. UNCHANGED <<entryVars, whoVars>> /\ phase' = phase
    BY <1>1, <1>4 DEF Fault, entryVars, whoVars, queueVars, currentVars,
       clockVars, historyVars
  <2> QED  BY <1>1, <1>2, <1>4, <2>1, EntrySame
<1>5. CASE ~(GlobalDelay(remain(id)) < 0)
  <2>1. /\ id.impl \in Nat /\ id.ts \in Int /\ currentTs \in Nat
        /\ old \in ClockModel \cup {NoClock}
    BY DEF IInv, TypeInv, TypeOK
  <2>2. old \in [num : Nat, den : Nat \ {0}, offset : Int]
    BY <2>1 DEF ClockModel, NoClock
  <2>3. remain(id) \in Int
    BY <2>1, <2>2, GlobalToLocalDelayType
  <2>4. GlobalDelay(remain(id)) \in Int
    BY <2>3, GlobalDelayType DEF IInv, TypeInv
  <2>5. PICK newId \in EventId :
          /\ newId = newOf(id)
          /\ newId.uid = uid /\ newId.impl = id.impl
          /\ newId.ts = currentTs + GlobalDelay(remain(id))
    BY <2>1, <2>3, ScheduledIdType DEF IInv, TypeInv
  <2>6. newId.ts >= currentTs
    BY <1>5, <2>1, <2>4, <2>5
  <2>7. /\ InsertScheduler(newId) /\ InsertEvent(newId)
        /\ CancelRescheduling(id, newId)
        /\ due' = [due EXCEPT ![id.impl] =
                     MovedDue(old, clock[rescheduling.node], id.impl)]
        /\ UNCHANGED <<currentTs, currentUid, eventsWithContext, impls,
                       cancelled, phase, handles, ran, revoked>>
    BY <1>1, <1>5, <2>5 DEF currentVars
  <2>8. rescheduling'.list = rescheduling.list \ {id}
    <3>1. rescheduling \in [node : Context, old : ClockModel \cup {NoClock},
                            list : SUBSET EventId]
      BY DEF IInv, TypeInv, TypeOK
    <3> QED  BY <1>1, <1>5, <3>1 DEF NotRescheduling
  <2>9. /\ events' = events \cup {newId} /\ uid' = uid + 1
    BY <2>7 DEF InsertScheduler
  <2>10. IsExpired(id) = FALSE
    BY <1>2, ExpiredFollows DEF IInv, TypeInv, EntryInv
  <2>11. cancelEventMap' =
           [u \in DOMAIN cancelEventMap \cup {id.uid} |->
              IF u \in DOMAIN cancelEventMap THEN cancelEventMap[u] ELSE newId]
    BY <2>7, <2>10 DEF CancelRescheduling
  <2>12. id.uid \notin DOMAIN cancelEventMap
    BY <1>2 DEF Superseded
  <2>13. /\ \A u \in DOMAIN cancelEventMap :
              u \in Nat /\ cancelEventMap[u].uid \in Nat
         /\ uid \notin DOMAIN cancelEventMap
    <3>1. \A u \in DOMAIN cancelEventMap :
            u \in Nat /\ cancelEventMap[u].uid \in Nat
      BY DEF IInv, TypeInv, TypeOK
    <3> QED  BY <3>1 DEF EntryInv, MapInv
  <2>14. \A f : Superseded(f)' <=> (Superseded(f) \/ f.uid = id.uid)
    BY <2>11 DEF Superseded
  <2>15. \A f : Over(f)' = Over(f)
    BY <2>7 DEF Over, Past
  <2>16. newId \notin events /\ id # newId /\ ~Superseded(newId)'
    BY <1>2, <2>5, <2>13, <2>14 DEF IInv, QueueOK, QueueAhead, Superseded
  <2>17. \A f \in events : f.uid = id.uid => f = id
    BY <1>2 DEF IInv, QueueOK, QueueAhead
  <2>18. newId.impl \notin cancelled
    BY <1>3, <2>5 DEF Pending
  <2>19. Pending' = (Pending \ {id}) \cup {newId}
    BY <1>3, <2>7, <2>9, <2>14, <2>16, <2>17, <2>18 DEF Pending
  <2>20. /\ \A n \in Node : \A f \in clockEvents'[n] :
              f \in clockEvents[n] \/ (f = newId /\ n = newId.ctx)
         /\ \A n \in Node : \A f \in clockEvents[n] :
              ~Over(f) => f \in clockEvents'[n]
         /\ newId.ctx \in Node => newId \in clockEvents'[newId.ctx]
    BY <2>5, <2>7, InsertEventEffect
  <2>21. id \notin Tracked'
    <3>1. \A n \in Node : id \notin clockEvents[n]
      BY DEF EntryInv, TrackInv
    <3> QED  BY <2>8, <2>16, <2>20, <3>1 DEF Tracked
  <2>22. Tracked' \subseteq (Tracked \ {id}) \cup {newId}
    BY <2>8, <2>20, <2>21 DEF Tracked
  <2>23. Known' \subseteq Known \cup {newId} /\ id \in Known
    BY <1>2, <2>7, <2>9, <2>22 DEF Known
  <2>24. \A i \in ImplId : i # id.impl => due'[i] = due[i]
    BY <2>7
  <2>25. id.impl \in 1..impls
    BY <2>23 DEF EntryInv, NamesInv
  <2>26. NamesInv'
    BY <2>5, <2>7, <2>23, <2>24, <2>25 DEF EntryInv, NamesInv
  <2>27. FreshInv'
    <3> SUFFICES ASSUME NEW k \in DOMAIN eventsWithContext
                 PROVE  LET i == eventsWithContext[k].impl IN
                          /\ i \in 1..impls /\ due'[i] = NoDue
                          /\ i \notin ran \cup cancelled \cup revoked
                          /\ \A e \in Known' : e.impl # i
      BY <2>7 DEF EntryInv, FreshInv
    <3>1. LET i == eventsWithContext[k].impl IN
            /\ i \in 1..impls /\ due[i] = NoDue
            /\ i \notin ran \cup cancelled \cup revoked
            /\ \A e \in Known : e.impl # i
      BY DEF EntryInv, FreshInv
    <3>2. eventsWithContext[k].impl # id.impl
      BY <2>23, <3>1
    <3>3. eventsWithContext[k].impl \in ImplId
      BY <3>1 DEF EntryInv, NamesInv
    <3> QED  BY <2>5, <2>23, <2>24, <3>1, <3>2, <3>3
  <2>28. MapInv'
    BY <1>2, <2>5, <2>9, <2>11, <2>13 DEF EntryInv, MapInv
  <2>29. TrackInv'
    <3>1. \A n \in Node : \A f \in clockEvents'[n] : f.ctx = n
      BY <2>20 DEF EntryInv, TrackInv
    <3>2. \A f \in Tracked : f.uid < uid /\ ~Superseded(f)
                             /\ (f \in events \/ Over(f))
      BY DEF EntryInv, TrackInv
    <3>3. newId \notin Tracked
      BY <2>5, <3>2
    <3>4. rescheduling.list \subseteq Tracked
      BY DEF Tracked
    <3>5. \A n \in Node : clockEvents'[n] \cap rescheduling'.list = {}
      BY <2>8, <2>20, <3>3, <3>4 DEF EntryInv, TrackInv
    <3>6. \A f, g \in Tracked : f.uid = g.uid => f = g
      BY DEF EntryInv, TrackInv
    <3>7. \A f \in Tracked \ {id} : f.uid # id.uid
      BY <1>2, <3>6
    <3>8. \A f \in Tracked' : /\ f.uid < uid' /\ ~Superseded(f)'
                              /\ f \in events' \/ Over(f)'
      BY <2>5, <2>9, <2>14, <2>15, <2>16, <2>22, <3>2, <3>7
    <3>9. \A f, g \in Tracked' : f.uid = g.uid => f = g
      BY <2>5, <2>22, <3>2, <3>6
    <3>10. \A f \in rescheduling'.list : ~Over(f)'
      BY <2>8, <2>15 DEF EntryInv, TrackInv
    <3> QED
      BY <1>2, <2>7, <3>1, <3>5, <3>8, <3>9, <3>10 DEF TrackInv
  <2>30. OneEntryPerImpl'
    BY <1>3, <2>5, <2>7, <2>19 DEF EntryInv, OneEntryPerImpl
  <2>31. PendingIsTracked'
    <3> SUFFICES ASSUME NEW f \in Pending', f.ctx # NoContext,
                        due'[f.impl] # NoDue
                 PROVE  f \in clockEvents'[f.ctx] \cup rescheduling'.list
      BY DEF PendingIsTracked
    <3>1. CASE f = newId
      BY <2>5, <2>20, <3>1 DEF EventId, Context
    <3>2. CASE f # newId
      <4>1. f \in Pending /\ f # id
        BY <2>19, <3>2
      <4>2. f.impl # id.impl
        BY <1>3, <4>1 DEF EntryInv, OneEntryPerImpl
      <4>3. f.impl \in ImplId
        BY <4>1 DEF EntryInv, NamesInv, Known
      <4>4. f \in clockEvents[f.ctx] \cup rescheduling.list
        BY <2>24, <4>1, <4>2, <4>3 DEF EntryInv, PendingIsTracked
      <4>5. ~Over(f)
        BY <4>1, QueuedIsNotPast DEF Over, Pending
      <4>6. f.ctx \in Node
        BY <4>1 DEF EventId, Context
      <4> QED  BY <2>8, <2>20, <4>1, <4>4, <4>5, <4>6
    <3> QED  BY <3>1, <3>2
  <2>32. EntryInv'
    BY <2>26, <2>27, <2>28, <2>29, <2>30, <2>31 DEF EntryInv
  <2>33. /\ rescheduling' = IF rescheduling.list \ {id} = {}
                            THEN NotRescheduling
                            ELSE [rescheduling EXCEPT
                                    !.list = rescheduling.list \ {id}]
         /\ UNCHANGED <<currentVars, phase, running, updates>>
    BY <1>1, <1>5
  <2> QED
    BY <1>2, <1>3, <2>5, <2>6, <2>7, <2>8, <2>9, <2>11, <2>12, <2>19, <2>32,
       <2>33
<1> QED  BY <1>4, <1>5

LEMMA EntryInit == Init => EntryInv
<1> SUFFICES ASSUME Init PROVE EntryInv
  OBVIOUS
<1>1. /\ events = {} /\ handles = {} /\ impls = 0 /\ ran = {}
      /\ cancelled = {} /\ revoked = {} /\ DOMAIN cancelEventMap = {}
      /\ DOMAIN eventsWithContext = {} /\ rescheduling.list = {}
      /\ clockEvents = [n \in Node |-> {}]
      /\ due = [i \in ImplId |-> NoDue]
  BY DEF Init, NotRescheduling
<1>2. Tracked = {} /\ Known = {} /\ Pending = {}
  BY <1>1 DEF Tracked, Known, Pending
<1>3. NamesInv
  BY <1>1, <1>2, BoundAssumption DEF NamesInv
<1>4. FreshInv /\ MapInv /\ TrackInv
  BY <1>1, <1>2 DEF FreshInv, MapInv, TrackInv
<1>5. OneEntryPerImpl /\ PendingIsTracked
  BY <1>2 DEF OneEntryPerImpl, PendingIsTracked
<1> QED  BY <1>3, <1>4, <1>5 DEF EntryInv

\* The main loop takes in what the other threads scheduled.
LEMMA RunEntries ==
  ASSUME IInv, EntryInv, Run \/ EventReturns
  PROVE  /\ EntryInv' /\ Pending' = Pending \cup Batch
         /\ uid' = uid + Len(eventsWithContext)
         /\ UNCHANGED <<handles, rescheduling, updates, whoVars>>
<1>1. /\ rescheduling.list = {} /\ ProcessEventsWithContext
      /\ UNCHANGED <<whoVars, clockEvents, rescheduling, impls, handles, due,
                     updates>>
  BY DEF Run, EventReturns, CallerRuns, whoVars, currentVars, clockVars,
     historyVars
<1> QED  BY <1>1, TakeInEntries DEF ProcessEventsWithContext

\* Steps that no EventId takes part in.
LEMMA OtherEntries ==
  ASSUME IInv, EntryInv, Stop \/ RunReturns \/ UNCHANGED vars
  PROVE  EntryInv' /\ UNCHANGED <<entryVars, whoVars>>
<1>1. UNCHANGED <<entryVars, whoVars>>
  BY DEF Stop, RunReturns, Fault, vars, entryVars, whoVars, queueVars,
     currentVars, clockVars, historyVars
<1>2. rescheduling.list # {} => phase' \in {"ready", "event"}
  BY DEF Stop, RunReturns, vars, EntryInv, TrackInv, CallerRuns
<1> QED  BY <1>1, <1>2, EntrySame

LEMMA ProcessEntries ==
  ASSUME IInv, EntryInv, ProcessOneEvent
  PROVE  \E next \in events :
           /\ EntryInv' /\ IsFirst(next, events)
           /\ \/ Superseded(next) /\ SkipSuperseded(next) /\ Pending' = Pending
              \/ /\ ~Superseded(next) /\ Invoke(next)
                 /\ Pending' = Pending \ {next}
                 /\ currentTs' = next.ts
                 /\ ran' = IF next.impl \in cancelled THEN ran
                           ELSE ran \cup {next.impl}
<1>1. PICK next \in events :
        /\ phase = "loop" /\ IsFirst(next, events)
        /\ IF Superseded(next) THEN SkipSuperseded(next) ELSE Invoke(next)
  BY DEF ProcessOneEvent
<1>2. CASE Superseded(next)
  BY <1>1, <1>2, SkipEntries
<1>3. CASE ~Superseded(next)
  BY <1>1, <1>3, InvokeEntries
<1> QED  BY <1>1, <1>2, <1>3

LEMMA EntryNext == IInv /\ EntryInv /\ [Next]_vars => EntryInv'
<1> SUFFICES ASSUME IInv, EntryInv, [Next]_vars PROVE EntryInv'
  OBVIOUS
<1>1. CASE Schedule \/ ScheduleNow
  <2>1. PICK d \in Nat : ScheduleAfter(d)
    BY <1>1, DelayAssumption DEF Schedule, ScheduleNow
  <2> QED  BY <2>1, ScheduleEntries
<1>2. CASE ScheduleWithContext
  BY <1>2, WithContextEntries
<1>3. CASE WorkerScheduleWithContext
  BY <1>3, WorkerEntries
<1>4. CASE SetClock
  BY <1>4, SetClockEntries
<1>5. CASE RescheduleOne
  BY <1>5, RescheduleEntries
<1>6. CASE Cancel
  BY <1>6, CancelEntries
<1>7. CASE Remove
  BY <1>7, RemoveEntries
<1>8. CASE Run \/ EventReturns
  BY <1>8, RunEntries
<1>9. CASE ProcessOneEvent
  BY <1>9, ProcessEntries
<1>10. CASE Stop \/ RunReturns \/ UNCHANGED vars
  BY <1>10, OtherEntries
<1> QED
  BY <1>1, <1>2, <1>3, <1>4, <1>5, <1>6, <1>7, <1>8, <1>9, <1>10 DEF Next

LEMMA EntryAlways == Spec => [](IInv /\ EntryInv)
<1>1. Init => IInv /\ EntryInv
  BY IInvInit, EntryInit
<1>2. IInv /\ EntryInv /\ [Next]_vars => IInv' /\ EntryInv'
  BY IInvNext, EntryNext
<1> QED  BY <1>1, <1>2, PTL DEF Spec

\* OneEntryPerImpl: CancelRescheduling leaves the old entry in the queue and maps
\* its uid to the new one, and yet, for any number of clock updates on any nodes,
\* ProcessOneEvent has one entry left to execute for an activity, at most once.
THEOREM OneEntry == Spec => []OneEntryPerImpl
<1>1. EntryInv => OneEntryPerImpl
  BY DEF EntryInv
<1> QED  BY <1>1, EntryAlways, PTL

\* PendingIsTracked: InsertEvent purges a clock's list of what IsExpired says is
\* over, and never of an event that is pending; so the next SetClock finds all.
THEOREM NothingUntracked == Spec => []PendingIsTracked
<1>1. EntryInv => PendingIsTracked
  BY DEF EntryInv
<1> QED  BY <1>1, EntryAlways, PTL

-----------------------------------------------------------------------------
(***************************************************************************)
(* EventIds of the application.  As long as clocks were updated once, an   *)
(* EventId is what it stands for or one step of the map away from it:      *)
(* nothing is moved twice.  (With a second update the map may forget the   *)
(* first step, the finding of run twice_moved.)                            *)
(***************************************************************************)
StandsFor(h, e) == IF Superseded(h) THEN cancelEventMap[h.uid] = e ELSE h = e

OnceInv ==
  /\ updates <= MaxUpdates
  /\ updates = 0 => DOMAIN cancelEventMap = {} /\ rescheduling.list = {}
  /\ updates <= 1 =>
       /\ \A u \in DOMAIN cancelEventMap :
            /\ cancelEventMap[u].uid \notin DOMAIN cancelEventMap
            /\ \A e \in rescheduling.list : e.uid # cancelEventMap[u].uid
       /\ \A h \in handles, e \in Pending : e.impl = h.impl => StandsFor(h, e)

\* An EventId that stands for a pending entry is not expired.
LEMMA PendingIsAlive ==
  ASSUME IInv, EntryInv, OnceInv, updates <= 1,
         NEW h \in handles, NEW e \in Pending, e.impl = h.impl
  PROVE  ~IsExpired(h)
<1> USE Numbers
<1>1. StandsFor(h, e)
  BY DEF OnceInv
<1>2. ~Superseded(e) /\ ~Over(e) /\ e \in EventId /\ h \in EventId
  BY QueuedIsNotPast DEF Pending, Over
<1>3. ~IsExpired(e)
  BY <1>2, ExpiredFollows DEF IInv, TypeInv, EntryInv
<1>4. CASE Superseded(h)
  BY <1>1, <1>2, <1>3, <1>4, ExpiredFollows
     DEF StandsFor, IInv, TypeInv, EntryInv
<1>5. CASE ~Superseded(h)
  BY <1>1, <1>3, <1>5 DEF StandsFor
<1> QED  BY <1>4, <1>5

LEMMA OnceKept ==
  ASSUME OnceInv, UNCHANGED <<cancelEventMap, updates, rescheduling>>,
         \A h \in handles', e \in Pending' : e.impl = h.impl =>
           \/ h \in handles /\ e \in Pending
           \/ h = e /\ ~Superseded(h)
  PROVE  OnceInv'
BY DEF OnceInv, StandsFor, Superseded

\* A new entry is pending, and its EventId stands for it.
LEMMA NewPending ==
  ASSUME IInv, EntryInv, NEW e \in EventId, e.uid = uid, e.impl = impls + 1,
         events' = events \cup {e}, UNCHANGED whoVars
  PROVE  ~Superseded(e) /\ Pending' = Pending \cup {e}
<1> USE Numbers
<1>1. \A u \in DOMAIN cancelEventMap : u \in Nat /\ cancelEventMap[u].uid \in Nat
  BY DEF IInv, TypeInv, TypeOK
<1>2. ~Superseded(e)
  BY <1>1 DEF EntryInv, MapInv, Superseded
<1>3. e.impl \notin cancelled
  BY DEF EntryInv, NamesInv
<1>4. UNCHANGED <<cancelEventMap, cancelled>>
  BY DEF whoVars
<1> QED  BY <1>2, <1>3, <1>4 DEF Pending, Superseded

LEMMA NewOnce ==
  ASSUME IInv, EntryInv, OnceInv, NEW e \in EventId,
         e.uid = uid, e.impl = impls + 1,
         events' = events \cup {e}, handles' \subseteq handles \cup {e},
         UNCHANGED <<whoVars, rescheduling, updates>>
  PROVE  OnceInv'
<1> USE Numbers
<1>1. ~Superseded(e) /\ Pending' = Pending \cup {e}
  BY NewPending
<1>2. \A f \in handles \cup Pending : f.impl # e.impl
  BY DEF EntryInv, NamesInv, Known
<1>3. UNCHANGED cancelEventMap
  BY DEF whoVars
<1> QED  BY <1>1, <1>2, <1>3, OnceKept

LEMMA OnceSet == IInv /\ EntryInv /\ OnceInv /\ SetClock => OnceInv'
<1> SUFFICES ASSUME IInv, EntryInv, OnceInv, SetClock PROVE OnceInv'
  OBVIOUS
<1>1. /\ updates < MaxUpdates /\ updates' = updates + 1
      /\ UNCHANGED <<cancelEventMap, handles>>
  BY DEF SetClock
<1>2. updates \in Nat /\ MaxUpdates \in Nat
  BY BoundAssumption DEF IInv, TypeInv, TypeOK
<1>3. Pending' = Pending
  BY SetClockEntries
<1> QED  BY <1>1, <1>2, <1>3 DEF OnceInv, StandsFor, Superseded

LEMMA OnceReschedule == IInv /\ EntryInv /\ OnceInv /\ RescheduleOne => OnceInv'
<1> SUFFICES ASSUME IInv, EntryInv, OnceInv, RescheduleOne PROVE OnceInv'
  OBVIOUS
<1> USE Numbers
<1>1. updates' = updates
  BY DEF RescheduleOne, Fault, historyVars
<1>2. CASE UNCHANGED <<entryVars, whoVars>>
  <2>1. UNCHANGED <<cancelEventMap, rescheduling, handles, events, cancelled>>
    BY <1>2 DEF entryVars, whoVars
  <2>2. Pending' = Pending
    BY <2>1 DEF Pending, Superseded
  <2> QED  BY <1>1, <2>1, <2>2, OnceKept
<1>3. CASE ~UNCHANGED <<entryVars, whoVars>>
  <2>1. PICK id \in rescheduling.list, newId \in EventId :
          /\ id \in Pending
          /\ newId.uid = uid /\ newId.impl = id.impl
          /\ Pending' = (Pending \ {id}) \cup {newId}
          /\ id.uid \notin DOMAIN cancelEventMap
          /\ cancelEventMap' =
               [u \in DOMAIN cancelEventMap \cup {id.uid} |->
                  IF u \in DOMAIN cancelEventMap THEN cancelEventMap[u]
                  ELSE newId]
          /\ rescheduling'.list = rescheduling.list \ {id}
          /\ UNCHANGED handles
    BY <1>3, RescheduleEntries
  <2>2. updates # 0
    BY <2>1 DEF OnceInv
  <2>3. /\ \A u \in DOMAIN cancelEventMap :
             /\ u \in Nat /\ cancelEventMap[u].uid \in Nat
             /\ cancelEventMap[u].uid < uid /\ u < cancelEventMap[u].uid
        /\ \A e \in rescheduling.list : e.uid \in Nat /\ e.uid < uid
        /\ id.uid \in Nat /\ id.uid < uid
    <3>1. rescheduling.list \subseteq Tracked
      BY DEF Tracked
    <3> QED
      BY <3>1 DEF IInv, TypeInv, TypeOK, EntryInv, MapInv, TrackInv
  <2>4. SUFFICES ASSUME updates <= 1
                 PROVE  /\ \A u \in DOMAIN cancelEventMap' :
                             /\ cancelEventMap'[u].uid \notin DOMAIN cancelEventMap'
                             /\ \A e \in rescheduling'.list :
                                  e.uid # cancelEventMap'[u].uid
                        /\ \A h \in handles, e \in Pending' :
                             e.impl = h.impl => StandsFor(h, e)'
    BY <1>1, <2>1, <2>2 DEF OnceInv
  <2>5. ASSUME NEW u \in DOMAIN cancelEventMap'
        PROVE  /\ cancelEventMap'[u].uid \notin DOMAIN cancelEventMap'
               /\ \A e \in rescheduling'.list : e.uid # cancelEventMap'[u].uid
    <3>1. CASE u \in DOMAIN cancelEventMap
      BY <2>1, <2>4, <3>1 DEF OnceInv
    <3>2. CASE u = id.uid
      <4>1. cancelEventMap'[u] = newId
        BY <2>1, <3>2
      <4>2. uid \notin DOMAIN cancelEventMap /\ uid # id.uid
        BY <2>3
      <4> QED  BY <2>1, <2>3, <4>1, <4>2
    <3> QED  BY <2>1, <3>1, <3>2
  <2>6. ASSUME NEW h \in handles, NEW e \in Pending', e.impl = h.impl
        PROVE  StandsFor(h, e)'
    <3>1. Superseded(h)' <=> (Superseded(h) \/ h.uid = id.uid)
      BY <2>1 DEF Superseded
    <3>2. CASE e = newId
      <4>1. StandsFor(h, id)
        BY <2>1, <2>4, <2>6, <3>2 DEF OnceInv
      <4>2. ~Superseded(h)
        BY <2>4, <4>1 DEF OnceInv, StandsFor, Superseded
      <4>3. h = id
        BY <4>1, <4>2 DEF StandsFor
      <4> QED  BY <2>1, <3>1, <3>2, <4>3 DEF StandsFor, Superseded
    <3>3. CASE e # newId
      <4>1. e \in Pending /\ e # id
        BY <2>1, <3>3
      <4>2. StandsFor(h, e)
        BY <2>4, <2>6, <4>1 DEF OnceInv
      <4>3. CASE Superseded(h)
        BY <2>1, <3>1, <4>2, <4>3 DEF StandsFor, Superseded
      <4>4. CASE ~Superseded(h)
        <5>1. h = e
          BY <4>2, <4>4 DEF StandsFor
        <5>2. h.uid # id.uid
          BY <2>1, <4>1, <5>1 DEF IInv, QueueOK, QueueAhead
        <5> QED  BY <3>1, <4>4, <5>1, <5>2 DEF StandsFor
      <4> QED  BY <4>3, <4>4
    <3> QED  BY <3>2, <3>3
  <2> QED  BY <2>5, <2>6
<1> QED  BY <1>2, <1>3

LEMMA OnceProcess == IInv /\ EntryInv /\ OnceInv /\ ProcessOneEvent => OnceInv'
<1> SUFFICES ASSUME IInv, EntryInv, OnceInv, ProcessOneEvent PROVE OnceInv'
  OBVIOUS
<1> USE Numbers
<1>1. PICK next \in events :
        \/ Superseded(next) /\ SkipSuperseded(next) /\ Pending' = Pending
        \/ ~Superseded(next) /\ Invoke(next) /\ Pending' = Pending \ {next}
  BY ProcessEntries
<1>2. CASE ~Superseded(next)
  <2>1. UNCHANGED <<cancelEventMap, updates, rescheduling, handles>>
    BY <1>1, <1>2 DEF Invoke, Fault, historyVars
  <2> QED  BY <1>1, <1>2, <2>1, OnceKept
<1>3. CASE Superseded(next)
  <2>1. /\ UNCHANGED <<updates, rescheduling, handles>> /\ Pending' = Pending
        /\ cancelEventMap' =
             IF cancelEventMap[next.uid].ts < currentTs
             THEN [u \in DOMAIN cancelEventMap \ {next.uid} |->
                     cancelEventMap[u]]
             ELSE cancelEventMap
    BY <1>1, <1>3 DEF SkipSuperseded, historyVars
  <2>2. /\ DOMAIN cancelEventMap' \subseteq DOMAIN cancelEventMap
        /\ \A u \in DOMAIN cancelEventMap' :
             cancelEventMap'[u] = cancelEventMap[u]
    BY <2>1
  <2>3. ASSUME updates <= 1, NEW h \in handles, NEW e \in Pending,
               e.impl = h.impl
        PROVE  StandsFor(h, e)'
    <3>1. StandsFor(h, e)
      BY <2>3 DEF OnceInv
    <3>2. CASE ~Superseded(h)
      BY <2>2, <3>1, <3>2 DEF StandsFor, Superseded
    <3>3. CASE Superseded(h)
      <4>1. cancelEventMap[h.uid] = e
        BY <3>1, <3>3 DEF StandsFor
      <4>2. e.ts \in Int /\ ~(e.ts < currentTs)
        BY QueuedIsNotPast DEF Past
      <4>3. h.uid \in DOMAIN cancelEventMap'
        BY <2>1, <3>3, <4>1, <4>2 DEF Superseded
      <4> QED  BY <2>2, <4>1, <4>3 DEF StandsFor, Superseded
    <3> QED  BY <3>2, <3>3
  <2> QED  BY <2>1, <2>2, <2>3 DEF OnceInv
<1> QED  BY <1>2, <1>3

LEMMA OnceNext == IInv /\ EntryInv /\ OnceInv /\ [Next]_vars => OnceInv'
<1> SUFFICES ASSUME IInv, EntryInv, OnceInv, [Next]_vars PROVE OnceInv'
  OBVIOUS
<1> USE Numbers
<1>1. CASE UNCHANGED <<entryVars, whoVars, updates>>
  <2>1. UNCHANGED <<cancelEventMap, rescheduling, handles, events, cancelled,
                    updates>>
    BY <1>1 DEF entryVars, whoVars
  <2>2. Pending' = Pending
    BY <2>1 DEF Pending, Superseded
  <2> QED  BY <2>1, <2>2, OnceKept
<1>2. CASE Schedule \/ ScheduleNow
  <2>1. PICK d \in Nat : ScheduleAfter(d)
    BY <1>2, DelayAssumption DEF Schedule, ScheduleNow
  <2>2. updates' = updates
    BY <2>1 DEF ScheduleAfter, Fault, historyVars
  <2>3. CASE UNCHANGED <<entryVars, whoVars>>
    BY <1>1, <2>2, <2>3
  <2> QED  BY <2>1, <2>2, <2>3, ScheduleEntries, NewOnce
<1>3. CASE ScheduleWithContext
  <2>1. updates' = updates
    BY <1>3 DEF ScheduleWithContext, historyVars
  <2> QED  BY <1>3, <2>1, WithContextEntries, NewOnce
<1>4. CASE WorkerScheduleWithContext
  <2>1. UNCHANGED <<cancelEventMap, rescheduling, handles, events, cancelled,
                    updates>>
    BY <1>4 DEF WorkerScheduleWithContext, queueVars, historyVars
  <2>2. Pending' = Pending
    BY <2>1 DEF Pending, Superseded
  <2> QED  BY <2>1, <2>2, OnceKept
<1>5. CASE SetClock
  BY <1>5, OnceSet
<1>6. CASE RescheduleOne
  BY <1>6, OnceReschedule
<1>7. CASE Cancel \/ Remove
  <2>1. UNCHANGED <<cancelEventMap, rescheduling, handles, updates>>
    BY <1>7 DEF Cancel, Remove, Fault, historyVars
  <2>2. Pending' \subseteq Pending
    BY <1>7 DEF Cancel, Remove, Fault, Pending, Superseded, TakeOut, queueVars
  <2> QED  BY <2>1, <2>2, OnceKept
<1>8. CASE Run \/ EventReturns
  <2>1. /\ UNCHANGED <<cancelEventMap, rescheduling, handles, updates>>
        /\ Pending' = Pending \cup Batch
    BY <1>8, RunEntries DEF whoVars
  <2>2. \A e \in Batch, h \in handles : e.impl # h.impl
    BY BatchFacts DEF Known
  <2> QED  BY <2>1, <2>2, OnceKept
<1>9. CASE ProcessOneEvent
  BY <1>9, OnceProcess
<1>10. CASE Stop \/ RunReturns \/ UNCHANGED vars
  <2>1. updates' = updates
    BY <1>10 DEF Stop, RunReturns, Fault, vars, historyVars
  <2> QED  BY <1>1, <1>10, <2>1, OtherEntries
<1> QED
  BY <1>2, <1>3, <1>4, <1>5, <1>6, <1>7, <1>8, <1>9, <1>10 DEF Next

LEMMA OnceInit == Init => OnceInv
BY BoundAssumption DEF Init, OnceInv, NotRescheduling

LEMMA OnceAlways == Spec => [](IInv /\ EntryInv /\ OnceInv)
<1>1. Init => IInv /\ EntryInv /\ OnceInv
  BY IInvInit, EntryInit, OnceInit
<1>2. IInv /\ EntryInv /\ OnceInv /\ [Next]_vars =>
        IInv' /\ EntryInv' /\ OnceInv'
  BY IInvNext, EntryNext, OnceNext
<1> QED  BY <1>1, <1>2, PTL DEF Spec

\* PendingIsNotExpired, as long as clocks are updated once at most: the code's
\* promise of clock-test.cc, lines 181 to 184, up to exactly the point where
\* run twice_moved shows it broken (MaxUpdates = 2).
THEOREM PendingAlive ==
  ASSUME MaxUpdates <= 1
  PROVE  Spec => []PendingIsNotExpired
<1>1. ASSUME IInv, EntryInv, OnceInv
      PROVE  PendingIsNotExpired
  <2>1. updates <= 1
    BY <1>1, BoundAssumption DEF IInv, TypeInv, TypeOK, OnceInv
  <2> QED  BY <1>1, <2>1, PendingIsAlive DEF PendingIsNotExpired, PendingImpls
<1> QED  BY <1>1, OnceAlways, PTL

-----------------------------------------------------------------------------
(***************************************************************************)
(* What was revoked is cancelled.  Remove sees to that itself; Cancel does *)
(* nothing to an EventId that looks expired, and one that was moved twice  *)
(* may look expired while its activity is pending.                         *)
(***************************************************************************)
CancelWorks == MaxUpdates <= 1 \/ "Cancel" \notin Api

RevokedInv == revoked \subseteq cancelled /\ revoked \cap ran = {}

AllInv == IInv /\ EntryInv /\ OnceInv /\ RevokedInv

LEMMA RevokedNext ==
  ASSUME IInv, EntryInv, OnceInv, RevokedInv, [Next]_vars,
         Cancel => updates <= 1
  PROVE  RevokedInv'
<1>1. CASE UNCHANGED <<revoked, cancelled, ran>>
  BY <1>1 DEF RevokedInv
<1>2. CASE Cancel
  <2>1. PICK id \in handles :
          /\ cancelled' = IF IsExpired(id) THEN cancelled
                          ELSE cancelled \cup {id.impl}
          /\ revoked' = revoked \cup ({id.impl} \cap PendingImpls)
    BY <1>2 DEF Cancel
  <2>2. ran' = ran
    BY <1>2 DEF Cancel
  <2>3. updates <= 1
    BY <1>2
  <2>4. CASE id.impl \notin PendingImpls
    BY <2>1, <2>2, <2>4 DEF RevokedInv
  <2>5. CASE id.impl \in PendingImpls
    <3>1. PICK e \in Pending : e.impl = id.impl
      BY <2>5 DEF PendingImpls
    <3>2. ~IsExpired(id)
      BY <2>3, <3>1, PendingIsAlive
    <3>3. id.impl \notin ran
      BY <3>1 DEF EntryInv, OneEntryPerImpl
    <3> QED  BY <2>1, <2>2, <3>2, <3>3 DEF RevokedInv
  <2> QED  BY <2>4, <2>5
<1>3. CASE Remove
  <2>1. PICK id \in handles :
          IF id \notin events
          THEN Fault("NoSuchEvent")
          ELSE /\ cancelled' = cancelled \cup {id.impl}
               /\ revoked' = revoked \cup ({id.impl} \cap PendingImpls)
               /\ ran' = ran
    BY <1>3 DEF Remove
  <2>2. CASE id \notin events
    BY <1>1, <2>1, <2>2 DEF Fault, historyVars
  <2>3. CASE id \in events
    <3>1. id.impl \in PendingImpls => id.impl \notin ran
      BY DEF PendingImpls, EntryInv, OneEntryPerImpl
    <3> QED  BY <2>1, <2>3, <3>1 DEF RevokedInv
  <2> QED  BY <2>2, <2>3
<1>4. CASE ProcessOneEvent
  <2>1. PICK next \in events :
          IF Superseded(next) THEN SkipSuperseded(next) ELSE Invoke(next)
    BY <1>4 DEF ProcessOneEvent
  <2>2. CASE Superseded(next)
    BY <1>1, <2>1, <2>2 DEF SkipSuperseded, historyVars
  <2>3. CASE ~Superseded(next) /\ next.ts < currentTs
    BY <1>1, <2>1, <2>3 DEF Invoke, Fault, historyVars
  <2>4. CASE ~Superseded(next) /\ ~(next.ts < currentTs)
    <3>1. /\ UNCHANGED <<revoked, cancelled>>
          /\ \/ ran' = ran
             \/ next.impl \notin cancelled /\ ran' = ran \cup {next.impl}
      BY <2>1, <2>4 DEF Invoke
    <3> QED  BY <3>1 DEF RevokedInv
  <2> QED  BY <2>2, <2>3, <2>4
<1>5. CASE \/ Schedule \/ ScheduleNow \/ ScheduleWithContext
           \/ WorkerScheduleWithContext \/ SetClock \/ RescheduleOne
           \/ Stop \/ Run \/ RunReturns \/ EventReturns \/ UNCHANGED vars
  <2>1. UNCHANGED <<revoked, cancelled, ran>>
    BY <1>5 DEF Schedule, ScheduleNow, ScheduleAfter, ScheduleWithContext,
         WorkerScheduleWithContext, SetClock, RescheduleOne, Stop, Run,
         RunReturns, EventReturns, Fault, vars, historyVars
  <2> QED  BY <1>1, <2>1
<1> QED  BY <1>2, <1>3, <1>4, <1>5 DEF Next

LEMMA AllAlways ==
  ASSUME CancelWorks
  PROVE  Spec => []AllInv
<1>1. Init => AllInv
  BY IInvInit, EntryInit, OnceInit DEF AllInv, RevokedInv, Init
<1>2. AllInv /\ [Next]_vars => AllInv'
  <2> SUFFICES ASSUME AllInv, [Next]_vars PROVE AllInv'
    OBVIOUS
  <2>1. Cancel => updates <= 1
    BY BoundAssumption
       DEF Cancel, CancelWorks, AllInv, IInv, TypeInv, TypeOK, OnceInv
  <2> QED  BY <2>1, IInvNext, EntryNext, OnceNext, RevokedNext DEF AllInv
<1> QED  BY <1>1, <1>2, PTL DEF Spec

\* RevokedNeverRuns: what was cancelled or removed while it was pending is
\* never executed, when clocks are updated once at most or the application
\* revokes with Remove only.
THEOREM RevokedStaysRevoked ==
  ASSUME CancelWorks
  PROVE  Spec => []RevokedNeverRuns
<1>1. AllInv => RevokedNeverRuns
  BY DEF AllInv, RevokedInv, RevokedNeverRuns
<1> QED  BY <1>1, AllAlways, PTL

-----------------------------------------------------------------------------
(***************************************************************************)
(* Before the first clock update: every clock reads the global time, and   *)
(* an EventId of the application is in the queue until it is over.         *)
(***************************************************************************)
UntouchedInv ==
  updates = 0 =>
    /\ fault = "None"
    /\ \A n \in Node : clock[n] \in {NoClock, DefaultClock}
    /\ \A h \in handles : h \in events \/ Over(h)
    /\ RevokedInv

\* The clock Schedule creates converts a delay into itself.
LEMMA DefaultClockDelay ==
  ASSUME NEW now \in Int, NEW d \in Int
  PROVE  LocalToGlobalDelay(DefaultClock, now, d) = d
<1>1. now * 1 = now
  OBVIOUS
<1>2. GetLocalTime(DefaultClock, now) = now
  BY <1>1, LroundExact DEF GetLocalTime, GlobalToLocalTime, DefaultClock
<1>3. LocalToGlobalTime(DefaultClock, now + d) = ((now + d) * 1) \div 1
  BY DEF LocalToGlobalTime, DefaultClock
<1>4. ((now + d) * 1) \div 1 = now + d
  BY ExactQuotient
<1> QED  BY <1>2, <1>3, <1>4 DEF LocalToGlobalDelay

LEMMA UntouchedDelay ==
  ASSUME IInv, UntouchedInv, updates = 0, NEW d \in Nat
  PROVE  GlobalDelay(d) = d
<1>1. CASE currentContext = NoContext
  BY <1>1 DEF GlobalDelay
<1>2. CASE currentContext # NoContext
  <2>1. currentContext \in Node /\ currentTs \in Int
    BY <1>2 DEF IInv, TypeInv, TypeOK, Context
  <2>2. NodeClock(currentContext) = DefaultClock
    BY <2>1 DEF UntouchedInv, NodeClock
  <2> QED  BY <1>2, <2>1, <2>2, DefaultClockDelay DEF GlobalDelay
<1> QED  BY <1>1, <1>2

\* As long as no clock was updated, an EventId is expired when it is over.
LEMMA UntouchedExpired ==
  ASSUME IInv, EntryInv, OnceInv, updates = 0, NEW id \in EventId
  PROVE  ~Superseded(id) /\ IsExpired(id) = Over(id)
<1>1. ~Superseded(id)
  BY DEF OnceInv, Superseded
<1> QED  BY <1>1, ExpiredFollows DEF IInv, TypeInv, EntryInv

\* What is over stays over.
LEMMA OverStays ==
  ASSUME IInv, cancelled \subseteq cancelled',
         \/ UNCHANGED <<currentTs, currentUid>>
         \/ \E next \in events : currentTs' = next.ts /\ currentUid' = next.uid,
         NEW h \in EventId, Over(h)
  PROVE  Over(h)'
<1>1. /\ currentTs \in Int /\ currentUid \in Nat
      /\ h.uid \in Nat /\ h.ts \in Int
      /\ \A e \in events :
           /\ e.uid \in Nat /\ e.ts \in Int
           /\ e.ts > currentTs \/ (e.ts = currentTs /\ e.uid > currentUid)
  BY DEF IInv, TypeInv, TypeOK, EventId, QueueOK, QueueAhead
<1>2. Past(h) => Past(h)'
  BY <1>1 DEF Past
<1> QED  BY <1>2 DEF Over

\* An event that is neither executed nor cancelled is found in the queue.
LEMMA UntouchedHandles ==
  ASSUME IInv, EntryInv, OnceInv, UntouchedInv, [Next]_vars,
         updates = 0, updates' = 0
  PROVE  \A h \in handles' : h \in events' \/ Over(h)'
<1> USE Numbers
<1>1. \A h \in handles : h \in events \/ Over(h)
  BY DEF UntouchedInv
<1>2. ASSUME handles' = handles, events \subseteq events',
             UNCHANGED <<currentTs, currentUid>>, cancelled \subseteq cancelled'
      PROVE  \A h \in handles' : h \in events' \/ Over(h)'
  BY <1>1, <1>2, OverStays
<1>3. CASE \/ ScheduleWithContext \/ WorkerScheduleWithContext
           \/ Stop \/ RunReturns \/ Run \/ EventReturns \/ UNCHANGED vars
  <2>1. /\ handles' = handles /\ events \subseteq events'
        /\ UNCHANGED <<currentTs, currentUid, cancelled>>
    BY <1>3 DEF ScheduleWithContext, InsertScheduler,
         WorkerScheduleWithContext, Stop, RunReturns, Run, EventReturns, Fault,
         ProcessEventsWithContext, vars, queueVars, currentVars, historyVars
  <2> QED  BY <1>2, <2>1
<1>4. CASE Schedule \/ ScheduleNow
  <2>1. PICK d \in Nat : ScheduleAfter(d)
    BY <1>4, DelayAssumption DEF Schedule, ScheduleNow
  <2>2. CASE UNCHANGED <<entryVars, whoVars>>
    BY <1>2, <2>2 DEF entryVars, whoVars
  <2>3. CASE ~UNCHANGED <<entryVars, whoVars>>
    <3>1. PICK e \in EventId : /\ events' = events \cup {e}
                               /\ handles' = handles \cup {e}
                               /\ UNCHANGED whoVars
      BY <2>1, <2>3, ScheduleEntries
    <3>2. UNCHANGED <<currentTs, currentUid>> /\ cancelled \subseteq cancelled'
      BY <3>1 DEF whoVars
    <3>3. \A h \in handles : Over(h) => Over(h)'
      BY <3>2, OverStays
    <3> QED  BY <1>1, <3>1, <3>3
  <2> QED  BY <2>2, <2>3
<1>5. CASE SetClock
  BY <1>5 DEF SetClock
<1>6. CASE RescheduleOne
  BY <1>6 DEF RescheduleOne, OnceInv
<1>7. CASE Cancel
  <2>1. /\ handles' = handles /\ events' = events
        /\ UNCHANGED <<currentTs, currentUid>> /\ cancelled \subseteq cancelled'
    BY <1>7 DEF Cancel, queueVars, currentVars
  <2> QED  BY <1>2, <2>1
<1>8. CASE Remove
  <2>1. PICK id \in handles :
          IF id \notin events
          THEN Fault("NoSuchEvent")
          ELSE /\ events' = events \ {id}
               /\ cancelled' = cancelled \cup {id.impl}
               /\ UNCHANGED <<currentTs, currentUid, handles>>
    BY <1>8 DEF Remove, TakeOut, currentVars
  <2>2. CASE id \notin events
    BY <1>2, <2>1, <2>2 DEF Fault, queueVars, currentVars, historyVars
  <2>3. CASE id \in events
    <3>1. Over(id)'
      BY <2>1, <2>3 DEF Over
    <3>2. cancelled \subseteq cancelled' /\ UNCHANGED <<currentTs, currentUid>>
      BY <2>1, <2>3
    <3>3. \A h \in handles : Over(h) => Over(h)'
      BY <3>2, OverStays
    <3> QED  BY <1>1, <2>1, <2>3, <3>1, <3>3
  <2> QED  BY <2>2, <2>3
<1>9. CASE ProcessOneEvent
  <2>1. PICK next \in events :
          IF Superseded(next) THEN SkipSuperseded(next) ELSE Invoke(next)
    BY <1>9 DEF ProcessOneEvent
  <2>2. ~Superseded(next)
    BY UntouchedExpired
  <2>3. CASE next.ts < currentTs
    BY <1>2, <2>1, <2>2, <2>3
       DEF Invoke, Fault, queueVars, currentVars, historyVars
  <2>4. CASE ~(next.ts < currentTs)
    <3>1. /\ events' = events \ {next} /\ handles' = handles
          /\ currentTs' = next.ts /\ currentUid' = next.uid
          /\ cancelled' = cancelled
      BY <2>1, <2>2, <2>4 DEF Invoke, TakeOut
    <3>2. Over(next)'
      BY <3>1 DEF Over, Past
    <3>3. \A h \in handles : Over(h) => Over(h)'
      BY <3>1, OverStays
    <3> QED  BY <1>1, <3>1, <3>2, <3>3
  <2> QED  BY <2>3, <2>4
<1> QED
  BY <1>3, <1>4, <1>5, <1>6, <1>7, <1>8, <1>9 DEF Next

\* No assertion ends the program.
LEMMA UntouchedFault ==
  ASSUME IInv, EntryInv, OnceInv, UntouchedInv, [Next]_vars, IInv',
         updates = 0, updates' = 0
  PROVE  fault' = "None"
<1>0. fault = "None" /\ fault' \notin {"TimeRunsBack", "LostEvent"}
  BY DEF UntouchedInv, IInv, QueueOK, AssertionsHold
<1>1. CASE Schedule \/ ScheduleNow
  <2>1. PICK d \in Nat : ScheduleAfter(d)
    BY <1>1, DelayAssumption DEF Schedule, ScheduleNow
  <2>2. ~(GlobalDelay(d) < 0)
    BY UntouchedDelay
  <2> QED  BY <1>0, <2>1, <2>2 DEF ScheduleAfter
<1>2. CASE Remove
  <2>1. PICK id \in handles : /\ ~IsExpired(id)
                              /\ id \notin events \/ fault' = fault
    BY <1>2 DEF Remove
  <2>2. id \in EventId
    BY Numbers
  <2>3. id \in events
    BY <2>1, <2>2, UntouchedExpired DEF UntouchedInv
  <2> QED  BY <1>0, <2>1, <2>3
<1>3. CASE ProcessOneEvent
  BY <1>0, <1>3 DEF ProcessOneEvent, SkipSuperseded, Invoke, Fault
<1>4. CASE RunReturns
  BY <1>0, <1>4 DEF RunReturns, Fault
<1>5. CASE RescheduleOne
  BY <1>5 DEF RescheduleOne, OnceInv
<1>6. CASE \/ ScheduleWithContext \/ WorkerScheduleWithContext \/ SetClock
           \/ Cancel \/ Stop \/ Run \/ EventReturns \/ UNCHANGED vars
  BY <1>0, <1>6 DEF ScheduleWithContext, WorkerScheduleWithContext, SetClock,
       Cancel, Stop, Run, EventReturns, vars
<1> QED  BY <1>1, <1>2, <1>3, <1>4, <1>5, <1>6 DEF Next

LEMMA UntouchedClocks ==
  ASSUME IInv, UntouchedInv, [Next]_vars, updates = 0, updates' = 0, OnceInv
  PROVE  \A n \in Node : clock'[n] \in {NoClock, DefaultClock}
<1>1. /\ \A n \in Node : clock[n] \in {NoClock, DefaultClock}
      /\ DOMAIN clock = Node
  BY DEF UntouchedInv, IInv, TypeInv, TypeOK
<1>2. CASE UNCHANGED clock
  BY <1>1, <1>2
<1>3. CASE Schedule \/ ScheduleNow
  <2>1. \E e : InsertEvent(e) \/ UNCHANGED clock
    BY <1>3 DEF Schedule, ScheduleNow, ScheduleAfter, Fault, clockVars
  <2>2. PICK e : InsertEvent(e) \/ UNCHANGED clock
    BY <2>1
  <2>3. UNCHANGED clock \/ clock' = [clock EXCEPT ![e.ctx] = NodeClock(e.ctx)]
    BY <2>2 DEF InsertEvent, clockVars
  <2>4. CASE clock' = [clock EXCEPT ![e.ctx] = NodeClock(e.ctx)]
    <3>1. e.ctx \in Node => NodeClock(e.ctx) \in {NoClock, DefaultClock}
      BY <1>1 DEF NodeClock
    <3> QED  BY <1>1, <2>4, <3>1
  <2> QED  BY <1>2, <2>3, <2>4
<1>4. CASE SetClock
  BY <1>4 DEF SetClock
<1>5. CASE RescheduleOne
  BY <1>5 DEF RescheduleOne, OnceInv
<1>6. CASE \/ ScheduleWithContext \/ WorkerScheduleWithContext \/ Cancel
           \/ Remove \/ Stop \/ Run \/ RunReturns \/ ProcessOneEvent
           \/ EventReturns \/ UNCHANGED vars
  <2>1. UNCHANGED clock
    BY <1>6 DEF ScheduleWithContext, WorkerScheduleWithContext, Cancel, Remove,
         Stop, Run, RunReturns, ProcessOneEvent, SkipSuperseded, Invoke,
         EventReturns, Fault, vars, clockVars
  <2> QED  BY <1>2, <2>1
<1> QED  BY <1>3, <1>4, <1>5, <1>6 DEF Next

LEMMA UpdatesGrow ==
  ASSUME IInv, [Next]_vars
  PROVE  updates \in Nat /\ updates' \in {updates, updates + 1}
<1>1. updates \in Nat
  BY DEF IInv, TypeInv, TypeOK
<1>2. CASE SetClock
  BY <1>1, <1>2 DEF SetClock
<1>3. CASE ~SetClock
  BY <1>1, <1>3 DEF Next, Schedule, ScheduleNow, ScheduleAfter, ScheduleWithContext,
       WorkerScheduleWithContext, RescheduleOne, Cancel, Remove, Stop, Run,
       RunReturns, ProcessOneEvent, SkipSuperseded, Invoke, EventReturns,
       Fault, vars, historyVars
<1> QED  BY <1>1, <1>2, <1>3

LEMMA UntouchedNext ==
  ASSUME IInv, EntryInv, OnceInv, UntouchedInv, [Next]_vars
  PROVE  UntouchedInv'
<1> SUFFICES ASSUME updates' = 0
             PROVE  /\ fault' = "None"
                    /\ \A n \in Node : clock'[n] \in {NoClock, DefaultClock}
                    /\ \A h \in handles' : h \in events' \/ Over(h)'
                    /\ RevokedInv'
  BY DEF UntouchedInv
<1>1. updates = 0
  BY UpdatesGrow
<1>2. RevokedInv
  BY <1>1 DEF UntouchedInv
<1>3. IInv'
  BY IInvNext
<1> QED
  BY <1>1, <1>2, <1>3, RevokedNext, UntouchedFault, UntouchedClocks,
     UntouchedHandles

\* As long as no clock was updated, the simulator keeps the promises of
\* simulator.h to the letter (PromisesKept): no assertion ends the program, an
\* EventId whose activity is gone is expired, and GetDelayLeft is exact.
THEOREM Promises == Spec => []PromisesKept
<1>1. Init => IInv /\ EntryInv /\ OnceInv /\ UntouchedInv
  <2>1. Init => UntouchedInv
    BY DEF Init, UntouchedInv, RevokedInv
  <2> QED  BY <2>1, IInvInit, EntryInit, OnceInit
<1>2. IInv /\ EntryInv /\ OnceInv /\ UntouchedInv /\ [Next]_vars =>
        IInv' /\ EntryInv' /\ OnceInv' /\ UntouchedInv'
  BY IInvNext, EntryNext, OnceNext, UntouchedNext
<1>3. IInv /\ EntryInv /\ OnceInv /\ UntouchedInv => PromisesKept
  <2> SUFFICES ASSUME IInv, EntryInv, OnceInv, UntouchedInv, updates = 0
               PROVE  fault = "None" /\ GoneIsExpired /\ DelayLeftIsExact
    BY DEF PromisesKept
  <2> USE Numbers
  <2>1. ASSUME NEW h \in handles, h.impl \in ran \cup revoked
        PROVE  IsExpired(h)
    <3>1. h \in EventId
      OBVIOUS
    <3>2. ~Superseded(h) /\ IsExpired(h) = Over(h)
      BY <3>1, UntouchedExpired
    <3>3. CASE h \in Pending
      BY <2>1, <3>3 DEF EntryInv, OneEntryPerImpl, UntouchedInv, RevokedInv,
                        Pending
    <3>4. CASE h \notin Pending
      BY <3>2, <3>4 DEF UntouchedInv, Pending, Over
    <3> QED  BY <3>3, <3>4
  <2>2. ASSUME NEW h \in handles, NEW e \in Pending, e.impl = h.impl
        PROVE  GetDelayLeft(h) = e.ts - currentTs
    <3>1. ~IsExpired(h)
      BY <2>2, PendingIsAlive
    <3>2. ~Superseded(h)
      BY UntouchedExpired
    <3>3. h = e
      BY <2>2, <3>2 DEF OnceInv, StandsFor
    <3> QED  BY <3>1, <3>3 DEF GetDelayLeft
  <2> QED  BY <2>1, <2>2 DEF UntouchedInv, GoneIsExpired, DelayLeftIsExact
<1> QED  BY <1>1, <1>2, <1>3, PTL DEF Spec

-----------------------------------------------------------------------------
(***************************************************************************)
(* The abstract simulation: an activity is pending while an entry is.      *)
(***************************************************************************)
ActivityOf(e) == [act |-> e.impl, due |-> e.ts, ticket |-> e.uid]
Activities == {ActivityOf(e) : e \in Pending}

simSource == <<currentTs, ran, revoked>>

\* New entries are new activities.
LEMMA AddStep ==
  ASSUME IInv, EntryInv, NEW new \in SUBSET EventId, new # {},
         Pending' = Pending \cup new, uid' \in Nat, UNCHANGED simSource,
         \A e \in new : /\ e.uid >= uid /\ e.uid < uid' /\ e.ts >= currentTs
                        /\ e.impl \in ImplId /\ e.impl \notin ran \cup revoked
                        /\ \A f \in Pending : f.impl # e.impl,
         \A e, f \in new : e.impl = f.impl \/ e.uid = f.uid => e = f
  PROVE  Sim!Add
<1> DEFINE fresh == {ActivityOf(e) : e \in new}
<1>1. /\ Activities' = Activities \cup fresh
      /\ \A x \in fresh : x \notin Activities
  BY DEF Activities, ActivityOf
<1>2. Activities' \ Activities = fresh /\ Activities \subseteq Activities'
  BY <1>1
<1>3. fresh # {}
  OBVIOUS
<1>4. \A a \in Sim!Acts(fresh) : \E e \in new : a = e.impl
  <2>1. \A a \in Sim!Acts(fresh) : \E x \in fresh : a = x.act
    BY DEF Sim!Acts
  <2>2. \A x \in fresh : \E e \in new : x.act = e.impl
    BY DEF ActivityOf
  <2> QED  BY <2>1, <2>2
<1>5. \A a \in Sim!Acts(Activities) : \E e \in Pending : a = e.impl
  <2>1. \A a \in Sim!Acts(Activities) : \E x \in Activities : a = x.act
    BY DEF Sim!Acts
  <2>2. \A x \in Activities : \E e \in Pending : x.act = e.impl
    BY DEF Activities, ActivityOf
  <2> QED  BY <2>1, <2>2
<1>6. Sim!Acts(fresh) \subseteq
        ImplId \ (Sim!Acts(Activities) \cup ran \cup revoked)
  BY <1>4, <1>5
<1>7. Sim!Takes(fresh)
  <2>1. ASSUME NEW e \in new
        PROVE  ActivityOf(e).due >= currentTs /\ ActivityOf(e).ticket >= uid
    BY DEF ActivityOf
  <2>2. ASSUME NEW e \in new, NEW f \in new, ActivityOf(e) # ActivityOf(f)
        PROVE  /\ ActivityOf(e).act # ActivityOf(f).act
               /\ ActivityOf(e).ticket # ActivityOf(f).ticket
    <3>1. e # f
      BY <2>2
    <3>2. e.impl # f.impl /\ e.uid # f.uid
      BY <3>1
    <3> QED  BY <3>2 DEF ActivityOf
  <2> QED  BY <2>1, <2>2 DEF Sim!Takes
<1>8. \A x \in fresh : x.ticket < uid'
  <2>1. \A e \in new : ActivityOf(e).ticket = e.uid /\ e.uid < uid'
    BY DEF ActivityOf
  <2> QED  BY <2>1
<1>9. UNCHANGED <<currentTs, ran, revoked>>
  BY DEF simSource
<1> HIDE DEF fresh
<1> QED
  BY <1>2, <1>3, <1>6, <1>7, <1>8, <1>9
     DEF Sim!Add, Sim!Fresh, Activities, ActivityOf

\* A clock update moves an activity.
LEMMA MoveStep ==
  ASSUME IInv, EntryInv, NEW id \in Pending, NEW newId \in EventId,
         newId.uid = uid, newId.impl = id.impl, newId.ts >= currentTs,
         uid' = uid + 1, Pending' = (Pending \ {id}) \cup {newId},
         UNCHANGED simSource
  PROVE  Sim!Move
<1> USE Numbers
<1>1. \A e \in Pending : e # id => ActivityOf(e) # ActivityOf(id)
  BY DEF EntryInv, OneEntryPerImpl, ActivityOf
<1>2. Activities' = (Activities \ {ActivityOf(id)}) \cup {ActivityOf(newId)}
  BY <1>1 DEF Activities
<1>3. ActivityOf(id) \in Activities /\ ActivityOf(newId) \in Activities'
  BY <1>2 DEF Activities
<1>4. ActivityOf(newId).act = ActivityOf(id).act
  BY DEF ActivityOf
<1>5. Sim!Takes({ActivityOf(newId)})
  BY DEF Sim!Takes, ActivityOf
<1>6. uid' \in Nat /\ ActivityOf(newId).ticket < uid'
  BY DEF ActivityOf
<1>7. UNCHANGED <<currentTs, ran, revoked>>
  BY DEF simSource
<1>8. \E e \in Activities : \E f \in Activities' :
        /\ f.act = e.act /\ Sim!Takes({f})
        /\ Activities' = (Activities \ {e}) \cup {f}
        /\ uid' \in Nat /\ f.ticket < uid'
  BY <1>2, <1>3, <1>4, <1>5, <1>6
<1> QED  BY <1>7, <1>8 DEF Sim!Move, Activities, ActivityOf

\* Cancel and Remove drop the activity, or nothing if it is gone already.
LEMMA DropStep ==
  ASSUME IInv, EntryInv, NEW id \in handles,
         Pending' = {e \in Pending : e.impl # id.impl},
         revoked' = revoked \cup ({id.impl} \cap PendingImpls),
         UNCHANGED <<currentTs, uid, ran>>
  PROVE  Sim!Drop \/ UNCHANGED <<Pending, uid, simSource>>
<1>1. CASE id.impl \notin PendingImpls
  BY <1>1 DEF PendingImpls, simSource
<1>2. CASE id.impl \in PendingImpls
  <2>1. PICK e \in Pending : e.impl = id.impl
    BY <1>2 DEF PendingImpls
  <2>2. \A f \in Pending : f.impl = e.impl => f = e
    BY DEF EntryInv, OneEntryPerImpl
  <2>3. Pending' = Pending \ {e} /\ revoked' = revoked \cup {e.impl}
    BY <1>2, <2>1, <2>2
  <2>4. \A f \in Pending : f # e => ActivityOf(f) # ActivityOf(e)
    BY <2>2 DEF ActivityOf
  <2>5. Activities' = Activities \ {ActivityOf(e)}
    BY <2>3, <2>4 DEF Activities
  <2>6. ActivityOf(e) \in Activities /\ ActivityOf(e).act = e.impl
    BY DEF Activities, ActivityOf
  <2> QED  BY <2>3, <2>5, <2>6 DEF Sim!Drop, Activities, ActivityOf
<1> QED  BY <1>1, <1>2

\* The first entry of the queue is the earliest pending activity.  One that
\* was cancelled is taken out as well, and only time passes.
LEMMA ExecuteStep ==
  ASSUME AllInv, ProcessOneEvent
  PROVE  Sim!Execute \/ Sim!Elapse \/ UNCHANGED <<Pending, uid, simSource>>
<1> USE DEF AllInv
<1> USE Numbers
<1>1. PICK next \in events :
        /\ IsFirst(next, events)
        /\ \/ Superseded(next) /\ SkipSuperseded(next) /\ Pending' = Pending
           \/ /\ ~Superseded(next) /\ Invoke(next)
              /\ Pending' = Pending \ {next}
              /\ currentTs' = next.ts
              /\ ran' = IF next.impl \in cancelled THEN ran
                        ELSE ran \cup {next.impl}
  BY ProcessEntries
<1>2. CASE Superseded(next)
  BY <1>1, <1>2 DEF SkipSuperseded, currentVars, historyVars, simSource
<1>3. CASE ~Superseded(next)
  <2>1. UNCHANGED <<uid, revoked>>
    BY <1>1, <1>3 DEF Invoke, Fault, queueVars, historyVars
  <2>2. CASE next.impl \in cancelled
    <3>1. Pending' = Pending /\ ran' = ran
      BY <1>1, <1>3, <2>2 DEF Pending
    <3>2. Activities' = Activities
      BY <3>1 DEF Activities
    <3>3. \A x \in Activities : currentTs' <= x.due
      <4>1. \A e \in Pending : e = next \/ Before(next, e)
        BY <1>1 DEF IsFirst
      <4>2. \A e \in Pending : next.ts <= e.ts
        BY <4>1 DEF Before
      <4> QED  BY <1>1, <1>3, <4>2 DEF Activities, ActivityOf
    <3>4. currentTs' >= currentTs
      BY <1>1, <1>3 DEF IInv, QueueOK, QueueAhead
    <3>5. CASE currentTs' = currentTs
      BY <2>1, <3>1, <3>5 DEF simSource
    <3>6. CASE currentTs' > currentTs
      BY <2>1, <3>1, <3>2, <3>3, <3>6 DEF Sim!Elapse, Activities, ActivityOf
    <3> QED  BY <1>1, <1>3, <3>4, <3>5, <3>6
  <2>3. CASE next.impl \notin cancelled
    <3>1. next \in Pending
      BY <1>3, <2>3 DEF Pending
    <3>2. \A f \in Pending : f # next => ActivityOf(f) # ActivityOf(next)
      BY <3>1 DEF EntryInv, OneEntryPerImpl, ActivityOf
    <3>3. Activities' = Activities \ {ActivityOf(next)}
      BY <1>1, <1>3, <3>2 DEF Activities
    <3>4. /\ ActivityOf(next) \in Activities
          /\ ActivityOf(next).act = next.impl /\ ActivityOf(next).due = next.ts
      BY <3>1 DEF Activities, ActivityOf
    <3>5. \A x \in Activities \ {ActivityOf(next)} :
            Sim!Earlier(ActivityOf(next), x)
      BY <1>1 DEF Activities, ActivityOf, IsFirst, Before, Sim!Earlier
    <3>6. next.impl \notin ran \cup revoked
      BY <2>3, <3>1 DEF EntryInv, OneEntryPerImpl, RevokedInv
    <3> QED
      BY <1>1, <1>3, <2>1, <2>3, <3>3, <3>4, <3>5, <3>6
         DEF Sim!Execute, Activities, ActivityOf
  <2> QED  BY <2>2, <2>3
<1> QED  BY <1>2, <1>3

LEMMA CancelStep ==
  ASSUME AllInv, Cancel, updates <= 1
  PROVE  Sim!Drop \/ UNCHANGED <<Pending, uid, simSource>>
<1> USE DEF AllInv
<1>1. PICK id \in handles :
        /\ cancelled' = IF IsExpired(id) THEN cancelled
                        ELSE cancelled \cup {id.impl}
        /\ revoked' = revoked \cup ({id.impl} \cap PendingImpls)
  BY DEF Cancel
<1>2. UNCHANGED <<currentTs, uid, ran, events, cancelEventMap>>
  BY DEF Cancel, queueVars, currentVars
<1>3. id.impl \in PendingImpls => cancelled' = cancelled \cup {id.impl}
  BY <1>1, PendingIsAlive DEF PendingImpls
<1>4. id.impl \notin PendingImpls => \A e \in Pending : e.impl # id.impl
  BY DEF PendingImpls
<1>5. cancelled' \in {cancelled, cancelled \cup {id.impl}}
  BY <1>1
<1>6. Pending' = {e \in Pending : e.impl # id.impl}
  BY <1>2, <1>3, <1>4, <1>5 DEF Pending, Superseded
<1> QED  BY <1>1, <1>2, <1>6, DropStep

LEMMA RemoveStep ==
  ASSUME AllInv, Remove
  PROVE  Sim!Drop \/ UNCHANGED <<Pending, uid, simSource>>
<1> USE DEF AllInv
<1>1. PICK id \in handles :
        IF id \notin events
        THEN Fault("NoSuchEvent")
        ELSE /\ events' = events \ {id}
             /\ cancelled' = cancelled \cup {id.impl}
             /\ revoked' = revoked \cup ({id.impl} \cap PendingImpls)
             /\ UNCHANGED <<currentTs, uid, ran, cancelEventMap>>
  BY DEF Remove, TakeOut, currentVars
<1>2. CASE id \notin events
  BY <1>1, <1>2 DEF Fault, queueVars, currentVars, historyVars, simSource,
                    Pending, Superseded
<1>3. CASE id \in events
  <2>1. Pending' = {e \in Pending : e.impl # id.impl}
    BY <1>1, <1>3 DEF Pending, Superseded
  <2> QED  BY <1>1, <1>3, <2>1, DropStep
<1> QED  BY <1>2, <1>3

\* What Schedule and ScheduleWithContext enter in the queue.
LEMMA NewStep ==
  ASSUME AllInv, NEW e \in EventId,
         e.uid = uid, e.impl = impls + 1, e.ts >= currentTs, impls < MaxImpls,
         events' = events \cup {e}, uid' = uid + 1, UNCHANGED whoVars
  PROVE  Sim!Add
<1> USE DEF AllInv
<1> USE Numbers
<1>1. Pending' = Pending \cup {e} /\ uid' \in Nat
  BY NewPending
<1>2. UNCHANGED simSource
  BY DEF whoVars, simSource
<1>3. \A f \in Pending : f.impl # e.impl
  BY DEF EntryInv, NamesInv, Known
<1>4. e.impl \in ImplId /\ e.impl \notin ran \cup revoked
  BY DEF EntryInv, NamesInv
<1> DEFINE new == {e}
<1>5. /\ new \in SUBSET EventId /\ new # {} /\ Pending' = Pending \cup new
      /\ \A x \in new : /\ x.uid >= uid /\ x.uid < uid' /\ x.ts >= currentTs
                        /\ x.impl \in ImplId /\ x.impl \notin ran \cup revoked
                        /\ \A f \in Pending : f.impl # x.impl
      /\ \A x, y \in new : x.impl = y.impl \/ x.uid = y.uid => x = y
  BY <1>1, <1>3, <1>4
<1> HIDE DEF new
<1> QED  BY <1>1, <1>2, <1>5, AddStep

\* What the other threads scheduled enters the queue in one go.
LEMMA BatchStep ==
  ASSUME AllInv, Run \/ EventReturns
  PROVE  Sim!Add \/ UNCHANGED <<Pending, uid, simSource>>
<1> USE DEF AllInv
<1> USE Numbers, BatchFacts
<1>0. /\ Len(eventsWithContext) \in Nat
      /\ DOMAIN eventsWithContext = 1..Len(eventsWithContext)
  BY BatchFacts
<1>1. /\ Pending' = Pending \cup Batch
      /\ uid' = uid + Len(eventsWithContext) /\ UNCHANGED whoVars
  BY RunEntries
<1>2. UNCHANGED simSource
  BY <1>1 DEF whoVars, simSource
<1>3. CASE Batch = {}
  <2>1. DOMAIN eventsWithContext = {}
    <3>1. \A i \in DOMAIN eventsWithContext : BatchEntry(i) \in Batch
      BY DEF Batch
    <3> QED  BY <1>3, <3>1
  <2>2. Len(eventsWithContext) = 0
    <3> DEFINE n == Len(eventsWithContext)
    <3>1. n \in Nat /\ 1..n = {}
      BY <1>0, <2>1
    <3> HIDE DEF n
    <3>2. n = 0
      BY <3>1
    <3> QED  BY <3>2 DEF n
  <2> QED  BY <1>1, <1>2, <1>3, <2>2
<1>4. CASE Batch # {}
  <2>1. Batch \in SUBSET EventId /\ uid' \in Nat
    BY <1>1
  <2>2. \A e \in Batch :
          /\ e.uid >= uid /\ e.uid < uid' /\ e.ts >= currentTs
          /\ e.impl \in ImplId /\ e.impl \notin ran \cup revoked
          /\ \A f \in Pending : f.impl # e.impl
    BY <1>1 DEF EntryInv, NamesInv, Known
  <2>3. \A e, f \in Batch : e.impl = f.impl \/ e.uid = f.uid => e = f
    OBVIOUS
  <2> QED  BY <1>1, <1>2, <1>4, <2>1, <2>2, <2>3, AddStep
<1> QED  BY <1>3, <1>4

LEMMA StepImplements ==
  ASSUME CancelWorks, AllInv, [Next]_vars
  PROVE  [Sim!SimNext]_(Sim!simVars)
<1> USE DEF AllInv
<1>1. CASE UNCHANGED <<Pending, uid, simSource>>
  BY <1>1 DEF Sim!simVars, simSource
<1>2. CASE UNCHANGED <<entryVars, whoVars>>
  <2>1. UNCHANGED <<events, uid, cancelEventMap, cancelled, currentTs, ran,
                    revoked>>
    BY <1>2 DEF entryVars, whoVars
  <2> QED  BY <1>1, <2>1 DEF Pending, Superseded, simSource
<1>3. CASE Schedule \/ ScheduleNow
  <2>1. PICK d \in Nat : ScheduleAfter(d)
    BY <1>3, DelayAssumption DEF Schedule, ScheduleNow
  <2> QED  BY <1>2, <2>1, ScheduleEntries, NewStep DEF Sim!SimNext
<1>4. CASE ScheduleWithContext
  BY <1>4, WithContextEntries, NewStep DEF Sim!SimNext
<1>5. CASE WorkerScheduleWithContext
  BY <1>1, <1>5 DEF WorkerScheduleWithContext, queueVars, currentVars,
     historyVars, Pending, Superseded, simSource
<1>6. CASE SetClock
  <2>1. UNCHANGED <<uid, simSource>>
    BY <1>6 DEF SetClock, queueVars, currentVars, simSource
  <2> QED  BY <1>1, <1>6, <2>1, SetClockEntries
<1>7. CASE RescheduleOne
  <2>1. CASE ~UNCHANGED <<entryVars, whoVars>>
    <3>1. PICK id \in rescheduling.list, newId \in EventId :
            /\ id \in Pending /\ newId.uid = uid /\ newId.impl = id.impl
            /\ newId.ts >= currentTs /\ uid' = uid + 1
            /\ Pending' = (Pending \ {id}) \cup {newId}
            /\ UNCHANGED <<currentTs, ran, revoked>>
      BY <1>7, <2>1, RescheduleEntries
    <3>2. UNCHANGED simSource
      BY <3>1 DEF simSource
    <3> QED  BY <3>1, <3>2, MoveStep DEF Sim!SimNext
  <2> QED  BY <1>2, <2>1
<1>8. CASE Cancel
  <2>1. updates <= 1
    BY <1>8, BoundAssumption
       DEF Cancel, CancelWorks, IInv, TypeInv, TypeOK, OnceInv
  <2> QED  BY <1>1, <1>8, <2>1, CancelStep DEF Sim!SimNext
<1>9. CASE Remove
  BY <1>1, <1>9, RemoveStep DEF Sim!SimNext
<1>10. CASE Run \/ EventReturns
  BY <1>1, <1>10, BatchStep DEF Sim!SimNext
<1>11. CASE ProcessOneEvent
  BY <1>1, <1>11, ExecuteStep DEF Sim!SimNext
<1>12. CASE Stop \/ RunReturns \/ UNCHANGED vars
  BY <1>2, <1>12, OtherEntries
<1> QED
  BY <1>3, <1>4, <1>5, <1>6, <1>7, <1>8, <1>9, <1>10, <1>11, <1>12 DEF Next

\* ImplementsSimulation: with its queue of live and superseded entries, its
\* map and its lists per node, the simulator is an event simulation in which
\* a clock update moves activities - as long as Cancel finds what it is to
\* cancel (CancelWorks).
THEOREM Implementation ==
  ASSUME CancelWorks
  PROVE  Spec => ImplementsSimulation
<1>1. Init => Sim!SimInit
  <2> SUFFICES ASSUME Init PROVE Sim!SimInit
    OBVIOUS
  <2>1. events = {} /\ uid = 4 /\ currentTs = 0 /\ ran = {} /\ revoked = {}
    BY DEF Init
  <2>2. Pending = {}
    BY <2>1 DEF Pending
  <2> QED  BY <2>1, <2>2 DEF Sim!SimInit
<1>2. AllInv /\ [Next]_vars => [Sim!SimNext]_(Sim!simVars)
  BY StepImplements
<1> QED
  BY <1>1, <1>2, AllAlways, PTL
     DEF Spec, ImplementsSimulation, Sim!SimSpec

-----------------------------------------------------------------------------
(***************************************************************************)
(* The references, counted by the place of the entry that owns them: the   *)
(* queue, the other threads' list and the hands of ProcessOneEvent.  Every *)
(* action moves an entry from one place to another or makes or ends one    *)
(* together with its reference - but for the skipping of a superseded      *)
(* entry, which forgets to give the reference back.                        *)
(***************************************************************************)
InQueue(set, i) == {e \in set : e.impl = i}
InList(s, i) == {k \in DOMAIN s : s[k].impl = i}
InHand(i) == IF running = i THEN 1 ELSE 0

RefsInv == /\ phase \in {"ready", "loop"} => running = 0
           /\ RefsMatchEntries

LEMMA InListFinite ==
  ASSUME NEW T, NEW s \in Seq(T), NEW i
  PROVE  IsFiniteSet(InList(s, i)) /\ Cardinality(InList(s, i)) \in Nat
<1>1. DOMAIN s = 1..Len(s) /\ Len(s) \in Nat
  OBVIOUS
<1>2. IsFiniteSet(1..Len(s))
  BY <1>1, FS_Interval
<1>3. InList(s, i) \in SUBSET (1..Len(s))
  BY <1>1 DEF InList
<1>4. IsFiniteSet(InList(s, i))
  BY <1>2, <1>3, FS_Subset
<1> QED  BY <1>4, FS_CardinalityType

LEMMA InQueueFinite ==
  ASSUME NEW S, IsFiniteSet(S), NEW i
  PROVE  IsFiniteSet(InQueue(S, i)) /\ Cardinality(InQueue(S, i)) \in Nat
<1>1. InQueue(S, i) \in SUBSET S
  BY DEF InQueue
<1>2. IsFiniteSet(InQueue(S, i))
  BY <1>1, FS_Subset
<1> QED  BY <1>2, FS_CardinalityType

LEMMA InQueueAdds ==
  ASSUME NEW S, IsFiniteSet(S), NEW e, e \notin S, NEW i
  PROVE  Cardinality(InQueue(S \cup {e}, i)) =
           Cardinality(InQueue(S, i)) + IF e.impl = i THEN 1 ELSE 0
<1>1. IsFiniteSet(InQueue(S, i)) /\ Cardinality(InQueue(S, i)) \in Nat
  BY InQueueFinite
<1>2. CASE e.impl = i
  <2>1. InQueue(S \cup {e}, i) = InQueue(S, i) \cup {e} /\ e \notin InQueue(S, i)
    BY <1>2 DEF InQueue
  <2>2. Cardinality(InQueue(S, i) \cup {e}) = Cardinality(InQueue(S, i)) + 1
    BY <1>1, <2>1, FS_AddElement
  <2> QED  BY <1>2, <2>1, <2>2
<1>3. CASE e.impl # i
  <2>1. InQueue(S \cup {e}, i) = InQueue(S, i)
    BY <1>3 DEF InQueue
  <2> QED  BY <1>1, <1>3, <2>1
<1> QED  BY <1>2, <1>3

LEMMA InQueueRemoves ==
  ASSUME NEW S, IsFiniteSet(S), NEW e \in S, NEW i
  PROVE  Cardinality(InQueue(S \ {e}, i)) =
           Cardinality(InQueue(S, i)) - IF e.impl = i THEN 1 ELSE 0
<1>1. IsFiniteSet(InQueue(S, i)) /\ Cardinality(InQueue(S, i)) \in Nat
  BY InQueueFinite
<1>2. CASE e.impl = i
  <2>1. InQueue(S \ {e}, i) = InQueue(S, i) \ {e} /\ e \in InQueue(S, i)
    BY <1>2 DEF InQueue
  <2>2. Cardinality(InQueue(S, i) \ {e}) = Cardinality(InQueue(S, i)) - 1
    BY <1>1, <2>1, FS_RemoveElement
  <2> QED  BY <1>2, <2>1, <2>2
<1>3. CASE e.impl # i
  <2>1. InQueue(S \ {e}, i) = InQueue(S, i)
    BY <1>3 DEF InQueue
  <2> QED  BY <1>1, <1>3, <2>1
<1> QED  BY <1>2, <1>3

LEMMA InListAppends ==
  ASSUME NEW T, NEW s \in Seq(T), NEW x \in T, NEW i
  PROVE  Cardinality(InList(Append(s, x), i)) =
           Cardinality(InList(s, i)) + IF x.impl = i THEN 1 ELSE 0
<1> DEFINE n == Len(s) + 1
           t == Append(s, x)
<1>1. /\ DOMAIN s = 1..Len(s) /\ Len(s) \in Nat
      /\ DOMAIN t = 1..n
      /\ t[n] = x
      /\ \A k \in 1..Len(s) : t[k] = s[k]
  OBVIOUS
<1>2. IsFiniteSet(InList(s, i)) /\ Cardinality(InList(s, i)) \in Nat
  BY InListFinite
<1> HIDE DEF t
<1>3. n \notin InList(s, i) /\ 1..n = 1..Len(s) \cup {n}
  BY <1>1 DEF InList
<1>4. CASE x.impl = i
  <2>1. InList(t, i) = InList(s, i) \cup {n}
    BY <1>1, <1>3, <1>4 DEF InList
  <2>2. Cardinality(InList(s, i) \cup {n}) = Cardinality(InList(s, i)) + 1
    BY <1>2, <1>3, FS_AddElement
  <2> QED  BY <1>4, <2>1, <2>2 DEF t
<1>5. CASE x.impl # i
  <2>1. InList(t, i) = InList(s, i)
    BY <1>1, <1>3, <1>5 DEF InList
  <2> QED  BY <1>2, <1>5, <2>1 DEF t
<1> QED  BY <1>4, <1>5

LEMMA CounterValue ==
  ASSUME NEW S, NEW f \in [S -> Int], NEW k, NEW x \in S
  PROVE  /\ [f EXCEPT ![k] = @ + 1][x] = f[x] + IF x = k THEN 1 ELSE 0
         /\ [f EXCEPT ![k] = @ - 1][x] = f[x] - IF x = k THEN 1 ELSE 0
<1>1. f[x] \in Int
  OBVIOUS
<1> QED  BY <1>1

LEMMA EmptyCounts ==
  ASSUME NEW i
  PROVE  Cardinality(InQueue({}, i)) = 0 /\ Cardinality(InList(<<>>, i)) = 0
<1>1. InQueue({}, i) = {} /\ InList(<<>>, i) = {}
  BY DEF InQueue, InList
<1> QED  BY <1>1, FS_EmptySet

ContextItem == [ctx : Node, delay : Nat, impl : Nat]

LEMMA BatchOccurrences ==
  ASSUME IInv, EntryInv, NEW i
  PROVE  Cardinality(InQueue(events \cup Batch, i)) =
           Cardinality(InQueue(events, i))
           + Cardinality(InList(eventsWithContext, i))
<1> DEFINE n == Len(eventsWithContext)
           From == InList(eventsWithContext, i)
           To == InQueue(Batch, i)
           f == [k \in From |-> BatchEntry(k)]
<1>1. n \in Nat /\ DOMAIN eventsWithContext = 1..n
  BY BatchFacts
<1>2. Batch = {BatchEntry(k) : k \in 1..n}
  BY <1>1 DEF Batch
<1>3. uid \in Nat
  BY Numbers
<1>4. \A k \in 1..n : /\ BatchEntry(k).uid = uid + k - 1
                      /\ BatchEntry(k).impl = eventsWithContext[k].impl
  BY DEF BatchEntry
<1> HIDE DEF n
<1>5. From \subseteq 1..n
  BY <1>1 DEF InList
<1>6. \A k, l \in 1..n : BatchEntry(k).uid = BatchEntry(l).uid => k = l
  BY <1>1, <1>3, <1>4
<1>7. To = {BatchEntry(k) : k \in From}
  BY <1>1, <1>2, <1>4 DEF InQueue, InList
<1> HIDE DEF From, To
<1>8. f \in Bijection(From, To)
  BY <1>5, <1>6, <1>7 DEF Bijection, Injection, Surjection, IsInjective
<1>9. IsFiniteSet(From) /\ Cardinality(From) \in Nat
  <2>1. eventsWithContext \in Seq(ContextItem)
    BY DEF IInv, TypeInv, TypeOK, ContextItem
  <2>2. /\ IsFiniteSet(InList(eventsWithContext, i))
        /\ Cardinality(InList(eventsWithContext, i)) \in Nat
    BY <2>1, InListFinite
  <2> QED  BY <2>2 DEF From
<1>10. IsFiniteSet(To) /\ Cardinality(To) = Cardinality(From)
  BY <1>8, <1>9, FS_Bijection DEF ExistsBijection
<1>11. /\ IsFiniteSet(InQueue(events, i))
       /\ Cardinality(InQueue(events, i)) \in Nat
  BY InQueueFinite DEF IInv, QueueOK
<1>12. /\ InQueue(events \cup Batch, i) = InQueue(events, i) \cup To
       /\ InQueue(events, i) \cap To = {}
  <2>1. \A e \in events, b \in Batch : e # b
    BY BatchFacts DEF Known
  <2> QED  BY <2>1 DEF InQueue, To
<1>13. Cardinality(InQueue(events, i) \cup To) =
         Cardinality(InQueue(events, i)) + Cardinality(To)
           - Cardinality(InQueue(events, i) \cap To)
  BY <1>10, <1>11, FS_Union
<1>14. Cardinality(InQueue(events, i) \cap To) = 0
  BY <1>12, FS_EmptySet
<1>15. Cardinality(InQueue(events, i) \cup To) =
         Cardinality(InQueue(events, i)) + Cardinality(From)
  <2> HIDE DEF f
  <2> QED  BY <1>9, <1>10, <1>11, <1>13, <1>14
<1>16. Cardinality(InQueue(events \cup Batch, i)) =
         Cardinality(InQueue(events, i)) + Cardinality(From)
  <2> HIDE DEF f
  <2> QED  BY <1>12, <1>15
<1> QED  BY <1>16 DEF From

\* The counts are numbers, and their sum is what the property compares with.
LEMMA CountType ==
  ASSUME IInv, NEW i
  PROVE  /\ Cardinality(InQueue(events, i)) \in Nat
         /\ Cardinality(InList(eventsWithContext, i)) \in Nat
         /\ InHand(i) \in Nat
         /\ EntriesOf(i) = Cardinality(InQueue(events, i))
                           + Cardinality(InList(eventsWithContext, i)) + InHand(i)
<1>1. Cardinality(InQueue(events, i)) \in Nat
  BY InQueueFinite DEF IInv, QueueOK
<1>2. eventsWithContext \in Seq(ContextItem)
  BY DEF IInv, TypeInv, TypeOK, ContextItem
<1>3. Cardinality(InList(eventsWithContext, i)) \in Nat
  BY <1>2, InListFinite
<1> QED  BY <1>1, <1>3 DEF InHand, InQueue, InList, EntriesOf

LEMMA CountsAreInts ==
  ASSUME IInv, NEW i \in ImplId
  PROVE  refs[i] \in Int /\ EntriesOf(i) \in Int
<1>1. refs[i] \in Int
  BY DEF IInv, TypeInv, TypeOK
<1>2. EntriesOf(i) \in Int
  BY CountType
<1> QED  BY <1>1, <1>2

\* The sum and the references change alike.
LEMMA RefsKept ==
  ASSUME IInv, IInv', RefsInv, updates' = 0 => updates = 0,
         \A i \in ImplId : \E d \in Int :
           refs'[i] = refs[i] + d /\ EntriesOf(i)' = EntriesOf(i) + d
  PROVE  RefsMatchEntries'
<1> SUFFICES ASSUME NEW i \in ImplId
             PROVE  /\ refs'[i] >= EntriesOf(i)'
                    /\ updates' = 0 => refs'[i] = EntriesOf(i)'
  BY DEF RefsMatchEntries
<1>1. refs[i] \in Int /\ EntriesOf(i) \in Int
  BY CountsAreInts
<1>2. PICK d \in Int : refs'[i] = refs[i] + d /\ EntriesOf(i)' = EntriesOf(i) + d
  OBVIOUS
<1>3. refs[i] >= EntriesOf(i) /\ (updates = 0 => refs[i] = EntriesOf(i))
  BY DEF RefsInv, RefsMatchEntries
<1> QED  BY <1>1, <1>2, <1>3

LEMMA RefsSame ==
  ASSUME IInv, IInv', RefsInv, updates' = 0 => updates = 0,
         UNCHANGED <<refs, events, eventsWithContext, running>>
  PROVE  RefsMatchEntries'
BY DEF RefsInv, RefsMatchEntries, EntriesOf

\* A new entry and its reference.
LEMMA RefsInsert ==
  ASSUME IInv, IInv', RefsInv, NEW e \in EventId, e.uid = uid,
         InsertScheduler(e), UNCHANGED <<eventsWithContext, running, updates>>
  PROVE  RefsMatchEntries'
<1> SUFFICES ASSUME NEW i \in ImplId
             PROVE  \E d \in Int : /\ refs'[i] = refs[i] + d
                                   /\ EntriesOf(i)' = EntriesOf(i) + d
  BY RefsKept
<1>1. events' = events \cup {e} /\ refs' = [refs EXCEPT ![e.impl] = @ + 1]
  BY DEF InsertScheduler
<1>2. e \notin events /\ IsFiniteSet(events) /\ refs \in [ImplId -> Int]
  BY DEF IInv, QueueOK, QueueAhead, TypeInv, TypeOK
<1>3. refs'[i] = refs[i] + IF i = e.impl THEN 1 ELSE 0
  BY <1>1, <1>2, CounterValue
<1>4. Cardinality(InQueue(events', i)) =
        Cardinality(InQueue(events, i)) + IF e.impl = i THEN 1 ELSE 0
  BY <1>1, <1>2, InQueueAdds
<1>5. EntriesOf(i)' = Cardinality(InQueue(events', i))
                      + Cardinality(InList(eventsWithContext, i)) + InHand(i)
  BY DEF EntriesOf, InQueue, InList, InHand
<1>6. EntriesOf(i)' = EntriesOf(i) + IF e.impl = i THEN 1 ELSE 0
  BY <1>4, <1>5, CountType
<1> QED  BY <1>3, <1>6

\* An entry taken out of the queue.
LEMMA TakeOutCounts ==
  ASSUME IInv, NEW e \in events, TakeOut(e), UNCHANGED eventsWithContext, NEW i
  PROVE  EntriesOf(i)' = EntriesOf(i) - (IF e.impl = i THEN 1 ELSE 0)
                         - InHand(i) + (IF running' = i THEN 1 ELSE 0)
<1>1. events' = events \ {e} /\ IsFiniteSet(events)
  BY DEF TakeOut, IInv, QueueOK
<1>2. Cardinality(InQueue(events', i)) =
        Cardinality(InQueue(events, i)) - IF e.impl = i THEN 1 ELSE 0
  BY <1>1, InQueueRemoves
<1>3. EntriesOf(i)' = Cardinality(InQueue(events', i))
                      + Cardinality(InList(eventsWithContext, i))
                      + (IF running' = i THEN 1 ELSE 0)
  BY DEF EntriesOf, InQueue, InList
<1> QED  BY <1>2, <1>3, CountType

LEMMA RefsTakeIn ==
  ASSUME IInv, IInv', EntryInv, RefsInv, ProcessEventsWithContext,
         running' = 0, updates' = updates,
         \/ refs' = [refs EXCEPT ![running] = @ - 1]
         \/ running = 0 /\ refs' = refs
  PROVE  RefsMatchEntries'
<1> SUFFICES ASSUME NEW i \in ImplId
             PROVE  \E d \in Int : /\ refs'[i] = refs[i] + d
                                   /\ EntriesOf(i)' = EntriesOf(i) + d
  BY RefsKept
<1>1. events' = events \cup Batch /\ eventsWithContext' = <<>>
  BY DEF ProcessEventsWithContext, Batch, BatchEntry
<1>2. refs \in [ImplId -> Int]
  BY DEF IInv, TypeInv, TypeOK
<1>3. refs'[i] = refs[i] - InHand(i)
  <2>1. CASE refs' = [refs EXCEPT ![running] = @ - 1]
    <3>1. refs'[i] = refs[i] - IF i = running THEN 1 ELSE 0
      BY <1>2, <2>1, CounterValue
    <3> QED  BY <3>1 DEF InHand
  <2>2. CASE running = 0 /\ refs' = refs
    BY <1>2, <2>2, BoundAssumption DEF InHand, ImplId
  <2> QED  BY <2>1, <2>2
<1>4. Cardinality(InQueue(events', i)) =
        Cardinality(InQueue(events, i))
          + Cardinality(InList(eventsWithContext, i))
  BY <1>1, BatchOccurrences
<1>5. Cardinality(InList(eventsWithContext', i)) = 0
  BY <1>1, EmptyCounts
<1>6. running' # i
  BY BoundAssumption DEF ImplId
<1>7. EntriesOf(i)' = Cardinality(InQueue(events', i))
                      + Cardinality(InList(eventsWithContext', i))
                      + (IF running' = i THEN 1 ELSE 0)
  BY DEF EntriesOf, InQueue, InList
<1>8. EntriesOf(i)' = EntriesOf(i) - InHand(i)
  BY <1>4, <1>5, <1>6, <1>7, CountType
<1>9. -InHand(i) \in Int /\ refs[i] \in Int /\ EntriesOf(i) \in Int
  BY <1>2, CountType
<1> QED  BY <1>3, <1>8, <1>9, CountType

LEMMA RefsNext ==
  ASSUME IInv, IInv', EntryInv, OnceInv, RefsInv, [Next]_vars
  PROVE  RefsInv'
<1> USE Numbers
<1>0. updates' = 0 => updates = 0
  BY UpdatesGrow
<1>1. (phase \in {"ready", "loop"} => running = 0)'
  BY DEF RefsInv, Next, Schedule, ScheduleNow, ScheduleAfter,
     ScheduleWithContext, WorkerScheduleWithContext, SetClock, RescheduleOne,
     Cancel, Remove, Stop, Run, RunReturns, ProcessOneEvent, SkipSuperseded,
     Invoke, EventReturns, Fault, vars
<1>2. CASE UNCHANGED <<refs, events, eventsWithContext, running>>
  BY <1>0, <1>1, <1>2, RefsSame DEF RefsInv
<1>3. CASE Schedule \/ ScheduleNow
  <2>1. PICK d \in Nat : ScheduleAfter(d)
    BY <1>3, DelayAssumption DEF Schedule, ScheduleNow
  <2>2. CASE GlobalDelay(d) < 0
    BY <1>2, <2>1, <2>2 DEF ScheduleAfter, Fault, queueVars
  <2>3. CASE ~(GlobalDelay(d) < 0)
    <3>1. PICK e : e = ScheduledId(d, impls + 1)
      OBVIOUS
    <3>2. e \in EventId /\ e.uid = uid
      BY <3>1, ScheduledIdType DEF IInv, TypeInv
    <3>3. /\ InsertScheduler(e)
          /\ UNCHANGED <<eventsWithContext, running, updates>>
      BY <2>1, <2>3, <3>1 DEF ScheduleAfter
    <3> QED  BY <1>1, <3>2, <3>3, RefsInsert DEF RefsInv
  <2> QED  BY <2>2, <2>3
<1>4. CASE ScheduleWithContext
  <2>1. PICK ctx \in Node, d \in Delay :
          InsertScheduler([uid |-> uid, ts |-> currentTs + d, ctx |-> ctx,
                           impl |-> impls + 1])
    BY <1>4 DEF ScheduleWithContext
  <2>2. PICK e : e = [uid |-> uid, ts |-> currentTs + d, ctx |-> ctx,
                      impl |-> impls + 1]
    OBVIOUS
  <2>3. e \in EventId /\ e.uid = uid /\ InsertScheduler(e)
    BY <2>1, <2>2, DelayAssumption DEF EventId, Context
  <2>4. UNCHANGED <<eventsWithContext, running, updates>>
    BY <1>4 DEF ScheduleWithContext, historyVars
  <2> QED  BY <1>1, <2>3, <2>4, RefsInsert DEF RefsInv
<1>5. CASE WorkerScheduleWithContext
  <2>1. PICK ctx \in Node, d \in Delay :
          eventsWithContext' = Append(eventsWithContext,
                                 [ctx |-> ctx, delay |-> d, impl |-> impls + 1])
    BY <1>5 DEF WorkerScheduleWithContext
  <2>2. PICK x : x = [ctx |-> ctx, delay |-> d, impl |-> impls + 1]
    OBVIOUS
  <2>3. /\ x \in ContextItem /\ x.impl = impls + 1
        /\ eventsWithContext' = Append(eventsWithContext, x)
    BY <2>1, <2>2, DelayAssumption DEF ContextItem
  <2>4. /\ refs' = [refs EXCEPT ![impls + 1] = @ + 1]
        /\ UNCHANGED <<events, running>>
    BY <1>5 DEF WorkerScheduleWithContext, queueVars
  <2>5. eventsWithContext \in Seq(ContextItem) /\ refs \in [ImplId -> Int]
    BY DEF IInv, TypeInv, TypeOK, ContextItem
  <2>6. ASSUME NEW i \in ImplId
        PROVE  \E d1 \in Int : /\ refs'[i] = refs[i] + d1
                               /\ EntriesOf(i)' = EntriesOf(i) + d1
    <3>1. refs'[i] = refs[i] + IF i = impls + 1 THEN 1 ELSE 0
      BY <2>4, <2>5, CounterValue
    <3>2. Cardinality(InList(eventsWithContext', i)) =
            Cardinality(InList(eventsWithContext, i))
              + IF x.impl = i THEN 1 ELSE 0
      BY <2>3, <2>5, InListAppends
    <3>3. EntriesOf(i)' = Cardinality(InQueue(events, i))
                          + Cardinality(InList(eventsWithContext', i)) + InHand(i)
      BY <2>4 DEF EntriesOf, InQueue, InList, InHand
    <3>4. EntriesOf(i)' = EntriesOf(i) + IF i = impls + 1 THEN 1 ELSE 0
      BY <2>3, <3>2, <3>3, CountType
    <3> QED  BY <3>1, <3>4
  <2> QED  BY <1>0, <1>1, <2>6, RefsKept DEF RefsInv
<1>6. CASE RescheduleOne
  <2>1. PICK id \in rescheduling.list :
          LET remain == GlobalToLocalDelay(rescheduling.old, currentTs,
                                           id.ts - currentTs) IN
          IF GlobalDelay(remain) < 0
          THEN Fault("NegativeDelay")
          ELSE /\ InsertScheduler(ScheduledId(remain, id.impl))
               /\ UNCHANGED <<eventsWithContext, running, updates>>
    BY <1>6 DEF RescheduleOne
  <2>2. PICK remain : remain = GlobalToLocalDelay(rescheduling.old, currentTs,
                                                  id.ts - currentTs)
    OBVIOUS
  <2>3. remain \in Int /\ id \in EventId
    <3>1. rescheduling.old \in [num : Nat, den : Nat \ {0}, offset : Int]
      BY DEF IInv, TypeInv, TypeOK, ClockModel, NoClock
    <3>2. id \in EventId /\ currentTs \in Int /\ id.ts - currentTs \in Int
      BY DEF IInv, TypeInv, TypeOK, EventId
    <3> QED  BY <2>2, <3>1, <3>2, GlobalToLocalDelayType
  <2>4. CASE GlobalDelay(remain) < 0
    BY <1>2, <2>1, <2>2, <2>4 DEF Fault, queueVars
  <2>5. CASE ~(GlobalDelay(remain) < 0)
    <3>1. PICK e : e = ScheduledId(remain, id.impl)
      OBVIOUS
    <3>2. e \in EventId /\ e.uid = uid
      BY <2>3, <3>1, ScheduledIdType DEF IInv, TypeInv, EventId
    <3>3. /\ InsertScheduler(e)
          /\ UNCHANGED <<eventsWithContext, running, updates>>
      BY <2>1, <2>2, <2>5, <3>1
    <3> QED  BY <1>1, <3>2, <3>3, RefsInsert DEF RefsInv
  <2> QED  BY <2>4, <2>5
<1>7. CASE Remove
  <2>1. PICK id \in handles :
          IF id \notin events
          THEN Fault("NoSuchEvent")
          ELSE /\ TakeOut(id)
               /\ refs' = [refs EXCEPT ![id.impl] = @ - 1]
               /\ UNCHANGED <<eventsWithContext, running, updates>>
    BY <1>7 DEF Remove
  <2>2. CASE id \notin events
    BY <1>2, <2>1, <2>2 DEF Fault, queueVars
  <2>3. CASE id \in events
    <3>1. ASSUME NEW i \in ImplId
          PROVE  \E d1 \in Int : /\ refs'[i] = refs[i] + d1
                                 /\ EntriesOf(i)' = EntriesOf(i) + d1
      <4>1. refs \in [ImplId -> Int]
        BY DEF IInv, TypeInv, TypeOK
      <4>2. refs'[i] = refs[i] - IF i = id.impl THEN 1 ELSE 0
        BY <2>1, <2>3, <4>1, CounterValue
      <4>3. EntriesOf(i)' = EntriesOf(i) - (IF id.impl = i THEN 1 ELSE 0)
                            - InHand(i) + (IF running' = i THEN 1 ELSE 0)
        BY <2>1, <2>3, TakeOutCounts
      <4>4. InHand(i) = IF running' = i THEN 1 ELSE 0
        BY <2>1, <2>3 DEF InHand
      <4>5. EntriesOf(i) \in Int /\ refs[i] \in Int
        BY <4>1, CountType
      <4>6. /\ refs'[i] = refs[i] + (IF i = id.impl THEN -1 ELSE 0)
            /\ EntriesOf(i)' = EntriesOf(i) + (IF i = id.impl THEN -1 ELSE 0)
        BY <4>2, <4>3, <4>4, <4>5
      <4> QED  BY <4>6
    <3> QED  BY <1>0, <1>1, <3>1, RefsKept DEF RefsInv
  <2> QED  BY <2>2, <2>3
<1>8. CASE ProcessOneEvent
  <2>1. PICK next \in events :
          IF Superseded(next) THEN SkipSuperseded(next) ELSE Invoke(next)
    BY <1>8 DEF ProcessOneEvent
  <2>2. running = 0
    BY <1>8 DEF ProcessOneEvent, RefsInv
  <2>3. CASE Superseded(next)
    <3>1. TakeOut(next) /\ UNCHANGED <<refs, eventsWithContext, running, updates>>
      BY <2>1, <2>3 DEF SkipSuperseded, historyVars
    <3>2. updates # 0
      BY <2>3 DEF OnceInv, Superseded
    <3>3. ASSUME NEW i \in ImplId PROVE refs'[i] >= EntriesOf(i)'
      <4>1. EntriesOf(i)' = EntriesOf(i) - (IF next.impl = i THEN 1 ELSE 0)
                            - InHand(i) + (IF running' = i THEN 1 ELSE 0)
        BY <3>1, TakeOutCounts
      <4>2. InHand(i) = IF running' = i THEN 1 ELSE 0
        BY <3>1 DEF InHand
      <4>3. refs[i] >= EntriesOf(i)
        BY DEF RefsInv, RefsMatchEntries
      <4>4. refs[i] \in Int /\ EntriesOf(i) \in Int
        BY CountsAreInts
      <4> QED  BY <3>1, <4>1, <4>2, <4>3, <4>4
    <3> QED  BY <1>1, <3>1, <3>2, <3>3 DEF RefsInv, RefsMatchEntries
  <2>4. CASE ~Superseded(next) /\ next.ts < currentTs
    BY <1>2, <2>1, <2>4 DEF Invoke, Fault, queueVars
  <2>5. CASE ~Superseded(next) /\ ~(next.ts < currentTs)
    <3>1. /\ TakeOut(next) /\ running' = next.impl
          /\ UNCHANGED <<refs, eventsWithContext>>
      BY <2>1, <2>5 DEF Invoke
    <3>2. ASSUME NEW i \in ImplId
          PROVE  \E d1 \in Int : /\ refs'[i] = refs[i] + d1
                                 /\ EntriesOf(i)' = EntriesOf(i) + d1
      <4>1. EntriesOf(i)' = EntriesOf(i) - (IF next.impl = i THEN 1 ELSE 0)
                            - InHand(i) + (IF running' = i THEN 1 ELSE 0)
        BY <3>1, TakeOutCounts
      <4>2. InHand(i) = 0
        BY <2>2 DEF InHand
      <4>3. refs[i] \in Int /\ EntriesOf(i) \in Int
        BY CountsAreInts
      <4>4. refs'[i] = refs[i] + 0 /\ EntriesOf(i)' = EntriesOf(i) + 0
        BY <3>1, <4>1, <4>2, <4>3
      <4> QED  BY <4>4
    <3> QED  BY <1>0, <1>1, <3>2, RefsKept DEF RefsInv
  <2> QED  BY <2>3, <2>4, <2>5
<1>9. CASE Run \/ EventReturns
  <2>1. /\ ProcessEventsWithContext /\ running' = 0 /\ updates' = updates
        /\ \/ refs' = [refs EXCEPT ![running] = @ - 1]
           \/ running = 0 /\ refs' = refs
    BY <1>9 DEF Run, EventReturns, RefsInv, historyVars
  <2> QED  BY <1>1, <2>1, RefsTakeIn DEF RefsInv
<1>10. CASE SetClock \/ Cancel \/ Stop \/ RunReturns \/ UNCHANGED vars
  <2>1. UNCHANGED <<refs, events, eventsWithContext, running>>
    BY <1>10 DEF SetClock, Cancel, Stop, RunReturns, Fault, vars, queueVars
  <2> QED  BY <1>2, <2>1
<1> QED
  BY <1>3, <1>4, <1>5, <1>6, <1>7, <1>8, <1>9, <1>10 DEF Next

\* RefsMatchEntries: nothing is freed while an entry holds it, whatever is
\* cancelled, removed, moved or skipped; and before the first clock update
\* nothing is kept longer either.
THEOREM NothingFreedEarly == Spec => []RefsMatchEntries
<1>1. Init => RefsInv
  <2> SUFFICES ASSUME Init PROVE RefsInv
    OBVIOUS
  <2>1. /\ events = {} /\ eventsWithContext = <<>> /\ running = 0
        /\ refs = [i \in ImplId |-> 0]
    BY DEF Init
  <2>2. \A i \in ImplId : EntriesOf(i) = 0 /\ refs[i] = 0
    <3>1. IInv
      BY IInvInit
    <3>2. \A i \in ImplId : i # 0
      BY BoundAssumption DEF ImplId
    <3>3. ASSUME NEW i \in ImplId PROVE EntriesOf(i) = 0 /\ refs[i] = 0
      <4>1. EntriesOf(i) = Cardinality(InQueue(events, i))
                           + Cardinality(InList(eventsWithContext, i)) + InHand(i)
        BY <3>1, CountType
      <4>2. /\ Cardinality(InQueue(events, i)) = 0
            /\ Cardinality(InList(eventsWithContext, i)) = 0
        BY <2>1, EmptyCounts
      <4>3. InHand(i) = 0
        BY <2>1, <3>2 DEF InHand
      <4> QED  BY <2>1, <4>1, <4>2, <4>3
    <3> QED  BY <3>3
  <2> QED  BY <2>1, <2>2 DEF RefsInv, RefsMatchEntries
<1>2. IInv /\ EntryInv /\ OnceInv /\ RefsInv /\ [Next]_vars =>
        IInv' /\ EntryInv' /\ OnceInv' /\ RefsInv'
  BY IInvNext, EntryNext, OnceNext, RefsNext
<1>3. RefsInv => RefsMatchEntries
  BY DEF RefsInv
<1> QED  BY <1>1, <1>2, <1>3, IInvInit, EntryInit, OnceInit, PTL DEF Spec

-----------------------------------------------------------------------------
(***************************************************************************)
(* Drift.  An update converts the time that is left from one clock to      *)
(* another, and back to global time, and rounds on the way.  Counted in    *)
(* steps of the LOCAL clock the errors of successive updates add up: what  *)
(* an update does to an older error in global time, the next one undoes.   *)
(***************************************************************************)

\* What a quotient is.
LEMMA QuotientBounds ==
  ASSUME NEW p \in Int, NEW q \in Nat \ {0}
  PROVE  /\ p \div q \in Int
         /\ q * (p \div q) <= p
         /\ p < q * (p \div q) + q
OBVIOUS

\* lround is off by half at most.
LEMMA LroundBounds ==
  ASSUME NEW p \in Int, NEW q \in Nat \ {0}
  PROVE  /\ Lround(p, q) \in Int
         /\ 2 * p - q <= 2 * (q * Lround(p, q))
         /\ 2 * (q * Lround(p, q)) <= 2 * p + q
<1>1. CASE p >= 0
  <2> DEFINE m == (2 * p + q) \div (2 * q)
  <2>1. 2 * p + q \in Int /\ 2 * q \in Nat \ {0}
    OBVIOUS
  <2>2. m \in Int /\ (2 * q) * m <= 2 * p + q /\ 2 * p + q < (2 * q) * m + 2 * q
    BY <2>1, QuotientBounds
  <2>3. Lround(p, q) = m
    BY <1>1 DEF Lround
  <2> HIDE DEF m
  <2>4. (2 * q) * m = 2 * (q * m)
    BY <2>2
  <2> QED  BY <2>2, <2>3, <2>4
<1>2. CASE ~(p >= 0)
  <2> DEFINE m == (q - 2 * p) \div (2 * q)
  <2>1. q - 2 * p \in Int /\ 2 * q \in Nat \ {0}
    OBVIOUS
  <2>2. m \in Int /\ (2 * q) * m <= q - 2 * p /\ q - 2 * p < (2 * q) * m + 2 * q
    BY <2>1, QuotientBounds
  <2>3. Lround(p, q) = -m
    BY <1>2 DEF Lround
  <2> HIDE DEF m
  <2>4. (2 * q) * m = 2 * (q * m) /\ q * (-m) = -(q * m)
    BY <2>2
  <2> QED  BY <2>2, <2>3, <2>4
<1> QED  BY <1>1, <1>2

\* Multiplying by a natural number keeps the order.
LEMMA Larger ==
  ASSUME NEW x \in Int, NEW y \in Int, NEW k \in Nat, x <= y
  PROVE  k * x <= k * y
OBVIOUS

\* A common positive factor may be left out.
LEMMA Smaller ==
  ASSUME NEW x \in Int, NEW y \in Int, NEW k \in Nat \ {0}, k * x <= k * y
  PROVE  x <= y
OBVIOUS

\* How an event may be off.  C are the clocks of the nodes.  A[n] are the
\* triples <<clock, time stamp, exact due time>> that are possible after n
\* updates, B[n] the time steps by which such an event is early or late.
Allowance(C, A, B) ==
  /\ C \subseteq ClockModel
  /\ DefaultClock \in C
  /\ \A n \in Nat : /\ A[n] \subseteq A[n + 1]
                   /\ B[n] \in Nat
                   /\ B[n] <= B[n + 1]
  /\ \A n \in Nat, c \in C, ts \in Int, d \in Int :
       <<c, ts, d>> \in A[n] => /\ ts * Scale - d <= B[n] * Scale
                              /\ d - ts * Scale <= B[n] * Scale

\* What Schedule takes is off by no more.
ScheduleAllowed(A) ==
  currentContext \in Node =>
    \A d \in Nat, i \in Nat :
      <<NodeClock(currentContext), ScheduledId(d, i).ts, CallerDue(d)>>
        \in A[updates]

\* What SetClock moves was off by no more than before the update, and is off by
\* no more than after it.
MoveAllowed(C, A) ==
  currentContext \in Node =>
    \A old \in C, id \in EventId :
      (/\ id.impl \in ImplId
       /\ updates >= 1
       /\ <<old, id.ts, due[id.impl]>> \in A[updates - 1])
      => <<NodeClock(currentContext),
           ScheduledId(GlobalToLocalDelay(old, currentTs, id.ts - currentTs),
                       id.impl).ts,
           MovedDue(old, NodeClock(currentContext), id.impl)>> \in A[updates]

\* Entry e is off as is allowed by the clock c after n updates.
Off(A, c, e, n) == <<c, e.ts, due[e.impl]>> \in A[n]

\* What is known of the clocks, of the entries of the queue and of the event
\* that is being executed.
ClocksKept(C) ==
  \A n \in Node : IF clock[n] = NoClock THEN clockEvents[n] = {}
                                        ELSE clock[n] \in C
InHands(C) ==
  rescheduling.list # {} => /\ rescheduling.node = currentContext
                            /\ rescheduling.old \in C
                            /\ updates >= 1
EntriesOff(A) ==
  /\ \A e \in Pending : e.ctx = NoContext => due[e.impl] \in {NoDue, e.ts * Scale}
  /\ \A e \in Pending \cap rescheduling.list :
       Off(A, rescheduling.old, e, updates - 1)
  /\ \A n \in Node : \A e \in Pending \cap clockEvents[n] :
       Off(A, clock[n], e, updates)
RunningOff(B) ==
  /\ phase = "event" => running \in ran
  /\ DelayHonoured(B[updates])

DriftInv(C, A, B) ==
  ClocksKept(C) /\ InHands(C) /\ EntriesOff(A) /\ RunningOff(B)

clockRunVars == <<clock, clockEvents, rescheduling, due, updates>>


\* Steps that neither enter an event in a list nor touch a clock.
LEMMA DriftKept ==
  ASSUME IInv, EntryInv, NEW C, NEW A, NEW B, Allowance(C, A, B),
         DriftInv(C, A, B),
         UNCHANGED clockRunVars,
         currentContext' = currentContext \/ rescheduling.list = {},
         \A e \in Pending' : e \in Pending \/ (e.ctx \in Node /\ e \notin Tracked),
         phase' = "event" => phase = "event" /\ UNCHANGED <<running, currentTs>>,
         ran \subseteq ran'
  PROVE  DriftInv(C, A, B)'
<1>1. UNCHANGED <<clock, clockEvents, rescheduling, due, updates>>
  BY DEF clockRunVars
<1>2. ClocksKept(C)'
  BY <1>1 DEF DriftInv, ClocksKept
<1>3. InHands(C)'
  BY <1>1 DEF DriftInv, InHands
<1>4. EntriesOff(A)'
  <2>1. \A e \in rescheduling.list : e \in Tracked
    BY Numbers DEF Tracked
  <2>2. \A n \in Node : \A e \in clockEvents[n] : e \in Tracked
    BY DEF Tracked, IInv, TypeInv, TypeOK
  <2>3. \A c, e, n : Off(A, c, e, n)' <=> Off(A, c, e, n)
    BY <1>1 DEF Off
  <2>4. \A e \in Pending' : e.ctx = NoContext => due[e.impl] \in {NoDue, e.ts * Scale}
    BY NodeAssumption DEF DriftInv, EntriesOff
  <2>5. \A e \in Pending' \cap rescheduling.list :
          Off(A, rescheduling.old, e, updates - 1)
    BY <2>1 DEF DriftInv, EntriesOff
  <2>6. \A n \in Node : \A e \in Pending' \cap clockEvents[n] :
          Off(A, clock[n], e, updates)
    BY <2>2 DEF DriftInv, EntriesOff
  <2> QED  BY <1>1, <2>4, <2>5, <2>6 DEF EntriesOff, Off
<1>5. RunningOff(B)'
  BY <1>1 DEF DriftInv, RunningOff, DelayHonoured
<1> QED  BY <1>2, <1>3, <1>4, <1>5 DEF DriftInv

\* An event that is invoked has been scheduled by a clock of C, or by none.
LEMMA DriftInvoke ==
  ASSUME IInv, EntryInv, NEW C, NEW A, NEW B, Allowance(C, A, B),
         DriftInv(C, A, B), phase = "loop",
         NEW next \in events, IsFirst(next, events), ~Superseded(next),
         Invoke(next)
  PROVE  DriftInv(C, A, B)'
<1> USE Numbers
<1>1. /\ ~(next.ts < currentTs) /\ next \in EventId
      /\ next.ts \in Int /\ next.impl \in Nat
  BY DEF IInv, QueueOK, QueueAhead
<1>2. rescheduling.list = {}
  BY DEF EntryInv, TrackInv
<1>3. Pending' = Pending \ {next}
  BY InvokeEntries
<1>4. /\ UNCHANGED clockRunVars
      /\ currentTs' = next.ts /\ running' = next.impl
      /\ IF next.impl \in cancelled THEN phase' = "skipped"
         ELSE phase' = "event" /\ ran' = ran \cup {next.impl}
      /\ ran \subseteq ran'
  BY <1>1 DEF Invoke, clockVars, clockRunVars
<1>5. CASE next.impl \in cancelled
  BY <1>2, <1>3, <1>4, <1>5, DriftKept
<1>6. CASE next.impl \notin cancelled
  <2>1. next \in Pending
    BY <1>6 DEF Pending
  <2>2. next.impl \in ImplId /\ due[next.impl] \in Int
    BY DEF EntryInv, NamesInv, Known
  <2>3. updates \in Nat /\ B[updates] \in Nat
    BY DEF IInv, TypeInv, TypeOK, Allowance
  <2>4. ASSUME due[next.impl] # NoDue
        PROVE  /\ next.ts * Scale - due[next.impl] <= B[updates] * Scale
               /\ due[next.impl] - next.ts * Scale <= B[updates] * Scale
    <3>1. CASE next.ctx = NoContext
      <4>1. due[next.impl] = next.ts * Scale
        BY <2>1, <2>4, <3>1 DEF DriftInv, EntriesOff
      <4>2. PICK b \in Nat : b = B[updates]
        BY <2>3
      <4>3. b * Scale \in Nat
        BY BoundAssumption
      <4> QED  BY <1>1, <4>1, <4>2, <4>3, BoundAssumption
    <3>2. CASE next.ctx # NoContext
      <4>1. next \in clockEvents[next.ctx] /\ next.ctx \in Node
        BY <1>1, <1>2, <2>1, <2>4, <3>2
           DEF EntryInv, PendingIsTracked, EventId, Context
      <4>2. Off(A, clock[next.ctx], next, updates)
        BY <2>1, <4>1 DEF DriftInv, EntriesOff
      <4>3. clock[next.ctx] \in C
        BY <4>1 DEF DriftInv, ClocksKept
      <4> QED  BY <1>1, <2>2, <2>3, <4>2, <4>3 DEF Off, Allowance
    <3> QED  BY <3>1, <3>2
  <2>5. phase' = "event" /\ running' \in ran' /\ UNCHANGED <<due, updates>>
    BY <1>4, <1>6 DEF clockRunVars
  <2>6. RunningOff(B)'
    BY <1>4, <2>4, <2>5 DEF RunningOff, DelayHonoured
  <2>7. UNCHANGED <<clock, clockEvents, rescheduling, due, updates>>
    BY <1>4 DEF clockRunVars
  <2>8. ClocksKept(C)' /\ InHands(C)'
    BY <1>2, <2>7 DEF DriftInv, ClocksKept, InHands
  <2>9. EntriesOff(A)'
    BY <1>3, <2>7 DEF DriftInv, EntriesOff, Off
  <2> QED  BY <2>6, <2>8, <2>9 DEF DriftInv
<1> QED  BY <1>5, <1>6

\* The time stamp of what a node schedules, in terms of its clock.
LEMMA ScheduledTime ==
  ASSUME IInv, NEW c, c \in ClockModel, currentContext \in Node,
         c = NodeClock(currentContext), NEW d \in Int, NEW i
  PROVE  ScheduledId(d, i).ts =
           ((Lround(currentTs * c.num, c.den) + d) * c.den) \div c.num
<1> DEFINE l == Lround(currentTs * c.num, c.den)
           q == ((l + d) * c.den) \div c.num
<1>1. /\ currentTs \in Nat /\ c.num \in Nat \ {0} /\ c.den \in Nat \ {0}
      /\ c.offset \in Int /\ currentContext # NoContext
  BY NodeAssumption DEF IInv, TypeInv, TypeOK, ClockModel
<1>2. l \in Int
  <2>1. currentTs * c.num \in Int
    BY <1>1
  <2> QED  BY <1>1, <2>1, LroundType
<1>3. GlobalDelay(d) = LocalToGlobalTime(c, l + c.offset + d) - currentTs
  BY <1>1 DEF GlobalDelay, LocalToGlobalDelay, GetLocalTime, GlobalToLocalTime
<1> HIDE DEF l
<1>4. (l + c.offset + d) - c.offset = l + d
  BY <1>1, <1>2
<1>5. LocalToGlobalTime(c, l + c.offset + d) = q
  BY <1>4 DEF LocalToGlobalTime
<1>6. q \in Int
  <2>1. (l + d) * c.den \in Int
    BY <1>1, <1>2
  <2> QED  BY <1>1, <2>1, QuotientBounds
<1>7. currentTs + GlobalDelay(d) = q
  <2> HIDE DEF q
  <2> QED  BY <1>1, <1>3, <1>5, <1>6
<1> QED  BY <1>7 DEF ScheduledId, l

\* Schedule works with a clock of the set, also where it creates one.
LEMMA OwnClock ==
  ASSUME NEW C, NEW A, NEW B, Allowance(C, A, B), DriftInv(C, A, B),
         NEW n \in Node
  PROVE  NodeClock(n) \in C
BY DEF DriftInv, ClocksKept, NodeClock, Allowance

\* A call of Schedule rounds once on the way to the local clock and back.
LEMMA DriftSchedule ==
  ASSUME IInv, EntryInv, NEW C, NEW A, NEW B, Allowance(C, A, B),
         DriftInv(C, A, B), ScheduleAllowed(A),
         NEW d \in Nat, ScheduleAfter(d)
  PROVE  DriftInv(C, A, B)'
<1> USE Numbers
<1>1. CASE GlobalDelay(d) < 0
  <2>1. Fault("NegativeDelay")
    BY <1>1 DEF ScheduleAfter
  <2>2. /\ UNCHANGED clockRunVars
        /\ UNCHANGED <<currentContext, phase, running, currentTs, ran, events,
                       cancelEventMap, cancelled>>
    BY <2>1 DEF Fault, clockRunVars, queueVars, currentVars, clockVars,
         historyVars
  <2>3. Pending' = Pending
    BY <2>2 DEF Pending, Superseded
  <2> QED  BY <2>2, <2>3, DriftKept
<1>2. CASE ~(GlobalDelay(d) < 0)
  <2>1. PICK e : e = ScheduledId(d, impls + 1)
    OBVIOUS
  <2>2. /\ impls < MaxImpls
        /\ InsertScheduler(e) /\ InsertEvent(e)
        /\ due' = [due EXCEPT ![e.impl] = CallerDue(d)]
        /\ UNCHANGED <<currentContext, phase, running, currentTs, ran,
                       cancelEventMap, cancelled, rescheduling, updates>>
        /\ rescheduling.list = {}
    BY <1>2, <2>1 DEF ScheduleAfter, CallerRuns, currentVars
  <2>3. /\ e \in EventId /\ e.ctx = currentContext /\ e.impl = impls + 1
        /\ e.ts \in Int /\ e.impl \in ImplId
    BY <2>1, <2>2, ScheduledIdType, ScheduledCtx DEF IInv, TypeInv, ScheduledId
  <2>4. PICK g \in Int : g = CallerDue(d)
    BY CallerDueType DEF IInv, TypeInv
  <2>5. /\ due'[e.impl] = g
        /\ \A i \in 1..impls : due'[i] = due[i]
    BY <2>2, <2>3, <2>4
  <2>6. \A f \in Known : f.impl \in 1..impls
    BY DEF EntryInv, NamesInv
  <2>7. Pending \subseteq Known /\ \A n \in Node : clockEvents[n] \subseteq Known
    BY DEF Known, Tracked, Pending, IInv, TypeInv, TypeOK
  <2>8. Pending' \subseteq Pending \cup {e}
    BY <2>2 DEF InsertScheduler, Pending, Superseded
  <2>9. \A c, n : \A f \in Known : Off(A, c, f, n) => Off(A, c, f, n)'
    BY <2>5, <2>6 DEF Off
  <2>10. /\ \A n \in Node : \A f \in clockEvents'[n] :
              f \in clockEvents[n] \/ (f = e /\ n = e.ctx)
         /\ clockEvents' \in [Node -> SUBSET EventId]
    BY <2>2, <2>3, InsertEventEffect
  <2>11. \A n \in Node : /\ clock'[n] = clock[n] \/ clock'[n] = NodeClock(n)
                         /\ clock[n] # NoClock => clock'[n] = clock[n]
                         /\ n = e.ctx => clock'[n] = NodeClock(n)
    <3>1. DOMAIN clock = Node
      BY DEF IInv, TypeInv, TypeOK
    <3>2. \A n : clock[n] # NoClock => NodeClock(n) = clock[n]
      BY DEF NodeClock
    <3>3. CASE e.ctx = NoContext
      BY <2>2, <3>3, NodeAssumption DEF InsertEvent, clockVars
    <3>4. CASE e.ctx # NoContext
      BY <2>2, <3>1, <3>2, <3>4 DEF InsertEvent
    <3> QED  BY <3>3, <3>4
  <2>12. \A n \in Node : NodeClock(n) # NoClock
    BY NodeClockType DEF IInv, TypeInv, ClockModel, NoClock
  <2>13. ClocksKept(C)'
    <3> SUFFICES ASSUME NEW n \in Node
                 PROVE  IF clock'[n] = NoClock THEN clockEvents'[n] = {}
                                               ELSE clock'[n] \in C
      BY DEF ClocksKept
    <3>1. CASE clock'[n] = NoClock
      <4>1. clock[n] = NoClock /\ n # e.ctx
        BY <2>11, <2>12, <3>1
      <4>2. clockEvents[n] = {}
        BY <4>1 DEF DriftInv, ClocksKept
      <4> QED  BY <2>10, <3>1, <4>1, <4>2
    <3>2. CASE clock'[n] # NoClock
      <4>1. NodeClock(n) \in C
        BY OwnClock
      <4>2. clock[n] # NoClock => clock[n] \in C
        BY DEF DriftInv, ClocksKept
      <4> QED  BY <2>11, <3>2, <4>1, <4>2
    <3> QED  BY <3>1, <3>2
  <2>14. InHands(C)'
    BY <2>2 DEF InHands
  <2>15. \A f \in Pending' : f.ctx = NoContext => due'[f.impl] \in {NoDue, f.ts * Scale}
    <3>1. e.ctx = NoContext => due'[e.impl] = e.ts * Scale
      BY <2>1, <2>3, <2>4, <2>5 DEF ScheduledId, GlobalDelay, CallerDue
    <3>2. \A f \in Pending : due'[f.impl] = due[f.impl]
      BY <2>5, <2>6, <2>7
    <3> QED  BY <2>8, <3>1, <3>2 DEF DriftInv, EntriesOff
  <2>16. ASSUME NEW n \in Node, NEW f \in Pending' \cap clockEvents'[n]
         PROVE  Off(A, clock[n], f, updates)'
    <3>1. CASE f \in clockEvents[n]
      <4>1. clock'[n] = clock[n]
        BY <2>11, <3>1 DEF DriftInv, ClocksKept
      <4>2. f \in Known /\ f # e
        BY <2>3, <2>6, <2>7, <3>1
      <4>3. Off(A, clock[n], f, updates)
        BY <2>8, <3>1, <4>2 DEF DriftInv, EntriesOff
      <4>4. due'[f.impl] = due[f.impl] /\ updates' = updates
        BY <2>2, <2>5, <2>6, <4>2
      <4> QED  BY <4>1, <4>3, <4>4 DEF Off
    <3>2. CASE f \notin clockEvents[n]
      <4>1. f = e /\ n = currentContext /\ currentContext \in Node
        BY <2>3, <2>10, <3>2
      <4>2. clock'[n] = NodeClock(currentContext)
        BY <2>3, <2>11, <4>1
      <4>3. PICK c : c = NodeClock(currentContext)
        OBVIOUS
      <4>4. <<c, e.ts, g>> \in A[updates]
        <5>1. impls + 1 \in Nat
          OBVIOUS
        <5> QED  BY <2>1, <2>4, <4>1, <4>3, <5>1 DEF ScheduleAllowed
      <4> QED  BY <2>2, <2>5, <4>1, <4>2, <4>3, <4>4 DEF Off
    <3> QED  BY <3>1, <3>2
  <2>17. EntriesOff(A)'
    BY <2>2, <2>15, <2>16 DEF EntriesOff
  <2>18. RunningOff(B)'
    <3>1. phase = "event" => running \in 1..impls
      BY DEF DriftInv, RunningOff, EntryInv, NamesInv
    <3> QED  BY <2>2, <2>5, <3>1 DEF DriftInv, RunningOff, DelayHonoured
  <2> QED  BY <2>13, <2>14, <2>17, <2>18 DEF DriftInv
<1> QED  BY <1>1, <1>2

\* SetClock takes the list of the node that runs: what was within so many steps
\* of the old clock is in its hands.
LEMMA DriftSetClock ==
  ASSUME IInv, EntryInv, NEW C, NEW A, NEW B, Allowance(C, A, B),
         DriftInv(C, A, B), ~CrossNode,
         Clock \subseteq C, SetClock
  PROVE  DriftInv(C, A, B)'
<1> USE Numbers
<1>1. PICK n \in Node, c \in Clock :
        /\ currentContext = n \/ Live(clockEvents[n]) = {}
        /\ clock' = [clock EXCEPT ![n] = c]
        /\ clockEvents' = [clockEvents EXCEPT ![n] = {}]
        /\ rescheduling' = IF Live(clockEvents[n]) = {}
                           THEN NotRescheduling
                           ELSE [node |-> n, old |-> clock[n],
                                 list |-> Live(clockEvents[n])]
  BY DEF SetClock
<1>2. /\ rescheduling.list = {} /\ updates' = updates + 1
      /\ UNCHANGED <<currentContext, currentTs, due, ran, running, phase>>
  BY DEF SetClock, CallerRuns, currentVars
<1>3. /\ updates \in Nat /\ DOMAIN clock = Node /\ DOMAIN clockEvents = Node
      /\ \A m \in Node : clock[m] \in ClockModel \cup {NoClock}
  BY DEF IInv, TypeInv, TypeOK
<1>4. Pending' = Pending
  BY SetClockEntries
<1>5. Live(clockEvents[n]) \subseteq clockEvents[n]
  BY DEF Live
<1>6. /\ rescheduling'.list = Live(clockEvents[n])
      /\ rescheduling'.list # {} => rescheduling'.node = n /\ rescheduling'.old = clock[n]
  BY <1>1 DEF NotRescheduling
<1>7. /\ clock'[n] = c /\ clockEvents'[n] = {}
      /\ \A m \in Node \ {n} : clock'[m] = clock[m] /\ clockEvents'[m] = clockEvents[m]
  BY <1>1, <1>3
<1>8. \A m \in Node : clock[m] # NoClock => clock[m] \in C
  BY DEF DriftInv, ClocksKept
<1>9. ClocksKept(C)'
  BY <1>7 DEF DriftInv, ClocksKept
<1>10. clockEvents[n] # {} => clock[n] # NoClock
  BY DEF DriftInv, ClocksKept
<1>11. InHands(C)'
  BY <1>1, <1>2, <1>3, <1>5, <1>6, <1>8, <1>10 DEF InHands
<1>12. \A e \in Pending : e \in EventId /\ e.ts \in Int /\ due[e.impl] \in Int
  BY DEF EntryInv, NamesInv, Known
<1>13. /\ A[updates] \subseteq A[updates']
       /\ B[updates] \in Nat /\ B[updates'] \in Nat
       /\ B[updates] <= B[updates']
  <2>1. updates \in Nat /\ updates + 1 \in Nat /\ updates' = updates + 1
    BY <1>2, <1>3
  <2>2. \A i \in Nat : /\ A[i] \subseteq A[i + 1]
                      /\ B[i] \in Nat
                      /\ B[i] <= B[i + 1]
    BY DEF Allowance
  <2> QED  BY <2>1, <2>2
<1>14. EntriesOff(A)'
  <2>1. \A e \in Pending : e.ctx = NoContext => due[e.impl] \in {NoDue, e.ts * Scale}
    BY DEF DriftInv, EntriesOff
  <2>2. ASSUME NEW e \in Pending \cap rescheduling'.list
        PROVE  Off(A, rescheduling.old, e, updates - 1)'
    <3>1. e \in clockEvents[n] /\ rescheduling'.old = clock[n]
      BY <1>5, <1>6
    <3>2. Off(A, clock[n], e, updates)
      BY <3>1 DEF DriftInv, EntriesOff
    <3>3. updates' - 1 = updates
      BY <1>2, <1>3
    <3> QED  BY <1>2, <3>1, <3>2, <3>3 DEF Off
  <2>3. ASSUME NEW m \in Node, NEW e \in Pending \cap clockEvents'[m]
        PROVE  Off(A, clock[m], e, updates)'
    <3>1. m # n /\ clock'[m] = clock[m] /\ e \in clockEvents[m]
      BY <1>7
    <3>2. Off(A, clock[m], e, updates)
      BY <3>1 DEF DriftInv, EntriesOff
    <3>3. clock[m] \in ClockModel
      BY <1>3, <3>1 DEF DriftInv, ClocksKept
    <3>4. Off(A, clock[m], e, updates')
      BY <1>13, <3>2 DEF Off
    <3> QED  BY <1>2, <3>1, <3>4 DEF Off
  <2> QED  BY <1>2, <1>4, <2>1, <2>2, <2>3 DEF EntriesOff
<1>15. RunningOff(B)'
  <2> SUFFICES ASSUME phase = "event", due[running] # NoDue
               PROVE  /\ currentTs * Scale - due[running]
                           <= B[updates'] * Scale
                      /\ due[running] - currentTs * Scale
                           <= B[updates'] * Scale
    BY <1>2 DEF DriftInv, RunningOff, DelayHonoured
  <2>1. /\ currentTs * Scale - due[running] <= B[updates] * Scale
        /\ due[running] - currentTs * Scale <= B[updates] * Scale
    BY DEF DriftInv, RunningOff, DelayHonoured
  <2>2. running \in ImplId
    BY DEF DriftInv, RunningOff, EntryInv, NamesInv
  <2>3. currentTs * Scale \in Int /\ due[running] \in Int
    BY <2>2, BoundAssumption
  <2>4. PICK a, b \in Nat : a = B[updates] /\ b = B[updates'] /\ a <= b
    BY <1>13
  <2>5. a * Scale <= b * Scale /\ a * Scale \in Int /\ b * Scale \in Int
    <3>1. Scale * a <= Scale * b
      BY <2>4, BoundAssumption, Larger
    <3> QED  BY <3>1, BoundAssumption
  <2>6. /\ currentTs * Scale - due[running] <= a * Scale
        /\ due[running] - currentTs * Scale <= a * Scale
    BY <2>1, <2>4
  <2>7. /\ currentTs * Scale - due[running] <= b * Scale
        /\ due[running] - currentTs * Scale <= b * Scale
    BY <2>3, <2>5, <2>6
  <2> QED  BY <2>4, <2>7
<1> QED  BY <1>9, <1>11, <1>14, <1>15 DEF DriftInv

\* One turn of SetClock's loop: the new entry is off by what a move allows.
LEMMA DriftReschedule ==
  ASSUME IInv, EntryInv, NEW C, NEW A, NEW B, Allowance(C, A, B),
         DriftInv(C, A, B), MoveAllowed(C, A), RescheduleOne
  PROVE  DriftInv(C, A, B)'
<1> USE Numbers
<1>1. CASE Fault("NegativeDelay") /\ UNCHANGED <<entryVars, whoVars>>
  <2>1. /\ UNCHANGED clockRunVars
        /\ UNCHANGED <<currentContext, phase, running, currentTs, ran>>
    BY <1>1 DEF Fault, clockRunVars, queueVars, currentVars, clockVars,
         historyVars
  <2>2. Pending' = Pending
    BY <1>1 DEF entryVars, whoVars, Pending, Superseded
  <2> QED  BY <2>1, <2>2, DriftKept
<1>2. CASE ~(Fault("NegativeDelay") /\ UNCHANGED <<entryVars, whoVars>>)
  <2>1. PICK id \in rescheduling.list, newId \in EventId :
          /\ id \in Pending
          /\ newId = ScheduledId(GlobalToLocalDelay(rescheduling.old,
                                   currentTs, id.ts - currentTs), id.impl)
          /\ InsertEvent(newId)
          /\ due' = [due EXCEPT ![id.impl] =
                       MovedDue(rescheduling.old, clock[rescheduling.node],
                                id.impl)]
          /\ rescheduling' = IF rescheduling.list \ {id} = {}
                             THEN NotRescheduling
                             ELSE [rescheduling EXCEPT
                                     !.list = rescheduling.list \ {id}]
          /\ newId.uid = uid /\ newId.impl = id.impl
          /\ Pending' = (Pending \ {id}) \cup {newId}
          /\ rescheduling'.list = rescheduling.list \ {id}
          /\ UNCHANGED <<currentVars, phase, running, updates, ran>>
    BY <1>2, RescheduleEntries
  <2>2. UNCHANGED <<currentContext, currentTs, phase, running, updates, ran>>
    BY <2>1 DEF currentVars
  <2>3. /\ rescheduling.node = currentContext /\ currentContext \in Node
        /\ rescheduling.old \in C /\ updates \in Nat /\ updates >= 1
        /\ clock[currentContext] \in ClockModel
        /\ clock \in [Node -> ClockModel \cup {NoClock}]
        /\ rescheduling.old \in ClockModel
    BY <2>1 DEF DriftInv, InHands, IInv, TypeInv, ReschedulingOK, TypeOK, Allowance
  <2>4. PICK c : c = clock[currentContext]
    OBVIOUS
  <2>5. NodeClock(currentContext) = c /\ c # NoClock
    BY <2>3, <2>4 DEF NodeClock, ClockModel, NoClock
  <2>6. c \in C /\ c \in ClockModel
    BY <2>3, <2>5, OwnClock DEF Allowance
  <2>7. newId.ctx = currentContext /\ newId.ctx # NoContext
    BY <2>1, <2>3, ScheduledCtx, NodeAssumption
  <2>8. clock' = clock
    <3>1. clock' = [clock EXCEPT ![newId.ctx] = NodeClock(newId.ctx)]
      BY <2>1, <2>7 DEF InsertEvent
    <3> QED  BY <2>3, <2>4, <2>5, <2>7, <3>1
  <2>9. /\ \A n \in Node : \A f \in clockEvents'[n] :
             f \in clockEvents[n] \/ (f = newId /\ n = currentContext)
        /\ newId \in clockEvents'[currentContext]
    BY <2>1, <2>3, <2>7, InsertEventEffect
  <2>10. id \in EventId /\ id.impl \in ImplId /\ due[id.impl] \in Int
    BY <2>1 DEF EntryInv, NamesInv, Known
  <2>11. PICK g : g = MovedDue(rescheduling.old, c, id.impl)
    OBVIOUS
  <2>12. due'[id.impl] = g /\ \A i \in ImplId : i # id.impl => due'[i] = due[i]
    BY <2>1, <2>3, <2>4, <2>10, <2>11
  <2>13. \A f \in Pending \ {id} : /\ f.impl \in ImplId /\ f.impl # id.impl
                                   /\ due'[f.impl] = due[f.impl]
    BY <2>1, <2>12 DEF EntryInv, NamesInv, Known, OneEntryPerImpl
  <2>14. Off(A, c, newId, updates)'
    <3>1. Off(A, rescheduling.old, id, updates - 1)
      BY <2>1 DEF DriftInv, EntriesOff
    <3>2. <<c, newId.ts, g>> \in A[updates]
      BY <2>1, <2>3, <2>5, <2>10, <2>11, <3>1 DEF MoveAllowed, Off
    <3> QED  BY <2>2, <2>12, <2>1, <3>2 DEF Off
  <2>15. ClocksKept(C)'
    <3>1. \A n \in Node : clock[n] = NoClock => n # currentContext
      BY <2>4, <2>5
    <3>2. \A n \in Node : clock[n] = NoClock => clockEvents'[n] = {}
      BY <2>9, <3>1 DEF DriftInv, ClocksKept
    <3> QED  BY <2>8, <3>2 DEF DriftInv, ClocksKept
  <2>16. rescheduling'.list # {} => /\ rescheduling'.node = rescheduling.node
                                    /\ rescheduling'.old = rescheduling.old
    <3>1. rescheduling \in [node : Context, old : ClockModel \cup {NoClock},
                            list : SUBSET EventId]
      BY DEF IInv, TypeInv, TypeOK
    <3> QED  BY <2>1, <3>1 DEF NotRescheduling
  <2>17. InHands(C)'
    BY <2>2, <2>3, <2>16 DEF InHands
  <2>18. EntriesOff(A)'
    <3>1. \A f \in Pending' : f.ctx = NoContext => due'[f.impl] \in {NoDue, f.ts * Scale}
      BY <2>1, <2>7, <2>13 DEF DriftInv, EntriesOff
    <3>2. ASSUME NEW f \in Pending' \cap rescheduling'.list
          PROVE  Off(A, rescheduling.old, f, updates - 1)'
      <4>1. newId \notin rescheduling.list
        <5>1. rescheduling.list \subseteq Tracked
          BY DEF Tracked
        <5> QED  BY <2>1, <5>1 DEF EntryInv, TrackInv
      <4>2. f \in Pending \ {id} /\ f \in rescheduling.list
        BY <2>1, <4>1
      <4>3. Off(A, rescheduling.old, f, updates - 1)
        BY <4>2 DEF DriftInv, EntriesOff
      <4> QED  BY <2>2, <2>13, <2>16, <4>2, <4>3 DEF Off
    <3>3. ASSUME NEW n \in Node, NEW f \in Pending' \cap clockEvents'[n]
          PROVE  Off(A, clock[n], f, updates)'
      <4>1. CASE f = newId
        <5>1. n = currentContext
          <6>1. newId.ctx = n
            BY <1>2, <4>1, RescheduleEntries DEF EntryInv, TrackInv
          <6> QED  BY <2>7, <6>1
        <5> QED  BY <2>4, <2>8, <2>14, <4>1, <5>1 DEF Off
      <4>2. CASE f # newId
        <5>1. f \in Pending \ {id} /\ f \in clockEvents[n]
          BY <2>1, <2>9, <4>2
        <5>2. Off(A, clock[n], f, updates)
          BY <5>1 DEF DriftInv, EntriesOff
        <5> QED  BY <2>2, <2>8, <2>13, <5>1, <5>2 DEF Off
      <4> QED  BY <4>1, <4>2
    <3> QED  BY <3>1, <3>2, <3>3 DEF EntriesOff
  <2>19. RunningOff(B)'
    <3>1. phase = "event" => running \in ImplId /\ running # id.impl
      BY <2>1, <2>10 DEF DriftInv, RunningOff, EntryInv, NamesInv, OneEntryPerImpl
    <3> QED  BY <2>2, <2>12, <3>1 DEF DriftInv, RunningOff, DelayHonoured
  <2> QED  BY <2>15, <2>17, <2>18, <2>19 DEF DriftInv
<1> QED  BY <1>1, <1>2

\* What another thread scheduled is in no list of a LocalClock.
LEMMA DriftTakeIn ==
  ASSUME IInv, EntryInv, NEW C, NEW A, NEW B, Allowance(C, A, B),
         DriftInv(C, A, B), Run \/ EventReturns
  PROVE  DriftInv(C, A, B)'
<1>1. /\ UNCHANGED clockRunVars /\ UNCHANGED <<currentContext, ran>>
      /\ phase' = "loop"
  BY DEF Run, EventReturns, clockRunVars, currentVars, clockVars, historyVars
<1>2. Pending' = Pending \cup Batch
  BY RunEntries
<1>3. \A e \in Batch : e.ctx \in Node /\ e \notin Tracked
  <2>1. \A e \in Batch : e.uid >= uid /\ uid \in Nat /\ e.uid \in Nat
    BY Numbers, BatchFacts
  <2>2. \A e \in Tracked : e.uid < uid
    BY DEF EntryInv, TrackInv
  <2>3. ASSUME NEW i \in DOMAIN eventsWithContext PROVE BatchEntry(i).ctx \in Node
    <3>1. eventsWithContext \in Seq([ctx : Node, delay : Nat, impl : Nat])
      BY DEF IInv, TypeInv, TypeOK
    <3>2. eventsWithContext[i] \in [ctx : Node, delay : Nat, impl : Nat]
      BY <3>1, ElementOfSeq, LenProperties
    <3> QED  BY <3>2 DEF BatchEntry
  <2> QED  BY <2>1, <2>2, <2>3 DEF Batch
<1> QED  BY <1>1, <1>2, <1>3, DriftKept

\* The whole step.
LEMMA DriftNext ==
  ASSUME IInv, EntryInv, NEW C, NEW A, NEW B, Allowance(C, A, B),
         DriftInv(C, A, B), ScheduleAllowed(A), MoveAllowed(C, A),
         ~CrossNode, Clock \subseteq C, [Next]_vars
  PROVE  DriftInv(C, A, B)'
<1>1. CASE Schedule \/ ScheduleNow
  <2>1. PICK d \in Nat : ScheduleAfter(d)
    BY <1>1, DelayAssumption DEF Schedule, ScheduleNow
  <2> QED  BY <2>1, DriftSchedule
<1>2. CASE ScheduleWithContext
  <2>1. PICK ctx \in Node, d \in Delay :
          InsertScheduler([uid |-> uid, ts |-> currentTs + d, ctx |-> ctx,
                           impl |-> impls + 1])
    BY <1>2 DEF ScheduleWithContext
  <2>2. PICK e : e = [uid |-> uid, ts |-> currentTs + d, ctx |-> ctx,
                      impl |-> impls + 1]
    OBVIOUS
  <2>3. /\ UNCHANGED clockRunVars
        /\ UNCHANGED <<currentContext, currentTs, ran, phase, running,
                       cancelEventMap, cancelled>>
        /\ events' = events \cup {e}
    BY <1>2, <2>1, <2>2 DEF ScheduleWithContext, InsertScheduler, clockRunVars,
         currentVars, clockVars, historyVars
  <2>4. Pending' \subseteq Pending \cup {e}
    BY <2>3 DEF Pending, Superseded
  <2>5. e.ctx \in Node /\ e \notin Tracked
    <3>1. \A f \in Tracked : f.uid < uid
      BY DEF EntryInv, TrackInv
    <3>2. ~(uid < uid)
      BY Numbers
    <3> QED  BY <2>2, <3>1, <3>2
  <2> QED  BY <2>3, <2>4, <2>5, DriftKept
<1>3. CASE SetClock
  BY <1>3, DriftSetClock
<1>4. CASE RescheduleOne
  BY <1>4, DriftReschedule
<1>5. CASE Run \/ EventReturns
  BY <1>5, DriftTakeIn
<1>6. CASE ProcessOneEvent
  <2>1. PICK next \in events :
          /\ phase = "loop" /\ IsFirst(next, events)
          /\ IF Superseded(next) THEN SkipSuperseded(next) ELSE Invoke(next)
    BY <1>6 DEF ProcessOneEvent
  <2>2. CASE Superseded(next)
    <3>1. Pending' = Pending
      BY <2>1, <2>2, SkipEntries
    <3>2. /\ UNCHANGED clockRunVars
          /\ UNCHANGED <<currentContext, ran, phase>> /\ phase = "loop"
      BY <2>1, <2>2 DEF SkipSuperseded, clockRunVars, currentVars, clockVars,
           historyVars
    <3> QED  BY <3>1, <3>2, DriftKept
  <2>3. CASE ~Superseded(next)
    BY <2>1, <2>3, DriftInvoke
  <2> QED  BY <2>2, <2>3
<1>7. CASE Cancel \/ Remove
  <2>1. /\ UNCHANGED clockRunVars
        /\ UNCHANGED <<currentContext, currentTs, ran, phase, running,
                       cancelEventMap>>
        /\ events' \subseteq events
        /\ cancelled \subseteq cancelled'
    BY <1>7 DEF Cancel, Remove, TakeOut, Fault, clockRunVars, currentVars,
         clockVars, queueVars, historyVars
  <2>2. Pending' \subseteq Pending
    BY <2>1 DEF Pending, Superseded
  <2> QED  BY <2>1, <2>2, DriftKept
<1>8. CASE WorkerScheduleWithContext \/ Stop \/ RunReturns \/ UNCHANGED vars
  <2>1. /\ UNCHANGED clockRunVars
        /\ UNCHANGED <<currentContext, currentTs, ran, running,
                       cancelEventMap, cancelled, events>>
        /\ phase' = phase \/ phase' = "ready"
    BY <1>8 DEF WorkerScheduleWithContext, Stop, RunReturns, Fault, vars,
         clockRunVars, currentVars, clockVars, queueVars, historyVars
  <2>2. Pending' = Pending
    BY <2>1 DEF Pending, Superseded
  <2> QED  BY <2>1, <2>2, DriftKept
<1> QED
  BY <1>1, <1>2, <1>3, <1>4, <1>5, <1>6, <1>7, <1>8 DEF Next

\* Nothing is pending at first.
LEMMA UntouchedInit ==
  ASSUME Init
  PROVE  UntouchedInv
BY DEF Init, UntouchedInv, RevokedInv

\* The drift argument starts with empty lists.
LEMMA DriftInit ==
  ASSUME Init, NEW C, NEW A, NEW B
  PROVE  DriftInv(C, A, B)
<1>1. Pending = {}
  BY DEF Init, Pending
<1> QED
  BY <1>1 DEF Init, NotRescheduling, DriftInv, ClocksKept, InHands,
       EntriesOff, RunningOff, DelayHonoured

\* A frequency between 1 / k and k.
Moderate(c, k) == c \in ClockModel /\ c.num <= k * c.den /\ c.den <= k * c.num

\* An event with time stamp ts that is due at d is executed when its delay is
\* over, by the clock c, but for n steps of that clock.
Within(c, ts, d, n) ==
  /\ (ts * Scale - d) * c.num <= c.den * (Scale * n)
  /\ (d - ts * Scale) * c.num <= c.den * (Scale * n)

\* The time that is left in steps of the old clock (rem), and what is exactly
\* left in fractions of a step (x).
LEMMA LeftOver ==
  ASSUME NEW s \in Nat \ {0}, NEW t \in Int, NEW ts \in Int, NEW d \in Int,
         NEW a \in Nat \ {0}, NEW b \in Nat \ {0}, NEW n \in Nat,
         (ts * s - d) * a <= b * (s * n),
         (d - ts * s) * a <= b * (s * n),
         NEW rem \in Int, NEW x \in Int,
         -b <= b * rem - (ts * a - t * a),
         b * rem - (ts * a - t * a) <= b,
         b * x <= (d - t * s) * a,
         (d - t * s) * a < b * x + b
  PROVE  /\ -(s * (n + 1)) <= s * rem - x
         /\ s * rem - x <= s * (n + 1) + 1
<1> DEFINE e == b * rem - (ts * a - t * a)
           p == (d - t * s) * a
           w == (d - ts * s) * a
           v == s * (ts * a - t * a)
           y == b * (s * rem)
           bx == b * x
           bsn == b * (s * n)
           sb == s * b
<1>1. /\ e \in Int /\ p \in Int /\ w \in Int /\ v \in Int /\ y \in Int
      /\ bx \in Int /\ bsn \in Int /\ sb \in Int
  OBVIOUS
<1>2. s * e <= sb /\ -sb <= s * e
  <2>1. s * (-b) <= s * e /\ s * e <= s * b
    BY Larger
  <2>2. s * (-b) = -sb
    OBVIOUS
  <2> QED  BY <2>1, <2>2
<1>3. s * e = y - v
  OBVIOUS
<1>4. p - v = w /\ (ts * s - d) * a = -w
  OBVIOUS
<1>5. b * (s * rem - x) = y - bx
  OBVIOUS
<1>6. /\ b * (s * (n + 1) + 1) = bsn + sb + b
      /\ b * (-(s * (n + 1))) = -bsn - sb
  OBVIOUS
<1>7. w <= bsn /\ -w <= bsn /\ bx <= p /\ p < bx + b
  BY <1>4
<1> HIDE DEF e, p, w, v, y, bx, bsn, sb
<1>8. y - bx <= bsn + sb + b /\ -bsn - sb <= y - bx
  BY <1>1, <1>2, <1>3, <1>4, <1>7
<1>9. /\ b * (s * rem - x) <= b * (s * (n + 1) + 1)
      /\ b * (-(s * (n + 1))) <= b * (s * rem - x)
  BY <1>5, <1>6, <1>8
<1>10. s * rem - x \in Int /\ s * (n + 1) + 1 \in Int /\ -(s * (n + 1)) \in Int
  OBVIOUS
<1> QED  BY <1>9, <1>10, Smaller

\* The local delay rem as a time of the global clock, and x exactly.
LEMMA NewDue ==
  ASSUME NEW s \in Nat \ {0}, NEW t \in Int, NEW k \in Nat \ {0}, NEW n \in Nat,
         NEW p \in Nat \ {0}, NEW q \in Nat \ {0}, p <= k * q,
         NEW rem \in Int, NEW x \in Int,
         -(s * (n + 1)) <= s * rem - x,
         s * rem - x <= s * (n + 1) + 1,
         NEW ts, ts = ((Lround(t * p, q) + rem) * q) \div p,
         NEW d, d = t * s + ((x * q) \div p)
  PROVE  /\ ts \in Int /\ d \in Int
         /\ (ts * s - d) * p <= q * (s * (n + k + 3))
         /\ (d - ts * s) * p <= q * (s * (n + k + 3))
<1> DEFINE l == Lround(t * p, q)
           tp == t * p
           u == (l + rem) * q
           xq == x * q
           y == xq \div p
<1>1. tp \in Int /\ xq \in Int
  OBVIOUS
<1>2. l \in Int /\ 2 * tp - q <= 2 * (q * l) /\ 2 * (q * l) <= 2 * tp + q
  BY <1>1, LroundBounds
<1> HIDE DEF l
<1>3. u \in Int
  BY <1>2
<1>4. ts = u \div p
  BY DEF l
<1> HIDE DEF u
<1>5. ts \in Int /\ p * ts <= u /\ u < p * ts + p
  BY <1>3, <1>4, QuotientBounds
<1>6. y \in Int /\ p * y <= xq /\ xq < p * y + p
  BY <1>1, QuotientBounds
<1>7. d = t * s + y
  OBVIOUS
<1> HIDE DEF y
<1>8. d \in Int
  BY <1>6, <1>7
<1>9. s * (p * ts) <= s * u /\ s * u <= s * (p * ts) + s * p
  <2>1. p * ts \in Int /\ u <= p * ts + p /\ p * ts + p \in Int
    BY <1>3, <1>5
  <2>2. s * (p * ts + p) = s * (p * ts) + s * p
    BY <1>5
  <2> QED  BY <1>3, <1>5, <2>1, <2>2, Larger
<1>10. s * u = s * (q * l) + q * (s * rem)
  BY <1>2 DEF u
<1>11. /\ 2 * (s * tp) - s * q <= 2 * (s * (q * l))
       /\ 2 * (s * (q * l)) <= 2 * (s * tp) + s * q
  <2>1. 2 * tp - q \in Int /\ 2 * (q * l) \in Int /\ 2 * tp + q \in Int
    BY <1>1, <1>2
  <2>2. s * (2 * tp - q) <= s * (2 * (q * l)) /\ s * (2 * (q * l)) <= s * (2 * tp + q)
    BY <1>2, <2>1, Larger
  <2> HIDE DEF tp
  <2>3. /\ s * (2 * tp - q) = 2 * (s * tp) - s * q
        /\ s * (2 * (q * l)) = 2 * (s * (q * l))
        /\ s * (2 * tp + q) = 2 * (s * tp) + s * q
    BY <1>1, <1>2
  <2> QED  BY <2>2, <2>3
<1>12. /\ q * (-(s * (n + 1))) <= q * (s * rem - x)
       /\ q * (s * rem - x) <= q * (s * (n + 1) + 1)
  BY Larger
<1>13. q * (s * rem - x) = q * (s * rem) - xq
  OBVIOUS
<1>14. (ts * s - d) * p = s * (p * ts) - s * tp - p * y
  BY <1>5, <1>6, <1>7
<1>15. (d - ts * s) * p = -((ts * s - d) * p)
  BY <1>5, <1>8
<1>16. /\ q * (s * (n + 1) + 1) = q * (s * n) + q * s + q
       /\ q * (-(s * (n + 1))) = -(q * (s * n)) - q * s
       /\ q * (s * (n + k + 3)) = q * (s * n) + q * (s * k) + 3 * (q * s)
  OBVIOUS
<1>17. q <= q * s /\ p <= q * (s * k) /\ s * p <= q * (s * k)
  <2>1. q * 1 <= q * s
    BY Larger
  <2>2. s * p <= s * (k * q) /\ k * q \in Int
    BY Larger
  <2>3. p * 1 <= p * s
    BY Larger
  <2> QED  BY <2>1, <2>2, <2>3
<1> DEFINE a1 == s * (p * ts)
           a2 == s * u
           a3 == s * (q * l)
           a4 == q * (s * rem)
           a5 == s * tp
           a6 == q * (s * n)
           a7 == q * (s * k)
           a8 == q * s
           a9 == p * y
           a0 == s * p
<1>18. /\ a1 \in Int /\ a2 \in Int /\ a3 \in Int /\ a4 \in Int /\ a5 \in Int
       /\ a6 \in Int /\ a7 \in Int /\ a8 \in Int /\ a9 \in Int /\ a0 \in Int
       /\ s * q = a8
  BY <1>1, <1>2, <1>3, <1>5, <1>6
<1>19. /\ a1 <= a2 /\ a2 <= a1 + a0
       /\ a2 = a3 + a4
       /\ 2 * a5 - a8 <= 2 * a3 /\ 2 * a3 <= 2 * a5 + a8
       /\ -a6 - a8 <= a4 - xq /\ a4 - xq <= a6 + a8 + q
       /\ a9 <= xq /\ xq < a9 + p
       /\ q <= a8 /\ p <= a7 /\ a0 <= a7
  BY <1>6, <1>9, <1>10, <1>11, <1>12, <1>13, <1>16, <1>17, <1>18
<1>20. /\ (ts * s - d) * p = a1 - a5 - a9
       /\ q * (s * (n + k + 3)) = a6 + a7 + 3 * a8
  BY <1>14, <1>16
<1> HIDE DEF a1, a2, a3, a4, a5, a6, a7, a8, a9, a0, xq
<1>21. /\ a1 - a5 - a9 <= a6 + a7 + 3 * a8
       /\ -(a1 - a5 - a9) <= a6 + a7 + 3 * a8
  BY <1>1, <1>18, <1>19
<1> QED  BY <1>5, <1>8, <1>15, <1>20, <1>21

\* More steps are allowed.
LEMMA WithinMore ==
  ASSUME NEW c \in ClockModel, NEW ts \in Int, NEW d \in Int,
         NEW m \in Nat, NEW n \in Nat, m <= n, Within(c, ts, d, m)
  PROVE  Within(c, ts, d, n)
<1>1. Scale * m <= Scale * n /\ Scale * m \in Int /\ Scale * n \in Int
  BY BoundAssumption, Larger
<1>2. c.den * (Scale * m) <= c.den * (Scale * n)
  BY <1>1, Larger DEF ClockModel
<1>3. /\ (ts * Scale - d) * c.num \in Int
      /\ (d - ts * Scale) * c.num \in Int
      /\ c.den * (Scale * m) \in Int /\ c.den * (Scale * n) \in Int
  BY <1>1, BoundAssumption DEF ClockModel
<1> DEFINE x == (ts * Scale - d) * c.num
           y == (d - ts * Scale) * c.num
           u == c.den * (Scale * m)
           v == c.den * (Scale * n)
<1>4. x <= u /\ y <= u
  BY DEF Within
<1> HIDE DEF x, y, u, v
<1>5. x <= v /\ y <= v
  BY <1>2, <1>3, <1>4 DEF x, y, u, v
<1> QED  BY <1>5 DEF Within, x, y, v

\* Steps of the local clock in global time.
LEMMA WithinGlobally ==
  ASSUME NEW k \in Nat \ {0}, NEW c, Moderate(c, k), NEW ts \in Int,
         NEW d \in Int, NEW n \in Nat, Within(c, ts, d, n)
  PROVE  /\ ts * Scale - d <= (k * n) * Scale
         /\ d - ts * Scale <= (k * n) * Scale
<1> DEFINE x == ts * Scale - d
           y == d - ts * Scale
           m == Scale * n
<1>1. /\ c.num \in Nat \ {0} /\ c.den \in Nat \ {0} /\ c.den <= k * c.num
      /\ x \in Int /\ y \in Int /\ m \in Nat
  BY BoundAssumption DEF Moderate, ClockModel
<1>2. x * c.num <= c.den * m /\ y * c.num <= c.den * m
  BY DEF Within
<1>3. m * c.den <= m * (k * c.num)
  <2>1. k * c.num \in Int
    BY <1>1
  <2> HIDE DEF m
  <2> QED  BY <1>1, <2>1, Larger
<1>4. (k * n) * Scale = k * m
  BY BoundAssumption
<1> HIDE DEF x, y, m
<1>5. /\ x * c.num = c.num * x /\ y * c.num = c.num * y
      /\ c.den * m = m * c.den
      /\ m * (k * c.num) = c.num * (k * m)
      /\ c.num * x \in Int /\ c.num * y \in Int /\ m * c.den \in Int
      /\ c.num * (k * m) \in Int /\ k * m \in Int
  BY <1>1
<1>6. c.num * x <= c.num * (k * m) /\ c.num * y <= c.num * (k * m)
  BY <1>2, <1>3, <1>5
<1>7. x <= k * m /\ y <= k * m
  BY <1>1, <1>5, <1>6, Smaller
<1> QED  BY <1>4, <1>7 DEF x, y

\* An event that Schedule takes is off by the rounding of one conversion.
LEMMA ScheduledWithin ==
  ASSUME IInv, UntouchedInv, NEW k \in Nat \ {0},
         currentContext \in Node, NEW c, c = NodeClock(currentContext),
         Moderate(c, k),
         NEW d \in Nat, NEW i, NEW ts, ts = ScheduledId(d, i).ts,
         NEW g, g = CallerDue(d)
  PROVE  /\ (ts * Scale - g) * c.num <= c.den * (Scale * ((k + 3) * updates))
         /\ (g - ts * Scale) * c.num <= c.den * (Scale * ((k + 3) * updates))
<1>1. currentContext # NoContext /\ c \in ClockModel
  BY NodeAssumption, NodeClockType DEF IInv, TypeInv
<1>2. /\ currentTs \in Nat /\ Scale \in Nat \ {0} /\ updates \in Nat
      /\ c.num \in Nat \ {0} /\ c.den \in Nat \ {0} /\ c.num <= k * c.den
  BY <1>1, BoundAssumption DEF Moderate, ClockModel, IInv, TypeInv, TypeOK
<1>3. g = currentTs * Scale + (((d * Scale) * c.den) \div c.num)
  BY <1>1 DEF CallerDue, ExactDue
<1>4. ts = ((Lround(currentTs * c.num, c.den) + d) * c.den) \div c.num
  BY <1>1, ScheduledTime
<1>5. CASE updates = 0
  <2>1. c.num = 1 /\ c.den = 1
    BY <1>5 DEF UntouchedInv, NodeClock, DefaultClock
  <2>2. ts = currentTs + d
    BY <1>5, UntouchedDelay DEF ScheduledId
  <2>3. g = currentTs * Scale + d * Scale
    <3>1. d * Scale \in Int
      BY <1>2
    <3>2. ((d * Scale) * 1) \div 1 = d * Scale
      BY <3>1, ExactQuotient
    <3> QED  BY <1>3, <2>1, <3>2
  <2>4. ts * Scale - g = 0 /\ g - ts * Scale = 0
    BY <1>2, <2>2, <2>3
  <2>5. (k + 3) * updates = 0 /\ Scale * 0 = 0
    BY <1>2, <1>5
  <2> QED  BY <2>1, <2>4, <2>5
<1>6. CASE updates # 0
  <2>1. PICK x \in Int : x = d * Scale
    BY <1>2
  <2>2. /\ ts \in Int /\ g \in Int
        /\ (ts * Scale - g) * c.num <= c.den * (Scale * (0 + k + 3))
        /\ (g - ts * Scale) * c.num <= c.den * (Scale * (0 + k + 3))
    <3>1. Scale * d - x = 0
      BY <1>2, <2>1
    <3>2. -(Scale * (0 + 1)) <= Scale * d - x /\ Scale * d - x <= Scale * (0 + 1) + 1
      BY <1>2, <3>1
    <3>3. g = currentTs * Scale + ((x * c.den) \div c.num)
      BY <1>3, <2>1
    <3>4. /\ currentTs \in Int /\ d \in Int /\ 0 \in Nat
          /\ c.num \in Nat \ {0} /\ c.den \in Nat \ {0} /\ c.num <= k * c.den
      BY <1>2
    <3> QED  BY <1>2, <1>4, <2>1, <3>2, <3>3, <3>4, NewDue
  <2>3. (k + 3) * 1 <= (k + 3) * updates /\ (k + 3) * updates \in Nat
    BY <1>2, <1>6, Larger
  <2>4. Scale * (0 + k + 3) <= Scale * ((k + 3) * updates)
    BY <1>2, <2>3, Larger
  <2> DEFINE m == Scale * (0 + k + 3)
             n == Scale * ((k + 3) * updates)
  <2>5. m \in Int /\ n \in Int
    BY <1>2, <2>3
  <2> HIDE DEF m, n
  <2>6. c.den * m <= c.den * n /\ c.den * m \in Int /\ c.den * n \in Int
    BY <1>2, <2>4, <2>5, Larger DEF m, n
  <2>7. (ts * Scale - g) * c.num \in Int /\ (g - ts * Scale) * c.num \in Int
    BY <1>2, <2>2
  <2>8. (ts * Scale - g) * c.num <= c.den * m /\ (g - ts * Scale) * c.num <= c.den * m
    BY <2>2 DEF m
  <2>9. (ts * Scale - g) * c.num <= c.den * n /\ (g - ts * Scale) * c.num <= c.den * n
    BY <2>6, <2>7, <2>8
  <2> QED  BY <2>9 DEF n
<1> QED  BY <1>5, <1>6

\* What is left of the delay of id, by the clock c instead of old: at most
\* k + 3 steps of c are lost, to what was lost in steps of old.
LEMMA MovedWithin ==
  ASSUME IInv, NEW k \in Nat \ {0}, NEW old, Moderate(old, k),
         NEW c, Moderate(c, k), currentContext \in Node,
         c = NodeClock(currentContext),
         NEW id \in EventId, due[id.impl] \in Int,
         NEW n \in Nat, Within(old, id.ts, due[id.impl], n),
         NEW ts, ts = ScheduledId(GlobalToLocalDelay(old, currentTs,
                                    id.ts - currentTs), id.impl).ts,
         NEW g, g = MovedDue(old, c, id.impl)
  PROVE  /\ ts \in Int /\ g \in Int
         /\ (ts * Scale - g) * c.num <= c.den * (Scale * (n + k + 3))
         /\ (g - ts * Scale) * c.num <= c.den * (Scale * (n + k + 3))
<1> DEFINE rem == GlobalToLocalDelay(old, currentTs, id.ts - currentTs)
           x == ((due[id.impl] - currentTs * Scale) * old.num) \div old.den
           l == Lround(currentTs * old.num, old.den)
           m == Lround(id.ts * old.num, old.den)
           tp == currentTs * old.num
           sp == id.ts * old.num
           xp == (due[id.impl] - currentTs * Scale) * old.num
<1>1. /\ currentTs \in Int /\ id.ts \in Int /\ Scale \in Nat \ {0}
      /\ old.num \in Nat \ {0} /\ old.den \in Nat \ {0} /\ old.offset \in Int
      /\ c.num \in Nat \ {0} /\ c.den \in Nat \ {0} /\ c.num <= k * c.den
      /\ c \in ClockModel
  BY BoundAssumption
     DEF IInv, TypeInv, TypeOK, EventId, Moderate, ClockModel
<1>2. tp \in Int /\ sp \in Int /\ xp \in Int
  BY <1>1
<1>3. /\ l \in Int /\ m \in Int
      /\ 2 * tp - old.den <= 2 * (old.den * l)
      /\ 2 * (old.den * l) <= 2 * tp + old.den
      /\ 2 * sp - old.den <= 2 * (old.den * m)
      /\ 2 * (old.den * m) <= 2 * sp + old.den
  <2> HIDE DEF tp, sp
  <2>1. l = Lround(tp, old.den) /\ m = Lround(sp, old.den)
    BY DEF tp, sp
  <2> HIDE DEF l, m
  <2> QED  BY <1>1, <1>2, <2>1, LroundBounds
<1>4. rem = m - l
  <2>1. currentTs + (id.ts - currentTs) = id.ts
    BY <1>1
  <2>2. rem = (m + old.offset) - (l + old.offset)
    BY <2>1 DEF GlobalToLocalDelay, GlobalToLocalTime, GetLocalTime
  <2> HIDE DEF rem, l, m
  <2> QED  BY <1>1, <1>3, <2>2
<1>5. /\ x \in Int /\ old.den * x <= xp /\ xp < old.den * x + old.den
  <2> HIDE DEF xp
  <2>1. x = xp \div old.den
    BY DEF xp
  <2> HIDE DEF x
  <2> QED  BY <1>1, <1>2, <2>1, QuotientBounds
<1> HIDE DEF l, m, rem, x
<1>6. /\ -old.den <= old.den * rem - (sp - tp)
      /\ old.den * rem - (sp - tp) <= old.den
  <2>1. old.den * rem = old.den * m - old.den * l
    BY <1>1, <1>3, <1>4
  <2> HIDE DEF tp, sp
  <2>2. old.den * m \in Int /\ old.den * l \in Int
    BY <1>1, <1>3
  <2> QED  BY <1>1, <1>2, <1>3, <2>1, <2>2
<1>7. rem \in Int
  BY <1>3, <1>4
<1>8. /\ (id.ts * Scale - due[id.impl]) * old.num <= old.den * (Scale * n)
      /\ (due[id.impl] - id.ts * Scale) * old.num <= old.den * (Scale * n)
  BY DEF Within
<1>9. /\ -(Scale * (n + 1)) <= Scale * rem - x
      /\ Scale * rem - x <= Scale * (n + 1) + 1
  BY <1>1, <1>5, <1>6, <1>7, <1>8, LeftOver
<1>10. ts = ((Lround(currentTs * c.num, c.den) + rem) * c.den) \div c.num
  BY <1>1, <1>7, ScheduledTime DEF rem
<1>11. g = currentTs * Scale + ((x * c.den) \div c.num)
  BY DEF MovedDue, ExactDue, x
<1> QED  BY <1>1, <1>5, <1>7, <1>9, <1>10, <1>11, NewDue

\* The clocks that are moderate, by how many of their steps an event may be off
\* after n updates, and how much that is in time steps.
ModerateClocks(k) == {c \in ClockModel : Moderate(c, k)}
StepsOff(k) ==
  [n \in Nat |-> {t \in ClockModel \X Int \X Int :
                   Within(t[1], t[2], t[3], (k + 3) * n)}]
TimeStepsOff(k) == [n \in Nat |-> k * ((k + 3) * n)]

\* An event's error grows with the updates, and is bounded in time steps.
LEMMA StepsOffAllowance ==
  ASSUME NEW k \in Nat \ {0}
  PROVE  Allowance(ModerateClocks(k), StepsOff(k), TimeStepsOff(k))
<1>1. \A n \in Nat : /\ (k + 3) * n \in Nat /\ (k + 3) * (n + 1) \in Nat
                    /\ (k + 3) * n <= (k + 3) * (n + 1)
                    /\ TimeStepsOff(k)[n] = k * ((k + 3) * n)
  BY Larger DEF TimeStepsOff
<1>2. ModerateClocks(k) \subseteq ClockModel /\ DefaultClock \in ModerateClocks(k)
  BY DEF ModerateClocks, Moderate, DefaultClock, ClockModel
<1>3. ASSUME NEW n \in Nat
      PROVE  /\ StepsOff(k)[n] \subseteq StepsOff(k)[n + 1]
             /\ TimeStepsOff(k)[n] \in Nat
             /\ TimeStepsOff(k)[n] <= TimeStepsOff(k)[n + 1]
  <2>1. PICK p, q \in Nat : p = (k + 3) * n /\ q = (k + 3) * (n + 1) /\ p <= q
    BY <1>1
  <2>2. k * p \in Nat /\ k * p <= k * q
    BY <2>1, Larger
  <2>3. TimeStepsOff(k)[n] = k * p /\ TimeStepsOff(k)[n + 1] = k * q
    BY <1>1, <2>1
  <2>4. StepsOff(k)[n] \subseteq StepsOff(k)[n + 1]
    <3>1. \A c \in ClockModel, ts \in Int, d \in Int :
            Within(c, ts, d, p) => Within(c, ts, d, q)
      BY <2>1, WithinMore
    <3>2. SUFFICES ASSUME NEW t \in StepsOff(k)[n]
                   PROVE  t \in StepsOff(k)[n + 1]
      OBVIOUS
    <3>3. /\ t \in ClockModel \X Int \X Int
          /\ Within(t[1], t[2], t[3], p)
      BY <2>1 DEF StepsOff
    <3>4. t[1] \in ClockModel /\ t[2] \in Int /\ t[3] \in Int
      BY <3>3
    <3>5. Within(t[1], t[2], t[3], q)
      BY <3>1, <3>3, <3>4
    <3> QED  BY <2>1, <3>3, <3>5 DEF StepsOff
  <2> QED  BY <2>2, <2>3, <2>4
<1>4. ASSUME NEW n \in Nat, NEW c \in ModerateClocks(k), NEW ts \in Int,
             NEW d \in Int, <<c, ts, d>> \in StepsOff(k)[n]
      PROVE  /\ ts * Scale - d <= TimeStepsOff(k)[n] * Scale
             /\ d - ts * Scale <= TimeStepsOff(k)[n] * Scale
  <2>1. Moderate(c, k) /\ Within(c, ts, d, (k + 3) * n)
    BY <1>4 DEF ModerateClocks, StepsOff
  <2> QED  BY <1>1, <2>1, WithinGlobally
<1> QED  BY <1>2, <1>3, <1>4 DEF Allowance

\* Schedule, by a moderate clock.
LEMMA StepsOffScheduled ==
  ASSUME IInv, UntouchedInv, NEW k \in Nat \ {0},
         DriftInv(ModerateClocks(k), StepsOff(k), TimeStepsOff(k))
  PROVE  ScheduleAllowed(StepsOff(k))
<1> SUFFICES ASSUME currentContext \in Node, NEW d \in Nat, NEW i \in Nat
             PROVE  <<NodeClock(currentContext), ScheduledId(d, i).ts, CallerDue(d)>>
                      \in StepsOff(k)[updates]
  BY DEF ScheduleAllowed
<1>1. PICK c : c = NodeClock(currentContext)
  OBVIOUS
<1>2. c \in ModerateClocks(k)
  BY <1>1, StepsOffAllowance, OwnClock
<1>3. Moderate(c, k) /\ c \in ClockModel
  BY <1>2 DEF ModerateClocks
<1>4. PICK ts : ts = ScheduledId(d, i).ts
  OBVIOUS
<1>5. PICK g \in Int : g = CallerDue(d)
  BY CallerDueType DEF IInv, TypeInv
<1>6. Within(c, ts, g, (k + 3) * updates)
  BY <1>1, <1>3, <1>4, <1>5, ScheduledWithin DEF Within
<1>7. ts \in Int
  BY <1>4, ScheduledIdType DEF IInv, TypeInv, EventId
<1>8. updates \in Nat
  BY DEF IInv, TypeInv, TypeOK
<1> QED  BY <1>1, <1>3, <1>4, <1>5, <1>6, <1>7, <1>8 DEF StepsOff

\* ReSchedule, from a moderate clock to another.
LEMMA StepsOffMoved ==
  ASSUME IInv, NEW k \in Nat \ {0},
         DriftInv(ModerateClocks(k), StepsOff(k), TimeStepsOff(k))
  PROVE  MoveAllowed(ModerateClocks(k), StepsOff(k))
<1> SUFFICES ASSUME currentContext \in Node,
                    NEW old \in ModerateClocks(k), NEW id \in EventId,
                    id.impl \in ImplId, updates >= 1,
                    <<old, id.ts, due[id.impl]>> \in StepsOff(k)[updates - 1]
             PROVE  <<NodeClock(currentContext),
                      ScheduledId(GlobalToLocalDelay(old, currentTs,
                                    id.ts - currentTs), id.impl).ts,
                      MovedDue(old, NodeClock(currentContext), id.impl)>>
                      \in StepsOff(k)[updates]
  BY DEF MoveAllowed
<1>1. PICK c : c = NodeClock(currentContext)
  OBVIOUS
<1>2. Moderate(c, k) /\ c \in ClockModel
  <2>1. c \in ModerateClocks(k)
    BY <1>1, StepsOffAllowance, OwnClock
  <2> QED  BY <2>1 DEF ModerateClocks
<1>3. PICK ts : ts = ScheduledId(GlobalToLocalDelay(old, currentTs,
                                   id.ts - currentTs), id.impl).ts
  OBVIOUS
<1>4. PICK g : g = MovedDue(old, c, id.impl)
  OBVIOUS
<1>5. updates \in Nat /\ updates - 1 \in Nat
  BY DEF IInv, TypeInv, TypeOK
<1>6. PICK n \in Nat : n = (k + 3) * (updates - 1)
  BY <1>5
<1>7. n + k + 3 = (k + 3) * updates
  BY <1>5, <1>6
<1>8. Moderate(old, k) /\ Within(old, id.ts, due[id.impl], n)
  BY <1>5, <1>6 DEF ModerateClocks, StepsOff
<1>10. due[id.impl] \in Int
  BY DEF IInv, TypeInv, TypeOK
<1>9. /\ ts \in Int /\ g \in Int
      /\ (ts * Scale - g) * c.num <= c.den * (Scale * (n + k + 3))
      /\ (g - ts * Scale) * c.num <= c.den * (Scale * (n + k + 3))
  BY <1>1, <1>2, <1>3, <1>4, <1>8, <1>10, MovedWithin
<1> QED
  BY <1>1, <1>2, <1>3, <1>4, <1>5, <1>7, <1>9 DEF StepsOff, Within

\* A delay is honoured up to rounding that grows with the number of updates
\* only, not with the time or with the clocks' history: if no clock is k times
\* faster or slower than global time, every update adds at most k (k + 3) time
\* steps, and without one an activity is executed when its delay is over
\* (localtime-simulator-impl.cc, Schedule; local-clock.cc, SetClock and
\* ReSchedule).  The application updates the clock of the node it runs in.
THEOREM DriftIsBounded ==
  ASSUME ~CrossNode, NEW k \in Nat \ {0}, \A c \in Clock : Moderate(c, k)
  PROVE  Spec => []DelayHonoured(k * ((k + 3) * updates))
<1> DEFINE D == DriftInv(ModerateClocks(k), StepsOff(k), TimeStepsOff(k))
           I == IInv /\ EntryInv /\ OnceInv /\ UntouchedInv /\ D
<1>1. Init => I
  BY IInvInit, EntryInit, OnceInit, UntouchedInit, StepsOffAllowance, DriftInit
<1>2. I /\ [Next]_vars => I'
  <2> SUFFICES ASSUME I, [Next]_vars PROVE I'
    OBVIOUS
  <2>1. Clock \subseteq ModerateClocks(k)
    BY ClockAssumption DEF ModerateClocks
  <2>2. D'
    BY <2>1, StepsOffAllowance, StepsOffScheduled, StepsOffMoved, DriftNext
  <2> QED  BY <2>2, IInvNext, EntryNext, OnceNext, UntouchedNext
<1>3. I => DelayHonoured(k * ((k + 3) * updates))
  <2> SUFFICES ASSUME I PROVE DelayHonoured(k * ((k + 3) * updates))
    OBVIOUS
  <2>1. TimeStepsOff(k)[updates] = k * ((k + 3) * updates)
    BY DEF TimeStepsOff, IInv, TypeInv, TypeOK
  <2> QED  BY <2>1 DEF DriftInv, RunningOff
<1> QED  BY <1>1, <1>2, <1>3, PTL DEF Spec

\* Clocks that run at half the speed of global time, at its speed, or at twice
\* its speed, whatever their offset.
Halves(c) == c.num = 1 /\ c.den = 2
Keeps(c) == c.num = 1 /\ c.den = 1
Doubles(c) == c.num = 2 /\ c.den = 1
ThreeRates == {c \in ClockModel : Halves(c) \/ Keeps(c) \/ Doubles(c)}

\* What the conversion to a clock of half the speed adds to t: 1 if t is odd.
Lag(t) == 2 * Lround(t, 2) - t

LEMMA HalfRound ==
  ASSUME NEW t \in Int
  PROVE  /\ Lround(t, 2) \in Int
         /\ Lag(t) \in Int
         /\ t \in Nat => Lag(t) \in {0, 1}
         /\ t % 2 = 0 => Lag(t) = 0
BY DEF Lround, Lag

\* An event with time stamp ts that is due at d is e halves of a step of the
\* clock c late; a quarter of a time step is what the rates need.
OffBy(c, ts, d, e) ==
  /\ Halves(c) => ts % 2 = 0 /\ d = (4 * ts - 4 * e) * (Scale \div 4)
  /\ Keeps(c) => d = (4 * ts - 2 * e) * (Scale \div 4)
  /\ Doubles(c) => d = (4 * ts - e) * (Scale \div 4)

\* That is possible after n updates.
Possible(c, e, n) ==
  /\ Halves(c) => 2 * e <= n + 1 /\ -(2 * e) <= 3 * n - 2
  /\ Keeps(c) => 2 * e <= n /\ -(2 * e) <= (IF n = 0 THEN 0 ELSE 3 * n - 2)
  /\ Doubles(c) => 2 * e <= n /\ -(2 * e) <= 3 * n + 1

\* The two conversions an update makes of what is left at time t, as the code
\* rounds it and exactly: to steps of the clock, and back to global time.
StepsLeft(c, t, ts) == Lround(ts * c.num, c.den) - Lround(t * c.num, c.den)
ExactlyLeft(c, t, d) == ((d - t * Scale) * c.num) \div c.den
Stamp(c, t, rem) == ((Lround(t * c.num, c.den) + rem) * c.den) \div c.num
ExactStamp(c, t, x) == t * Scale + ((x * c.den) \div c.num)

\* rem steps less e halves of one, exactly.
Exactly(rem, e) == (4 * rem - 2 * e) * (Scale \div 4)

\* In quarters q of a time step; l is t, and m is ts, in steps of the slow
\* clock.
LEMMA HalvesLeft ==
  ASSUME NEW q \in Nat \ {0}, NEW t \in Int, NEW ts \in Int, NEW e \in Int,
         NEW l \in Int, NEW m \in Int, 2 * m = ts
  PROVE  ((4 * ts - 4 * e) * q - t * (4 * q)) \div 2
           = (4 * (m - l) - 2 * (e - (2 * l - t))) * q
<1>1. PICK y \in Int : y = (2 * (ts - e - t)) * q
  OBVIOUS
<1>2. (4 * ts - 4 * e) * q - t * (4 * q) = 2 * y
  BY <1>1
<1>3. (2 * y) \div 2 = y
  OBVIOUS
<1>4. 4 * (m - l) - 2 * (e - (2 * l - t)) = 2 * (ts - e - t)
  OBVIOUS
<1> QED  BY <1>1, <1>2, <1>3, <1>4

\* At the speed of global time.
LEMMA KeepsLeft ==
  ASSUME NEW q \in Nat \ {0}, NEW t \in Int, NEW ts \in Int, NEW e \in Int
  PROVE  (4 * ts - 2 * e) * q - t * (4 * q) = (4 * (ts - t) - 2 * e) * q
OBVIOUS

\* At twice the speed.
LEMMA DoublesLeft ==
  ASSUME NEW q \in Nat \ {0}, NEW t \in Int, NEW ts \in Int, NEW e \in Int
  PROVE  ((4 * ts - e) * q - t * (4 * q)) * 2 = (4 * (2 * ts - 2 * t) - 2 * e) * q
OBVIOUS

\* The other way, for a delay of rem local steps that is off by e halves of one.
LEMMA HalvesNew ==
  ASSUME NEW q \in Nat \ {0}, NEW t \in Int, NEW rem \in Int, NEW e \in Int,
         NEW l \in Int
  PROVE  t * (4 * q) + ((4 * rem - 2 * e) * q) * 2
           = (4 * ((l + rem) * 2) - 4 * (e + (2 * l - t))) * q
OBVIOUS

\* At the speed of global time.
LEMMA KeepsNew ==
  ASSUME NEW q \in Nat \ {0}, NEW t \in Int, NEW rem \in Int, NEW e \in Int
  PROVE  t * (4 * q) + (4 * rem - 2 * e) * q = (4 * (t + rem) - 2 * e) * q
OBVIOUS

\* At twice the speed: the time stamp is cut off.
LEMMA DoublesNew ==
  ASSUME NEW q \in Nat \ {0}, NEW t \in Int, NEW rem \in Int, NEW e \in Int,
         NEW ts \in Int, NEW f \in Int, 4 * ts - f = 4 * t + 2 * rem - e
  PROVE  t * (4 * q) + (((4 * rem - 2 * e) * q) \div 2) = (4 * ts - f) * q
<1>1. PICK y \in Int : y = (2 * rem - e) * q
  OBVIOUS
<1>2. (4 * rem - 2 * e) * q = 2 * y
  BY <1>1
<1>3. (2 * y) \div 2 = y
  OBVIOUS
<1>4. t * (4 * q) + y = (4 * t + 2 * rem - e) * q
  BY <1>1
<1> QED  BY <1>2, <1>3, <1>4

\* lround has nothing to do where the clock does not halve.
LEMMA ReadingOf ==
  ASSUME NEW t \in Int, NEW c
  PROVE  /\ Halves(c) => Lround(t * c.num, c.den) = Lround(t, 2)
         /\ Keeps(c) => Lround(t * c.num, c.den) = t
         /\ Doubles(c) => Lround(t * c.num, c.den) = 2 * t
<1>1. t * 1 = t /\ t * 2 = 2 * t /\ 2 * t \in Int
  OBVIOUS
<1>2. CASE Halves(c)
  BY <1>1, <1>2 DEF Halves, Keeps, Doubles
<1>3. CASE Keeps(c)
  BY <1>1, <1>3, LroundExact DEF Halves, Keeps, Doubles
<1>4. CASE Doubles(c)
  BY <1>1, <1>4, LroundExact DEF Halves, Keeps, Doubles
<1> QED  BY <1>2, <1>3, <1>4

\* What the first conversion does to the error.
LEMMA LeftByRate ==
  ASSUME Scale % 4 = 0, NEW t \in Nat, NEW c \in ThreeRates, NEW ts \in Int,
         NEW d, NEW e \in Int, OffBy(c, ts, d, e)
  PROVE  \E f \in Int :
           /\ StepsLeft(c, t, ts) \in Int
           /\ ExactlyLeft(c, t, d) = Exactly(StepsLeft(c, t, ts), f)
           /\ Halves(c) => f = e - Lag(t)
           /\ Keeps(c) => f = e
           /\ Doubles(c) => f = e /\ StepsLeft(c, t, ts) % 2 = 0
<1>1. PICK q \in Nat \ {0} : Scale = 4 * q /\ Scale \div 4 = q
  BY BoundAssumption
<1>2. CASE Halves(c)
  <2>1. c.num = 1 /\ c.den = 2 /\ ~Keeps(c) /\ ~Doubles(c)
    BY <1>2 DEF Halves, Keeps, Doubles
  <2>2. ts % 2 = 0 /\ d = (4 * ts - 4 * e) * q
    BY <1>1, <1>2 DEF OffBy
  <2>3. PICK l, m \in Int : l = Lround(t, 2) /\ m = Lround(ts, 2)
    BY HalfRound
  <2>4. 2 * m = ts
    <3>1. Lag(ts) = 0
      BY <2>2, HalfRound
    <3> QED  BY <2>3, <3>1 DEF Lag
  <2>5. StepsLeft(c, t, ts) = m - l
    BY <1>2, <2>3, ReadingOf DEF StepsLeft
  <2>6. ExactlyLeft(c, t, d) = ((d - t * (4 * q)) * 1) \div 2
    BY <1>1, <2>1 DEF ExactlyLeft
  <2>7. (d - t * (4 * q)) * 1 = d - t * (4 * q)
    BY <2>2
  <2>8. ExactlyLeft(c, t, d) = (4 * (m - l) - 2 * (e - (2 * l - t))) * q
    BY <2>2, <2>4, <2>6, <2>7, HalvesLeft
  <2>9. Lag(t) = 2 * l - t /\ e - Lag(t) \in Int
    BY <2>3 DEF Lag
  <2>10. ExactlyLeft(c, t, d) = Exactly(m - l, e - Lag(t))
    BY <1>1, <2>8, <2>9 DEF Exactly
  <2> QED  BY <2>1, <2>5, <2>9, <2>10
<1>3. CASE Keeps(c)
  <2>1. c.num = 1 /\ c.den = 1 /\ ~Halves(c) /\ ~Doubles(c)
    BY <1>3 DEF Halves, Keeps, Doubles
  <2>2. d = (4 * ts - 2 * e) * q
    BY <1>1, <1>3 DEF OffBy
  <2>3. StepsLeft(c, t, ts) = ts - t
    BY <1>3, ReadingOf DEF StepsLeft
  <2>4. ExactlyLeft(c, t, d) = ((d - t * (4 * q)) * 1) \div 1
    BY <1>1, <2>1 DEF ExactlyLeft
  <2>5. PICK y \in Int : y = d - t * (4 * q)
    BY <2>2
  <2>6. (y * 1) \div 1 = y
    OBVIOUS
  <2>7. ExactlyLeft(c, t, d) = (4 * (ts - t) - 2 * e) * q
    BY <2>2, <2>4, <2>5, <2>6, KeepsLeft
  <2>8. ExactlyLeft(c, t, d) = Exactly(ts - t, e)
    BY <1>1, <2>7 DEF Exactly
  <2> QED  BY <2>1, <2>3, <2>8
<1>4. CASE Doubles(c)
  <2>1. c.num = 2 /\ c.den = 1 /\ ~Halves(c) /\ ~Keeps(c)
    BY <1>4 DEF Halves, Keeps, Doubles
  <2>2. d = (4 * ts - e) * q
    BY <1>1, <1>4 DEF OffBy
  <2>3. StepsLeft(c, t, ts) = 2 * ts - 2 * t
    BY <1>4, ReadingOf DEF StepsLeft
  <2>4. ExactlyLeft(c, t, d) = ((d - t * (4 * q)) * 2) \div 1
    BY <1>1, <2>1 DEF ExactlyLeft
  <2>5. PICK y \in Int : y = (d - t * (4 * q)) * 2
    BY <2>2
  <2>6. y \div 1 = y
    OBVIOUS
  <2>7. ExactlyLeft(c, t, d) = (4 * (2 * ts - 2 * t) - 2 * e) * q
    BY <2>2, <2>4, <2>5, <2>6, DoublesLeft
  <2>8. ExactlyLeft(c, t, d) = Exactly(2 * ts - 2 * t, e)
    BY <1>1, <2>7 DEF Exactly
  <2>9. 2 * ts - 2 * t \in Int /\ (2 * ts - 2 * t) % 2 = 0
    OBVIOUS
  <2> QED  BY <2>1, <2>3, <2>8, <2>9
<1> QED  BY <1>2, <1>3, <1>4 DEF ThreeRates

\* What the second conversion does to it.
LEMMA NewByRate ==
  ASSUME Scale % 4 = 0, NEW t \in Nat, NEW c \in ThreeRates,
         NEW rem \in Int, NEW e \in Int
  PROVE  \E f \in Int :
           /\ Stamp(c, t, rem) \in Int
           /\ OffBy(c, Stamp(c, t, rem), ExactStamp(c, t, Exactly(rem, e)), f)
           /\ Halves(c) => f = e + Lag(t)
           /\ Keeps(c) => f = e
           /\ Doubles(c) => f \in {e, e - 2} /\ (rem % 2 = 0 => f = e)
<1>1. PICK q \in Nat \ {0} : Scale = 4 * q /\ Scale \div 4 = q
  BY BoundAssumption
<1>2. Exactly(rem, e) = (4 * rem - 2 * e) * q
  BY <1>1 DEF Exactly
<1>3. PICK y \in Int : y = (4 * rem - 2 * e) * q
  OBVIOUS
<1>4. PICK d : d = ExactStamp(c, t, Exactly(rem, e))
  OBVIOUS
<1>5. d = t * (4 * q) + ((y * c.den) \div c.num)
  BY <1>1, <1>2, <1>3, <1>4 DEF ExactStamp
<1>6. CASE Halves(c)
  <2>1. c.num = 1 /\ c.den = 2 /\ ~Keeps(c) /\ ~Doubles(c)
    BY <1>6 DEF Halves, Keeps, Doubles
  <2>2. PICK l \in Int : l = Lround(t, 2)
    BY HalfRound
  <2>3. Stamp(c, t, rem) = ((l + rem) * 2) \div 1
    BY <1>6, <2>1, <2>2, ReadingOf DEF Stamp
  <2>4. ((l + rem) * 2) \div 1 = (l + rem) * 2 /\ (y * 2) \div 1 = y * 2
    OBVIOUS
  <2>5. Stamp(c, t, rem) = (l + rem) * 2 /\ d = t * (4 * q) + y * 2
    BY <1>5, <2>1, <2>3, <2>4
  <2>6. d = (4 * ((l + rem) * 2) - 4 * (e + (2 * l - t))) * q
    BY <1>3, <2>5, HalvesNew
  <2>7. Lag(t) = 2 * l - t /\ e + Lag(t) \in Int
    BY <2>2 DEF Lag
  <2>8. ((l + rem) * 2) % 2 = 0 /\ (l + rem) * 2 \in Int
    OBVIOUS
  <2>9. OffBy(c, Stamp(c, t, rem), d, e + Lag(t))
    BY <1>1, <2>1, <2>5, <2>6, <2>7, <2>8 DEF OffBy
  <2> QED  BY <1>4, <2>1, <2>5, <2>7, <2>8, <2>9
<1>7. CASE Keeps(c)
  <2>1. c.num = 1 /\ c.den = 1 /\ ~Halves(c) /\ ~Doubles(c)
    BY <1>7 DEF Halves, Keeps, Doubles
  <2>2. Stamp(c, t, rem) = ((t + rem) * 1) \div 1
    BY <1>7, <2>1, ReadingOf DEF Stamp
  <2>3. ((t + rem) * 1) \div 1 = t + rem /\ (y * 1) \div 1 = y
    OBVIOUS
  <2>4. Stamp(c, t, rem) = t + rem /\ d = t * (4 * q) + y
    BY <1>5, <2>1, <2>2, <2>3
  <2>5. d = (4 * (t + rem) - 2 * e) * q
    BY <1>3, <2>4, KeepsNew
  <2>6. OffBy(c, Stamp(c, t, rem), d, e)
    BY <1>1, <2>1, <2>4, <2>5 DEF OffBy
  <2> QED  BY <1>4, <2>1, <2>4, <2>6
<1>8. CASE Doubles(c)
  <2>1. c.num = 2 /\ c.den = 1 /\ ~Halves(c) /\ ~Keeps(c)
    BY <1>8 DEF Halves, Keeps, Doubles
  <2>2. Stamp(c, t, rem) = ((2 * t + rem) * 1) \div 2
    <3>1. Lround(t * c.num, c.den) = 2 * t
      BY <1>8, ReadingOf
    <3> QED  BY <2>1, <3>1 DEF Stamp
  <2>3. (2 * t + rem) * 1 = 2 * t + rem /\ y * 1 = y
    OBVIOUS
  <2>4. PICK ts \in Int : ts = (2 * t + rem) \div 2
    OBVIOUS
  <2>5. Stamp(c, t, rem) = ts /\ d = t * (4 * q) + (y \div 2)
    BY <1>5, <2>1, <2>2, <2>3, <2>4
  <2>6. PICK f \in {e, e - 2} : /\ 4 * ts - f = 4 * t + 2 * rem - e
                                /\ rem % 2 = 0 => f = e
    BY <2>4
  <2>7. d = (4 * ts - f) * q
    <3>1. f \in Int /\ t \in Int
      BY <2>6
    <3>2. t * (4 * q) + (((4 * rem - 2 * e) * q) \div 2) = (4 * ts - f) * q
      BY <2>6, <3>1, DoublesNew
    <3> QED  BY <1>3, <2>5, <3>2
  <2>8. OffBy(c, ts, d, f)
    BY <1>1, <2>1, <2>7 DEF OffBy
  <2>9. f \in Int
    BY <2>6
  <2>10. Stamp(c, t, rem) \in Int
    BY <2>5
  <2>11. OffBy(c, Stamp(c, t, rem), ExactStamp(c, t, Exactly(rem, e)), f)
    BY <1>4, <2>5, <2>8
  <2>12. f \in {e, e - 2} /\ (rem % 2 = 0 => f = e)
    BY <2>6
  <2> QED  BY <2>1, <2>9, <2>10, <2>11, <2>12, Zenon
<1> QED  BY <1>6, <1>7, <1>8 DEF ThreeRates

\* What is possible after n updates, and how many time steps that is.
HalvesOff ==
  [n \in Nat |-> {t \in ThreeRates \X Int \X Int :
                   \E e \in Int : /\ OffBy(t[1], t[2], t[3], e)
                                  /\ Possible(t[1], e, n)}]
DriftSteps == [n \in Nat |-> IF n <= 3 THEN n ELSE 2 * n]

\* Up to three updates it is a time step for each: at half the speed every
\* error is a whole number of time steps.
LEMMA HalvesOffAllowance ==
  ASSUME Scale % 4 = 0
  PROVE  Allowance(ThreeRates, HalvesOff, DriftSteps)
<1>1. PICK q \in Nat \ {0} : Scale = 4 * q /\ Scale \div 4 = q
  BY BoundAssumption
<1>2. ThreeRates \subseteq ClockModel /\ DefaultClock \in ThreeRates
  BY DEF ThreeRates, DefaultClock, ClockModel, Keeps
<1>3. ASSUME NEW n \in Nat
      PROVE  /\ HalvesOff[n] \subseteq HalvesOff[n + 1]
             /\ DriftSteps[n] \in Nat
             /\ DriftSteps[n] <= DriftSteps[n + 1]
  <2>1. DriftSteps[n] \in Nat /\ DriftSteps[n] <= DriftSteps[n + 1]
    BY DEF DriftSteps
  <2>2. SUFFICES ASSUME NEW t \in HalvesOff[n] PROVE t \in HalvesOff[n + 1]
    BY <2>1
  <2>3. PICK e \in Int : OffBy(t[1], t[2], t[3], e) /\ Possible(t[1], e, n)
    BY DEF HalvesOff
  <2>4. Possible(t[1], e, n + 1)
    BY <2>3 DEF Possible
  <2>5. t \in ThreeRates \X Int \X Int
    BY DEF HalvesOff
  <2> QED  BY <2>3, <2>4, <2>5 DEF HalvesOff
<1>4. ASSUME NEW n \in Nat, NEW c \in ThreeRates, NEW ts \in Int,
             NEW d \in Int, <<c, ts, d>> \in HalvesOff[n]
      PROVE  /\ ts * Scale - d <= DriftSteps[n] * Scale
             /\ d - ts * Scale <= DriftSteps[n] * Scale
  <2>1. PICK e \in Int : OffBy(c, ts, d, e) /\ Possible(c, e, n)
    BY <1>4 DEF HalvesOff
  <2>2. \E p \in Int : /\ d = (4 * ts - p) * q
                       /\ p <= 4 * DriftSteps[n] /\ -p <= 4 * DriftSteps[n]
    <3>1. CASE Halves(c)
      <4>1. d = (4 * ts - 4 * e) * q /\ 2 * e <= n + 1 /\ -(2 * e) <= 3 * n - 2
        BY <1>1, <2>1, <3>1 DEF OffBy, Possible
      <4>2. 4 * e <= 4 * DriftSteps[n] /\ -(4 * e) <= 4 * DriftSteps[n]
        BY <4>1 DEF DriftSteps
      <4> QED  BY <4>1, <4>2
    <3>2. CASE Keeps(c)
      <4>1. /\ d = (4 * ts - 2 * e) * q /\ 2 * e <= n
            /\ -(2 * e) <= (IF n = 0 THEN 0 ELSE 3 * n - 2)
        BY <1>1, <2>1, <3>2 DEF OffBy, Possible
      <4>2. 2 * e <= 4 * DriftSteps[n] /\ -(2 * e) <= 4 * DriftSteps[n]
        BY <4>1 DEF DriftSteps
      <4> QED  BY <4>1, <4>2
    <3>3. CASE Doubles(c)
      <4>1. d = (4 * ts - e) * q /\ 2 * e <= n /\ -(2 * e) <= 3 * n + 1
        BY <1>1, <2>1, <3>3 DEF OffBy, Possible
      <4>2. e <= 4 * DriftSteps[n] /\ -e <= 4 * DriftSteps[n]
        BY <4>1 DEF DriftSteps
      <4> QED  BY <4>1, <4>2
    <3> QED  BY <3>1, <3>2, <3>3 DEF ThreeRates
  <2>3. PICK p \in Int : /\ d = (4 * ts - p) * q
                         /\ p <= 4 * DriftSteps[n] /\ -p <= 4 * DriftSteps[n]
    BY <2>2
  <2>4. PICK b \in Nat : b = DriftSteps[n]
    BY <1>3
  <2>5. q * p <= q * (4 * b) /\ q * (-p) <= q * (4 * b)
    BY <2>3, <2>4, Larger
  <2>6. /\ ts * Scale - d = q * p /\ d - ts * Scale = q * (-p)
        /\ b * Scale = q * (4 * b)
    BY <1>1, <2>3
  <2> QED  BY <2>4, <2>5, <2>6
<1> QED  BY <1>2, <1>3, <1>4 DEF Allowance

\* Before the first update the clock is the default one and nothing is rounded.
LEMMA HalvesOffScheduled ==
  ASSUME IInv, UntouchedInv, Scale % 4 = 0,
         DriftInv(ThreeRates, HalvesOff, DriftSteps)
  PROVE  ScheduleAllowed(HalvesOff)
<1> SUFFICES ASSUME currentContext \in Node, NEW d \in Nat, NEW i \in Nat
             PROVE  <<NodeClock(currentContext), ScheduledId(d, i).ts, CallerDue(d)>>
                      \in HalvesOff[updates]
  BY DEF ScheduleAllowed
<1>1. PICK c : c = NodeClock(currentContext)
  OBVIOUS
<1>2. c \in ThreeRates /\ c \in ClockModel
  <2>1. c \in ThreeRates
    BY <1>1, HalvesOffAllowance, OwnClock
  <2> QED  BY <2>1 DEF ThreeRates
<1>3. PICK ts : ts = ScheduledId(d, i).ts
  OBVIOUS
<1>4. PICK g \in Int : g = CallerDue(d)
  BY CallerDueType DEF IInv, TypeInv
<1>5. currentTs \in Nat /\ updates \in Nat /\ currentContext # NoContext
  BY NodeAssumption DEF IInv, TypeInv, TypeOK
<1>6. ts = Stamp(c, currentTs, d)
  BY <1>1, <1>2, <1>3, ScheduledTime DEF Stamp
<1>7. g = ExactStamp(c, currentTs, d * Scale)
  BY <1>1, <1>4, <1>5 DEF CallerDue, ExactDue, ExactStamp
<1>8. d * Scale = Exactly(d, 0)
  <2>1. PICK q \in Nat \ {0} : Scale = 4 * q /\ Scale \div 4 = q
    BY BoundAssumption
  <2>2. d * (4 * q) = (4 * d - 2 * 0) * q
    OBVIOUS
  <2> QED  BY <2>1, <2>2 DEF Exactly
<1>9. d \in Int /\ 0 \in Int
  OBVIOUS
<1>10. PICK f \in Int : /\ ts \in Int
                        /\ OffBy(c, ts, g, f)
                        /\ Halves(c) => f = 0 + Lag(currentTs)
                        /\ Keeps(c) => f = 0
                        /\ Doubles(c) => f \in {0, 0 - 2}
  <2>1. PICK f \in Int :
          /\ Stamp(c, currentTs, d) \in Int
          /\ OffBy(c, Stamp(c, currentTs, d),
                   ExactStamp(c, currentTs, Exactly(d, 0)), f)
          /\ Halves(c) => f = 0 + Lag(currentTs)
          /\ Keeps(c) => f = 0
          /\ Doubles(c) => f \in {0, 0 - 2} /\ (d % 2 = 0 => f = 0)
    BY <1>2, <1>5, <1>9, NewByRate
  <2>2. OffBy(c, ts, g, f) /\ ts \in Int
    BY <1>6, <1>7, <1>8, <2>1
  <2> QED  BY <2>1, <2>2
<1>11. updates = 0 => Keeps(c)
  BY <1>1 DEF UntouchedInv, NodeClock, DefaultClock, Keeps
<1>12. Possible(c, f, updates)
  <2>1. CASE Halves(c)
    <3>1. PICK lag \in {0, 1} : lag = Lag(currentTs)
      BY <1>5, HalfRound
    <3>2. f = lag
      BY <1>10, <2>1, <3>1
    <3>3. updates >= 1
      BY <1>5, <1>11, <2>1 DEF Halves, Keeps
    <3>4. 2 * f <= updates + 1 /\ -(2 * f) <= 3 * updates - 2
      BY <1>5, <3>1, <3>2, <3>3
    <3> QED  BY <2>1, <3>4 DEF Possible, Halves, Keeps, Doubles
  <2>2. CASE Keeps(c)
    <3>1. 2 * f <= updates /\ -(2 * f) <= (IF updates = 0 THEN 0 ELSE 3 * updates - 2)
      BY <1>5, <1>10, <2>2
    <3> QED  BY <2>2, <3>1 DEF Possible, Halves, Keeps, Doubles
  <2>3. CASE Doubles(c)
    <3>1. updates >= 1
      BY <1>5, <1>11, <2>3 DEF Doubles, Keeps
    <3>2. f \in {0, 0 - 2}
      BY <1>10, <2>3
    <3>3. 2 * f <= updates /\ -(2 * f) <= 3 * updates + 1
      BY <1>5, <3>1, <3>2
    <3> QED  BY <2>3, <3>3 DEF Possible, Halves, Keeps, Doubles
  <2> QED  BY <1>2, <2>1, <2>2, <2>3 DEF ThreeRates
<1> QED  BY <1>1, <1>2, <1>3, <1>4, <1>5, <1>10, <1>12 DEF HalvesOff

\* What an update adds to the error: the three rates against each other.
LEMMA HalvesOffMoved ==
  ASSUME IInv, Scale % 4 = 0, DriftInv(ThreeRates, HalvesOff, DriftSteps)
  PROVE  MoveAllowed(ThreeRates, HalvesOff)
<1> SUFFICES ASSUME currentContext \in Node,
                    NEW old \in ThreeRates, NEW id \in EventId,
                    id.impl \in ImplId, updates >= 1,
                    <<old, id.ts, due[id.impl]>> \in HalvesOff[updates - 1]
             PROVE  <<NodeClock(currentContext),
                      ScheduledId(GlobalToLocalDelay(old, currentTs,
                                    id.ts - currentTs), id.impl).ts,
                      MovedDue(old, NodeClock(currentContext), id.impl)>>
                      \in HalvesOff[updates]
  BY DEF MoveAllowed
<1>1. PICK c : c = NodeClock(currentContext)
  OBVIOUS
<1>2. c \in ThreeRates /\ c \in ClockModel
  <2>1. c \in ThreeRates
    BY <1>1, HalvesOffAllowance, OwnClock
  <2> QED  BY <2>1 DEF ThreeRates
<1>3. PICK rem : rem = GlobalToLocalDelay(old, currentTs, id.ts - currentTs)
  OBVIOUS
<1>4. PICK ts : ts = ScheduledId(rem, id.impl).ts
  OBVIOUS
<1>5. PICK g : g = MovedDue(old, c, id.impl)
  OBVIOUS
<1>6. /\ currentTs \in Nat /\ id.ts \in Int /\ due[id.impl] \in Int
      /\ updates \in Nat /\ updates - 1 \in Nat
      /\ old \in ClockModel
  BY DEF IInv, TypeInv, TypeOK, EventId, ThreeRates
<1>7. PICK e \in Int : /\ OffBy(old, id.ts, due[id.impl], e)
                        /\ Possible(old, e, updates - 1)
  BY <1>6 DEF HalvesOff
<1>8. rem = StepsLeft(old, currentTs, id.ts)
  <2>1. currentTs + (id.ts - currentTs) = id.ts
    BY <1>6
  <2>2. /\ old.num \in Int /\ old.den \in Nat \ {0} /\ old.offset \in Int
        /\ currentTs * old.num \in Int /\ id.ts * old.num \in Int
    BY <1>6 DEF ClockModel
  <2>3. PICK l, m \in Int : /\ l = Lround(currentTs * old.num, old.den)
                            /\ m = Lround(id.ts * old.num, old.den)
    BY <2>2, LroundType
  <2>4. rem = (m + old.offset) - (l + old.offset)
    BY <1>3, <2>1, <2>3 DEF GlobalToLocalDelay, GlobalToLocalTime, GetLocalTime
  <2>5. rem = m - l
    BY <2>2, <2>4
  <2> QED  BY <2>3, <2>5 DEF StepsLeft
<1>9. PICK x : x = ExactlyLeft(old, currentTs, due[id.impl])
  OBVIOUS
<1>10. PICK f \in Int : /\ rem \in Int
                        /\ x = Exactly(rem, f)
                        /\ Halves(old) => f = e - Lag(currentTs)
                        /\ Keeps(old) => f = e
                        /\ Doubles(old) => f = e /\ rem % 2 = 0
  BY <1>6, <1>7, <1>8, <1>9, LeftByRate
<1>11. ts = Stamp(c, currentTs, rem)
  BY <1>1, <1>2, <1>4, <1>10, ScheduledTime DEF Stamp
<1>12. g = ExactStamp(c, currentTs, x)
  BY <1>5, <1>9 DEF MovedDue, ExactDue, ExactStamp, ExactlyLeft
<1>13. PICK h \in Int : /\ ts \in Int
                        /\ OffBy(c, ts, g, h)
                        /\ Halves(c) => h = f + Lag(currentTs)
                        /\ Keeps(c) => h = f
                        /\ Doubles(c) => h \in {f, f - 2} /\ (rem % 2 = 0 => h = f)
  <2>1. c \in ThreeRates /\ currentTs \in Nat /\ rem \in Int
    BY <1>2, <1>6, <1>10
  <2>2. PICK h \in Int :
          /\ Stamp(c, currentTs, rem) \in Int
          /\ OffBy(c, Stamp(c, currentTs, rem),
                   ExactStamp(c, currentTs, Exactly(rem, f)), h)
          /\ Halves(c) => h = f + Lag(currentTs)
          /\ Keeps(c) => h = f
          /\ Doubles(c) => h \in {f, f - 2} /\ (rem % 2 = 0 => h = f)
    BY <2>1, NewByRate
  <2>3. OffBy(c, ts, g, h) /\ ts \in Int
    BY <1>10, <1>11, <1>12, <2>2
  <2> QED  BY <2>2, <2>3
<1>14. PICK lag \in {0, 1} : lag = Lag(currentTs)
  BY <1>6, HalfRound
<1>15. PICK n \in Nat : n = updates - 1 /\ n + 1 = updates
  BY <1>6
\* The error in the old clock's half steps, with the bound the old rate gives.
<1>16. /\ Halves(old) => f = e - lag /\ 2 * e <= n + 1 /\ -(2 * e) <= 3 * n - 2
       /\ Keeps(old) => /\ f = e /\ 2 * e <= n
                        /\ -(2 * e) <= (IF n = 0 THEN 0 ELSE 3 * n - 2)
       /\ Doubles(old) => f = e /\ 2 * e <= n /\ -(2 * e) <= 3 * n + 1
  BY <1>7, <1>10, <1>14, <1>15 DEF Possible
<1>17. Halves(old) \/ Keeps(old) \/ Doubles(old)
  BY DEF ThreeRates
<1>18. Possible(c, h, n + 1)
  <2>1. CASE Halves(c)
    <3>1. h = f + lag
      BY <1>13, <1>14, <2>1
    <3>2. 2 * h <= n + 2 /\ -(2 * h) <= 3 * (n + 1) - 2
      BY <1>14, <1>16, <1>17, <3>1
    <3> QED  BY <2>1, <3>2 DEF Possible, Halves, Keeps, Doubles
  <2>2. CASE Keeps(c)
    <3>1. h = f
      BY <1>13, <2>2
    <3>2. 2 * h <= n + 1 /\ -(2 * h) <= 3 * (n + 1) - 2
      BY <1>14, <1>16, <1>17, <3>1
    <3> QED  BY <2>2, <3>2 DEF Possible, Halves, Keeps, Doubles
  <2>3. CASE Doubles(c)
    <3>1. h \in {f, f - 2}
      BY <1>13, <2>3
    <3>2. Doubles(old) => h = f
      BY <1>10, <1>13, <2>3
    <3>3. 2 * h <= n + 1 /\ -(2 * h) <= 3 * (n + 1) + 1
      BY <1>14, <1>16, <1>17, <3>1, <3>2
    <3> QED  BY <2>3, <3>3 DEF Possible, Halves, Keeps, Doubles
  <2> QED  BY <1>2, <2>1, <2>2, <2>3 DEF ThreeRates
<1>19. g \in Int
  BY <1>2, <1>5, <1>6, MovedDueType DEF IInv, TypeInv
<1> QED
  BY <1>1, <1>2, <1>3, <1>4, <1>5, <1>6, <1>13, <1>15, <1>18, <1>19
     DEF HalvesOff

\* With frequencies 1/2, 1 and 2 the bound is sharper: up to three updates cost
\* one time step each, whatever the delays, the times and the number of events;
\* four can cost five (see the README), and n never more than 2 n.  The application updates the clock of
\* the node it runs in; Scale tells quarters of a time step apart
\* (local-clock.cc, SetClock and ReSchedule).
THEOREM DriftIsSharp ==
  ASSUME ~CrossNode, Clock \subseteq ThreeRates, Scale % 4 = 0
  PROVE  Spec => [](/\ updates <= 3 => DriftPerUpdate
                  /\ DelayHonoured(2 * updates))
<1> DEFINE D == DriftInv(ThreeRates, HalvesOff, DriftSteps)
           I == IInv /\ EntryInv /\ OnceInv /\ UntouchedInv /\ D
<1>1. Init => I
  BY IInvInit, EntryInit, OnceInit, UntouchedInit, HalvesOffAllowance, DriftInit
<1>2. I /\ [Next]_vars => I'
  <2> SUFFICES ASSUME I, [Next]_vars PROVE I'
    OBVIOUS
  <2>1. D'
    BY HalvesOffAllowance, HalvesOffScheduled, HalvesOffMoved, DriftNext
  <2> QED  BY <2>1, IInvNext, EntryNext, OnceNext, UntouchedNext
<1>3. I => (updates <= 3 => DriftPerUpdate)
  <2> SUFFICES ASSUME I, updates <= 3 PROVE DriftPerUpdate
    OBVIOUS
  <2>1. DriftSteps[updates] = updates
    BY DEF DriftSteps, IInv, TypeInv, TypeOK
  <2> QED  BY <2>1 DEF DriftInv, RunningOff, DriftPerUpdate
<1>4. I => DelayHonoured(2 * updates)
  <2> SUFFICES ASSUME I, phase = "event", due[running] # NoDue
               PROVE  /\ currentTs * Scale - due[running] <= (2 * updates) * Scale
                      /\ due[running] - currentTs * Scale <= (2 * updates) * Scale
    BY DEF DelayHonoured
  <2>1. /\ updates \in Nat /\ Scale \in Nat /\ currentTs * Scale \in Int
        /\ DriftSteps[updates] = IF updates <= 3 THEN updates ELSE 2 * updates
    BY Numbers, BoundAssumption DEF DriftSteps, IInv, TypeInv, TypeOK
  <2>2. running \in ran /\ DelayHonoured(DriftSteps[updates])
    BY DEF DriftInv, RunningOff
  <2>3. due[running] \in Int
    <3>1. running \in ImplId
      <4>1. ImplId = 1..MaxImpls /\ MaxImpls \in Nat /\ impls \in Nat
        BY Numbers
      <4>2. running \in 1..impls /\ impls <= MaxImpls
        BY <2>2 DEF EntryInv, NamesInv
      <4> QED  BY <4>1, <4>2
    <3> QED  BY <3>1, Numbers
  <2>4. DriftSteps[updates] \in Nat /\ DriftSteps[updates] <= 2 * updates
    BY <2>1
  <2>5. Scale * DriftSteps[updates] <= Scale * (2 * updates)
    BY <2>1, <2>4, Larger
  <2> QED  BY <2>1, <2>2, <2>3, <2>4, <2>5 DEF DelayHonoured
<1> QED  BY <1>1, <1>2, <1>3, <1>4, PTL DEF Spec
=============================================================================
