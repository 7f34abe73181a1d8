------------------------- MODULE CalendarScheduler -------------------------
(***************************************************************************)
(* src/core: CalendarScheduler.  A year has nBuckets days of width time    *)
(* units; an event is put into the bucket of its day, whatever the year.   *)
(* The search for the next event starts at the day of the last one.        *)
(*                                                                         *)
(* A bucket is a list the code keeps sorted by insertion; it is a set      *)
(* here, whose front is its first event in the order of EventKey.  The     *)
(* simulator that uses the list is the one described in Scheduler.         *)
(***************************************************************************)
EXTENDS EventKey, FiniteSets, FiniteSetsExt

CONSTANTS
  Delay,     \* distances of new events from the current time
  MaxEvents, \* bound: events inserted
  Word       \* the modulus of uint64_t

VARIABLES
  calendar, \* the members of the scheduler (but m_qSize), as a record
  qSize,    \* m_qSize
  uid,      \* the simulator's m_uid
  now,      \* the simulator's m_currentTs
  next      \* the result of the last RemoveNext

vars == <<calendar, qSize, uid, now, next>>

Event == [ts : Nat, uid : Nat]
Nothing == [ts |-> 0, uid |-> 0]
FirstUid == 4
MaxBuckets == 32768

-----------------------------------------------------------------------------
\* A calendar is a record of: buckets (m_buckets, m_nBuckets of them), width,
\* lastPrio (the time stamp of the last event removed), lastBucket (its bucket)
\* and bucketTop (the end of its day).

Bucket(cal) == DOMAIN cal.buckets
Days(cal) == Cardinality(Bucket(cal))
Events(cal) == UNION {cal.buckets[i] : i \in Bucket(cal)}
Hash(cal, ts) == (ts \div cal.width) % Days(cal)
EndOfDay(ts, w) == (ts \div w + 1) * w

First(set) == CHOOSE e \in set : IsFirst(e, set)

\* Init and the insertion of what was in the old buckets.
NewCalendar(nBuckets, w, startPrio, set) ==
  [buckets    |-> [i \in 0..nBuckets - 1 |->
                     {e \in set : (e.ts \div w) % nBuckets = i}],
   width      |-> w,
   lastPrio   |-> startPrio,
   lastBucket |-> (startPrio \div w) % nBuckets,
   bucketTop  |-> EndOfDay(startPrio, w)]

DoInsert(cal, e) == [cal EXCEPT !.buckets[Hash(cal, e.ts)] = @ \cup {e}]

\* The buckets are visited once, from the last one on; the i-th visited is
\* in the day that ends i widths after bucketTop.
Visited(cal, i) == (cal.lastBucket + i) % Days(cal)
HasEventOfDay(cal, i) ==
  LET bucket == cal.buckets[Visited(cal, i)] IN
  bucket # {} /\ First(bucket).ts < cal.bucketTop + i * cal.width

\* Wrong: the first bucket that is not empty is taken, whatever the year.
DoRemoveNextAnyYear(cal) ==
  LET i == Min({j \in 0..Days(cal) - 1 : cal.buckets[Visited(cal, j)] # {}})
      e == First(cal.buckets[Visited(cal, i)])
  IN  [event |-> e,
       cal   |-> [cal EXCEPT !.buckets[Visited(cal, i)] = @ \ {e},
                             !.lastBucket = Visited(cal, i),
                             !.lastPrio = e.ts,
                             !.bucketTop = cal.bucketTop + i * cal.width]]

\* An event of the year that starts at the last day if there is one, else
\* the first of the buckets' fronts.
DoRemoveNext(cal) ==
  LET hits == {i \in 0..Days(cal) - 1 : HasEventOfDay(cal, i)}
      i == Min(hits)
      b == IF hits # {}
           THEN Visited(cal, i)
           ELSE LET fronts == {First(cal.buckets[j]) :
                                 j \in {k \in Bucket(cal) : cal.buckets[k] # {}}}
                IN  CHOOSE j \in Bucket(cal) : First(fronts) \in cal.buckets[j]
      e == First(cal.buckets[b])
  IN  [event |-> e,
       cal   |-> [cal EXCEPT !.buckets[b] = @ \ {e},
                             !.lastPrio = e.ts,
                             !.lastBucket = IF hits # {} THEN b ELSE Hash(cal, e.ts),
                             !.bucketTop = IF hits # {}
                                           THEN cal.bucketTop + i * cal.width
                                           ELSE EndOfDay(e.ts, cal.width)]]

\* The first n events DoRemoveNext returns.
Samples(cal, n) ==
  LET drained[i \in 0..n] ==
        IF i = 0 THEN [event |-> Nothing, cal |-> cal]
                 ELSE DoRemoveNext(drained[i - 1].cal)
  IN  [i \in 1..n |-> drained[i].event]

NumberOfSamples(size) ==
  LET n == IF size <= 5 THEN size ELSE 5 + size \div 10 IN
  IF n > 25 THEN 25 ELSE n

\* The sum of the first n elements.
Total(f, n) ==
  LET sum[i \in 0..n] == IF i = 0 THEN 0 ELSE sum[i - 1] + f[i] IN sum[n]

\* Three times the sum of the distances between samples, those above twice
\* the average left out.
CalculateNewWidth(cal, size) ==
  IF size < 2
  THEN 1
  ELSE LET n == NumberOfSamples(size)
           sample == Samples(cal, n)
           gap == [i \in 1..n - 1 |-> (sample[i + 1].ts - sample[i].ts) % Word]
           twiceAvg == (((Total(gap, n - 1) % Word) \div (n - 1)) * 2) % Word
           close == [i \in 1..n - 1 |-> IF gap[i] <= twiceAvg THEN gap[i] ELSE 0]
       IN  Max({1, (3 * Total(close, n - 1)) % Word})

\* Wrong: the sampling's last time stamp is not restored.
ResizeAfterSamples(cal, nBuckets, size) ==
  LET n == NumberOfSamples(size)
      last == IF size < 2 THEN cal.lastPrio ELSE Samples(cal, n)[n].ts
  IN  NewCalendar(nBuckets, CalculateNewWidth(cal, size), last, Events(cal))

Resize(cal, nBuckets, size) ==
  NewCalendar(nBuckets, CalculateNewWidth(cal, size), cal.lastPrio, Events(cal))

ResizeUp(cal, size) ==
  IF size > 2 * Days(cal) /\ Days(cal) < MaxBuckets
  THEN Resize(cal, 2 * Days(cal), size)
  ELSE cal

ResizeDown(cal, size) ==
  IF size < Days(cal) \div 2
  THEN Resize(cal, Days(cal) \div 2, size)
  ELSE cal

-----------------------------------------------------------------------------
Insert(d) ==
  /\ uid < FirstUid + MaxEvents
  /\ calendar' = ResizeUp(DoInsert(calendar, [ts |-> now + d, uid |-> uid]),
                          qSize + 1)
  /\ qSize' = qSize + 1
  /\ uid' = uid + 1
  /\ UNCHANGED <<now, next>>

RemoveNext ==
  LET removed == DoRemoveNext(calendar) IN
  /\ qSize > 0
  /\ next' = removed.event
  /\ now' = removed.event.ts
  /\ calendar' = ResizeDown(removed.cal, qSize - 1)
  /\ qSize' = qSize - 1
  /\ UNCHANGED uid

\* Remove of an event in the list, which is looked up in the bucket of its
\* time stamp; elsewhere it is not found and the code asserts.
Remove(u) ==
  /\ \E e \in Events(calendar) :
       LET bucket == Hash(calendar, e.ts) IN
       /\ e.uid = u
       /\ e \in calendar.buckets[bucket]
       /\ calendar' = ResizeDown([calendar EXCEPT !.buckets[bucket] = @ \ {e}],
                                 qSize - 1)
  /\ qSize' = qSize - 1
  /\ UNCHANGED <<uid, now, next>>

Init == /\ calendar = NewCalendar(2, 1, 0, {})
        /\ qSize = 0
        /\ uid = FirstUid
        /\ now = 0
        /\ next = Nothing

Next == \/ \E d \in Delay : Insert(d)
        \/ RemoveNext
        \/ \E e \in Events(calendar) : Remove(e.uid)

Spec == Init /\ [][Next]_vars

-----------------------------------------------------------------------------
\* The variables have their types.
TypeOK ==
  /\ LET n == Days(calendar) IN
       /\ n > 0
       /\ calendar \in [buckets : [0..n - 1 -> SUBSET Event], width : Nat \ {0},
                        lastPrio : Nat, lastBucket : 0..n - 1, bucketTop : Nat]
  /\ qSize \in Nat /\ uid \in Nat /\ now \in Nat
  /\ next \in Event

\* Every event is in the bucket of its day, where Remove looks for it, after
\* any number of resizes, and the size is the number of events.
FiledByDay ==
  /\ \A i \in Bucket(calendar), e \in Events(calendar) :
       e \in calendar.buckets[i] <=> i = Hash(calendar, e.ts)
  /\ qSize = Cardinality(Events(calendar))

\* The search starts at the day of the last event removed, and nothing in the
\* calendar lies before that event.
NothingBehind ==
  /\ calendar.lastBucket = Hash(calendar, calendar.lastPrio)
  /\ calendar.bucketTop = EndOfDay(calendar.lastPrio, calendar.width)
  /\ \A e \in Events(calendar) : e.ts >= calendar.lastPrio

\* The calendar implements the event list.
List == INSTANCE Scheduler WITH queue <- Events(calendar)

ImplementsScheduler == List!SchedulerSpec
=============================================================================
