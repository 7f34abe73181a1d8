---------------------- MODULE DefaultSimulator_proofs ----------------------
(***************************************************************************)
(* Theorems about DefaultSimulator, for any nodes, delays and number of    *)
(* lives.                                                                  *)
(*                                                                         *)
(* The argument about the references counts: the occurrences of an         *)
(* EventImpl in the queue, in the list of other threads' events, in the    *)
(* list of destroy events and in the hands of the main thread.  Every      *)
(* action moves one occurrence from one place to another, or makes or ends *)
(* one together with its reference, but for the deletion of the object:    *)
(* what is in the list of other threads' events then is counted as leaked. *)
(*                                                                         *)
(* The argument about what is executed, and in which order, is that the    *)
(* lists are disjoint and that an EventImpl leaves them for good.          *)
(***************************************************************************)
EXTENDS DefaultSimulator, FiniteSetTheorems, SequenceTheorems, TLAPS

InQueue(set, i) == {e \in set : e.impl = i}
InList(s, i) == {k \in DOMAIN s : s[k].impl = i}
InHand(i) == IF running = i THEN 1 ELSE 0

\* The main thread has an EventImpl in its hands while it invokes it only.
HandsOK == /\ phase \in {"ready", "loop", "destroying", "disposing", "deleted"}
                => running = 0
           /\ life >= 1

\* Until DoDispose empties the queue.
Living == phase \notin {"disposing", "deleted"}

\* In the first life an EventId leads to an entry of the queue, or its time has
\* passed, or its EventImpl was cancelled; so Remove finds what it looks for.
HandlesOK ==
  life = 1 /\ Living =>
    \A id \in handles :
      \/ id.uid = DestroyUid
      \/ id \in events
      \/ id.ts < currentTs
      \/ id.ts = currentTs /\ id.uid <= currentUid
      \/ id.impl \in cancelled

QueueOK == QueueAhead /\ IsFiniteSet(events) /\ CountsTheQueue

\* Each call of another thread is in the list once.
DistinctWaiting ==
  \A j, k \in DOMAIN eventsWithContext :
    eventsWithContext[j].impl = eventsWithContext[k].impl => j = k

\* What is in the list of other threads' events came too late exactly when the
\* queue is being disposed of; a deleted object has neither queue nor list.
LateOK ==
  /\ \A i \in late : i <= impls
  /\ \A k \in DOMAIN eventsWithContext :
       /\ eventsWithContext[k].impl <= impls
       /\ eventsWithContext[k].impl \in late <=> phase = "disposing"
  /\ DistinctWaiting
  /\ phase = "deleted" => events = {} /\ eventsWithContext = <<>>

\* RefsMatchEntries, place by place.
Lost(i) == IF i \in Leaked THEN 1 ELSE 0
RefsOK ==
  \A i \in ImplId :
    refs[i] = Cardinality(InQueue(events, i))
              + Cardinality(InList(eventsWithContext, i))
              + Cardinality(InList(destroyEvents, i)) + InHand(i) + Lost(i)

IInv == /\ TypeOK /\ QueueOK /\ HandsOK /\ HandlesOK /\ NoFault
        /\ LateOK /\ RefsOK

ContextItem == [ctx : Node, delay : Nat, impl : Nat]

-----------------------------------------------------------------------------
\* Lists and their occurrences.

LEMMA InListFinite ==
  ASSUME NEW T, NEW s \in Seq(T), NEW i
  PROVE  IsFiniteSet(InList(s, i)) /\ Cardinality(InList(s, i)) \in Nat
<1>1. DOMAIN s = 1..Len(s) /\ Len(s) \in Nat
  OBVIOUS
<1>2. IsFiniteSet(1..Len(s))
  BY <1>1, FS_Interval
<1>3. InList(s, i) \in SUBSET (1..Len(s))
  BY <1>1 DEF InList
<1>4. IsFiniteSet(InList(s, i))
  BY <1>2, <1>3, FS_Subset
<1> QED  BY <1>4, FS_CardinalityType

LEMMA InQueueFinite ==
  ASSUME NEW S, IsFiniteSet(S), NEW i
  PROVE  IsFiniteSet(InQueue(S, i)) /\ Cardinality(InQueue(S, i)) \in Nat
<1>1. InQueue(S, i) \in SUBSET S
  BY DEF InQueue
<1>2. IsFiniteSet(InQueue(S, i))
  BY <1>1, FS_Subset
<1> QED  BY <1>2, FS_CardinalityType

LEMMA InQueueAdds ==
  ASSUME NEW S, IsFiniteSet(S), NEW e, e \notin S, NEW i
  PROVE  Cardinality(InQueue(S \cup {e}, i)) =
           Cardinality(InQueue(S, i)) + IF e.impl = i THEN 1 ELSE 0
<1>1. IsFiniteSet(InQueue(S, i)) /\ Cardinality(InQueue(S, i)) \in Nat
  BY InQueueFinite
<1>2. CASE e.impl = i
  <2>1. InQueue(S \cup {e}, i) = InQueue(S, i) \cup {e} /\ e \notin InQueue(S, i)
    BY <1>2 DEF InQueue
  <2>2. Cardinality(InQueue(S, i) \cup {e}) = Cardinality(InQueue(S, i)) + 1
    BY <1>1, <2>1, FS_AddElement
  <2> QED  BY <1>2, <2>1, <2>2
<1>3. CASE e.impl # i
  <2>1. InQueue(S \cup {e}, i) = InQueue(S, i)
    BY <1>3 DEF InQueue
  <2> QED  BY <1>1, <1>3, <2>1
<1> QED  BY <1>2, <1>3

LEMMA InQueueRemoves ==
  ASSUME NEW S, IsFiniteSet(S), NEW e \in S, NEW i
  PROVE  Cardinality(InQueue(S \ {e}, i)) =
           Cardinality(InQueue(S, i)) - IF e.impl = i THEN 1 ELSE 0
<1>1. IsFiniteSet(InQueue(S, i)) /\ Cardinality(InQueue(S, i)) \in Nat
  BY InQueueFinite
<1>2. CASE e.impl = i
  <2>1. InQueue(S \ {e}, i) = InQueue(S, i) \ {e} /\ e \in InQueue(S, i)
    BY <1>2 DEF InQueue
  <2>2. Cardinality(InQueue(S, i) \ {e}) = Cardinality(InQueue(S, i)) - 1
    BY <1>1, <2>1, FS_RemoveElement
  <2> QED  BY <1>2, <2>1, <2>2
<1>3. CASE e.impl # i
  <2>1. InQueue(S \ {e}, i) = InQueue(S, i)
    BY <1>3 DEF InQueue
  <2> QED  BY <1>1, <1>3, <2>1
<1> QED  BY <1>2, <1>3

LEMMA InListAppends ==
  ASSUME NEW T, NEW s \in Seq(T), NEW x \in T, NEW i
  PROVE  Cardinality(InList(Append(s, x), i)) =
           Cardinality(InList(s, i)) + IF x.impl = i THEN 1 ELSE 0
<1> DEFINE n == Len(s) + 1
           t == Append(s, x)
<1>1. /\ DOMAIN s = 1..Len(s) /\ Len(s) \in Nat
      /\ DOMAIN t = 1..n
      /\ t[n] = x
      /\ \A k \in 1..Len(s) : t[k] = s[k]
  OBVIOUS
<1>2. IsFiniteSet(InList(s, i)) /\ Cardinality(InList(s, i)) \in Nat
  BY InListFinite
<1> HIDE DEF t
<1>3. n \notin InList(s, i) /\ 1..n = 1..Len(s) \cup {n}
  BY <1>1 DEF InList
<1>4. CASE x.impl = i
  <2>1. InList(t, i) = InList(s, i) \cup {n}
    BY <1>1, <1>3, <1>4 DEF InList
  <2>2. Cardinality(InList(s, i) \cup {n}) = Cardinality(InList(s, i)) + 1
    BY <1>2, <1>3, FS_AddElement
  <2> QED  BY <1>4, <2>1, <2>2 DEF t
<1>5. CASE x.impl # i
  <2>1. InList(t, i) = InList(s, i)
    BY <1>1, <1>3, <1>5 DEF InList
  <2> QED  BY <1>2, <1>5, <2>1 DEF t
<1> QED  BY <1>4, <1>5

\* The list t is the list s without its k-th element.
Erased(s, t, k) ==
  /\ k \in 1..Len(s)
  /\ Len(t) = Len(s) - 1
  /\ \A j \in 1..Len(t) : t[j] = IF j < k THEN s[j] ELSE s[j + 1]

LEMMA InListErases ==
  ASSUME NEW T, NEW s \in Seq(T), NEW t \in Seq(T), NEW k, Erased(s, t, k), NEW i
  PROVE  Cardinality(InList(t, i)) =
           Cardinality(InList(s, i)) - IF s[k].impl = i THEN 1 ELSE 0
<1> DEFINE From == InList(t, i)
           To == InList(s, i) \ {k}
           f == [j \in From |-> IF j < k THEN j ELSE j + 1]
<1>1. /\ DOMAIN s = 1..Len(s) /\ Len(s) \in Nat
      /\ DOMAIN t = 1..Len(t) /\ Len(t) = Len(s) - 1
      /\ k \in 1..Len(s)
      /\ \A j \in 1..Len(t) : t[j] = IF j < k THEN s[j] ELSE s[j + 1]
  BY DEF Erased
<1>2. From \subseteq 1..Len(t) /\ To \subseteq 1..Len(s)
  BY <1>1 DEF InList
<1>3. \A j \in From : (IF j < k THEN j ELSE j + 1) \in To
  BY <1>1 DEF InList
<1>4. \A m \in To : (IF m < k THEN m ELSE m - 1) \in From
  BY <1>1 DEF InList
<1> HIDE DEF From, To
<1>5. f \in [From -> To]
  BY <1>3
<1>6. \A a, b \in From : f[a] = f[b] => a = b
  BY <1>1, <1>2
<1>7. \A m \in To : \E j \in From : f[j] = m
  <2> SUFFICES ASSUME NEW m \in To PROVE \E j \in From : f[j] = m
    OBVIOUS
  <2>1. m \in 1..Len(s) /\ m # k
    BY <1>2 DEF To
  <2>2. CASE m < k
    BY <1>4, <2>2
  <2>3. CASE ~(m < k)
    <3>1. m - 1 \in From
      BY <1>4, <2>3
    <3>2. ~(m - 1 < k) /\ m - 1 + 1 = m
      BY <1>1, <2>1, <2>3
    <3>3. f[m - 1] = m
      BY <3>1, <3>2
    <3> QED  BY <3>1, <3>3
  <2> QED  BY <2>2, <2>3
<1> HIDE DEF f
<1>8. f \in Bijection(From, To)
  BY <1>5, <1>6, <1>7 DEF Bijection, Injection, Surjection, IsInjective
<1>9. IsFiniteSet(From)
  BY InListFinite DEF From
<1>10. Cardinality(To) = Cardinality(From)
  BY <1>8, <1>9, FS_Bijection DEF ExistsBijection
<1>11. IsFiniteSet(InList(s, i)) /\ Cardinality(InList(s, i)) \in Nat
  BY InListFinite
<1>12. Cardinality(To) = IF k \in InList(s, i) THEN Cardinality(InList(s, i)) - 1
                         ELSE Cardinality(InList(s, i))
  BY <1>11, FS_RemoveElement DEF To
<1>13. k \in InList(s, i) <=> s[k].impl = i
  BY <1>1 DEF InList
<1> QED  BY <1>10, <1>11, <1>12, <1>13 DEF From

LEMMA TailErases ==
  ASSUME NEW T, NEW s \in Seq(T), s # <<>>
  PROVE  Tail(s) \in Seq(T) /\ Erased(s, Tail(s), 1)
<1>1. /\ Tail(s) \in Seq(T)
      /\ Len(Tail(s)) = Len(s) - 1
      /\ \A j \in 1..Len(Tail(s)) : Tail(s)[j] = s[j + 1]
      /\ Len(s) \in Nat \ {0}
  BY HeadTailProperties
<1> QED  BY <1>1 DEF Erased

LEMMA RemoveAtErases ==
  ASSUME NEW T, NEW s \in Seq(T), NEW k \in 1..Len(s)
  PROVE  /\ SeqExt!RemoveAt(s, k) \in Seq(T)
         /\ Erased(s, SeqExt!RemoveAt(s, k), k)
<1> DEFINE a == SubSeq(s, 1, k - 1)
           b == SubSeq(s, k + 1, Len(s))
<1>1. k \in Nat /\ k >= 1 /\ k <= Len(s) /\ Len(s) \in Nat
  OBVIOUS
<1>2. /\ a \in Seq(T) /\ Len(a) = k - 1
      /\ \A j \in 1..(k - 1) : a[j] = s[j]
  <2>1. \A j \in 1..(k - 1) : j \in 1..Len(s)
    BY <1>1
  <2> QED  BY <1>1, <2>1, SubSeqProperties
<1>3. /\ b \in Seq(T) /\ Len(b) = Len(s) - k
      /\ \A j \in 1..(Len(s) - k) : b[j] = s[k + j]
  <2>1. k + 1 \in 1..(Len(s) + 1) /\ Len(s) \in k..Len(s)
    BY <1>1
  <2> QED  BY <1>1, <2>1, SubSeqProperties
<1> HIDE DEF a, b
<1>4. /\ a \o b \in Seq(T)
      /\ Len(a \o b) = Len(a) + Len(b)
      /\ \A j \in 1..(Len(a) + Len(b)) :
           (a \o b)[j] = IF j <= Len(a) THEN a[j] ELSE b[j - Len(a)]
  BY <1>2, <1>3, ConcatProperties
<1>5. /\ Len(a \o b) = Len(s) - 1
      /\ \A j \in 1..Len(a \o b) : (a \o b)[j] = IF j < k THEN s[j] ELSE s[j + 1]
  <2>1. Len(a) + Len(b) = Len(s) - 1
    BY <1>1, <1>2, <1>3
  <2>2. ASSUME NEW j \in 1..(Len(s) - 1), j < k
        PROVE  (a \o b)[j] = s[j]
    <3>1. j <= Len(a) /\ j \in 1..(k - 1)
      BY <1>1, <1>2, <2>2
    <3> QED  BY <1>2, <1>4, <2>1, <3>1
  <2>3. ASSUME NEW j \in 1..(Len(s) - 1), ~(j < k)
        PROVE  (a \o b)[j] = s[j + 1]
    <3>1. /\ ~(j <= Len(a))
          /\ j - Len(a) \in 1..(Len(s) - k)
          /\ k + (j - Len(a)) = j + 1
      BY <1>1, <1>2, <2>3
    <3>2. (a \o b)[j] = b[j - Len(a)]
      BY <1>4, <2>1, <3>1
    <3> QED  BY <1>3, <3>1, <3>2
  <2> QED  BY <1>4, <2>1, <2>2, <2>3
<1>6. SeqExt!RemoveAt(s, k) = a \o b
  BY DEF SeqExt!RemoveAt, a, b
<1> QED  BY <1>1, <1>4, <1>5, <1>6 DEF Erased

-----------------------------------------------------------------------------
\* The batch of other threads' events: new uids in a row, due from now on, and
\* one entry per item of the list.
BatchEntry(i) == [uid  |-> uid + i - 1,
                  ts   |-> currentTs + eventsWithContext[i].delay,
                  ctx  |-> eventsWithContext[i].ctx,
                  impl |-> eventsWithContext[i].impl]

LEMMA BatchEntryFacts ==
  ASSUME TypeOK, NEW i \in 1..Len(eventsWithContext)
  PROVE  /\ BatchEntry(i) \in EventId
         /\ BatchEntry(i).uid = uid + i - 1
         /\ BatchEntry(i).ts >= currentTs
         /\ BatchEntry(i).impl = eventsWithContext[i].impl
<1>1. eventsWithContext \in Seq(ContextItem) /\ i \in Nat /\ i >= 1
  BY DEF TypeOK, ContextItem
<1>2. eventsWithContext[i] \in ContextItem
  BY <1>1
<1>3. /\ eventsWithContext[i].delay \in Nat
      /\ eventsWithContext[i].ctx \in Context
      /\ eventsWithContext[i].impl \in Nat
  BY <1>2 DEF ContextItem, Context
<1>4. uid + i - 1 \in Nat /\ currentTs + eventsWithContext[i].delay \in Nat
      /\ currentTs + eventsWithContext[i].delay >= currentTs
  <2>1. uid \in Nat /\ currentTs \in Nat
    BY DEF TypeOK
  <2> QED  BY <1>1, <1>3, <2>1
<1> QED  BY <1>3, <1>4 DEF BatchEntry, EventId

LEMMA BatchFacts ==
  ASSUME TypeOK, QueueOK
  PROVE  /\ Len(eventsWithContext) \in Nat
         /\ Batch \subseteq EventId
         /\ \A e \in Batch : /\ e.uid >= uid
                             /\ e.uid < uid + Len(eventsWithContext)
                             /\ e.ts >= currentTs
         /\ \A e, f \in Batch : e.uid = f.uid => e = f
         /\ IsFiniteSet(events \cup Batch)
         /\ Cardinality(events \cup Batch) =
              Cardinality(events) + Len(eventsWithContext)
         /\ events \cap Batch = {}
<1> DEFINE n == Len(eventsWithContext)
           f == [i \in 1..n |-> BatchEntry(i)]
<1>1. n \in Nat /\ DOMAIN eventsWithContext = 1..n
  BY DEF TypeOK
<1>2. Batch = {BatchEntry(i) : i \in 1..n}
  BY <1>1 DEF Batch, BatchEntry
<1>3. uid \in Nat /\ \A e \in events : e.uid \in Nat /\ e.uid < uid
  BY DEF TypeOK, EventId, QueueOK, QueueAhead
<1>4. \A i \in 1..n : /\ BatchEntry(i) \in EventId
                      /\ BatchEntry(i).uid = uid + i - 1
                      /\ BatchEntry(i).ts >= currentTs
  BY BatchEntryFacts
<1> HIDE DEF n
<1>5. /\ Batch \subseteq EventId
      /\ \A e \in Batch : e.uid >= uid /\ e.uid < uid + n /\ e.ts >= currentTs
  BY <1>1, <1>2, <1>3, <1>4
<1>6. \A i, j \in 1..n : BatchEntry(i).uid = BatchEntry(j).uid => i = j
  BY <1>1, <1>3, <1>4
<1>7. \A e, g \in Batch : e.uid = g.uid => e = g
  BY <1>2, <1>6
<1>8. f \in Bijection(1..n, Batch)
  BY <1>2, <1>6 DEF Bijection, Injection, Surjection, IsInjective
<1>9. IsFiniteSet(1..n) /\ Cardinality(1..n) = n
  <2>1. /\ IsFiniteSet(1..n)
        /\ Cardinality(1..n) = IF 1 > n THEN 0 ELSE n - 1 + 1
    BY <1>1, FS_Interval
  <2> QED  BY <1>1, <2>1
<1>10. IsFiniteSet(Batch) /\ Cardinality(Batch) = n
  BY <1>8, <1>9, FS_Bijection DEF ExistsBijection
<1>11. events \cap Batch = {}
  BY <1>3, <1>5
<1>12. IsFiniteSet(events) /\ Cardinality(events) \in Nat
  BY FS_CardinalityType DEF QueueOK
<1>13. /\ IsFiniteSet(events \cup Batch)
       /\ Cardinality(events \cup Batch) =
            Cardinality(events) + Cardinality(Batch) - Cardinality(events \cap Batch)
  BY <1>10, <1>12, FS_Union
<1>14. Cardinality(events \cap Batch) = 0
  BY <1>11, FS_EmptySet
<1> QED
  BY <1>1, <1>5, <1>7, <1>10, <1>11, <1>12, <1>13, <1>14 DEF n

LEMMA BatchOccurrences ==
  ASSUME TypeOK, QueueOK, NEW i
  PROVE  Cardinality(InQueue(events \cup Batch, i)) =
           Cardinality(InQueue(events, i))
           + Cardinality(InList(eventsWithContext, i))
<1> DEFINE n == Len(eventsWithContext)
           From == InList(eventsWithContext, i)
           To == InQueue(Batch, i)
           f == [k \in From |-> BatchEntry(k)]
<1>1. n \in Nat /\ DOMAIN eventsWithContext = 1..n
  BY DEF TypeOK
<1>2. Batch = {BatchEntry(k) : k \in 1..n}
  BY <1>1 DEF Batch, BatchEntry
<1>3. uid \in Nat
  BY DEF TypeOK
<1>4. \A k \in 1..n : /\ BatchEntry(k).uid = uid + k - 1
                      /\ BatchEntry(k).impl = eventsWithContext[k].impl
  BY BatchEntryFacts
<1> HIDE DEF n
<1>5. From \subseteq 1..n
  BY <1>1 DEF InList
<1>6. \A k, l \in 1..n : BatchEntry(k).uid = BatchEntry(l).uid => k = l
  BY <1>1, <1>3, <1>4
<1>7. To = {BatchEntry(k) : k \in From}
  BY <1>1, <1>2, <1>4 DEF InQueue, InList
<1> HIDE DEF From, To
<1>8. f \in Bijection(From, To)
  BY <1>5, <1>6, <1>7 DEF Bijection, Injection, Surjection, IsInjective
<1>9. IsFiniteSet(From) /\ Cardinality(From) \in Nat
  <2>1. eventsWithContext \in Seq(ContextItem)
    BY DEF TypeOK, ContextItem
  <2>2. /\ IsFiniteSet(InList(eventsWithContext, i))
        /\ Cardinality(InList(eventsWithContext, i)) \in Nat
    BY <2>1, InListFinite
  <2> QED  BY <2>2 DEF From
<1>10. IsFiniteSet(To) /\ Cardinality(To) = Cardinality(From)
  BY <1>8, <1>9, FS_Bijection DEF ExistsBijection
<1>11. /\ IsFiniteSet(InQueue(events, i))
       /\ Cardinality(InQueue(events, i)) \in Nat
  BY InQueueFinite DEF QueueOK
<1>12. /\ InQueue(events \cup Batch, i) = InQueue(events, i) \cup To
       /\ InQueue(events, i) \cap To = {}
  BY BatchFacts DEF InQueue, To
<1>13. Cardinality(InQueue(events, i) \cup To) =
         Cardinality(InQueue(events, i)) + Cardinality(To)
           - Cardinality(InQueue(events, i) \cap To)
  BY <1>10, <1>11, FS_Union
<1>14. Cardinality(InQueue(events, i) \cap To) = 0
  BY <1>12, FS_EmptySet
<1>15. Cardinality(InQueue(events, i) \cup To) =
         Cardinality(InQueue(events, i)) + Cardinality(From)
  <2> HIDE DEF f
  <2> QED  BY <1>9, <1>10, <1>11, <1>13, <1>14
<1>16. Cardinality(InQueue(events \cup Batch, i)) =
         Cardinality(InQueue(events, i)) + Cardinality(From)
  <2> HIDE DEF f
  <2> QED  BY <1>12, <1>15
<1> QED  BY <1>16 DEF From

LEMMA ProcessEventsWithContextQueue ==
  ASSUME TypeOK, QueueOK, Living, ProcessEventsWithContext,
         UNCHANGED <<currentUid, currentTs>>
  PROVE  /\ QueueOK'
         /\ events' \subseteq EventId /\ uid' \in Nat
         /\ unscheduledEvents' \in Int
         /\ eventsWithContext' \in Seq(ContextItem)
         /\ events \subseteq events'
<1> DEFINE n == Len(eventsWithContext)
<1>1. /\ events' = events \cup Batch
      /\ uid' = uid + n
      /\ unscheduledEvents' = unscheduledEvents + n
      /\ eventsWithContext' = <<>>
  BY DEF ProcessEventsWithContext
<1>2. /\ n \in Nat
      /\ Batch \subseteq EventId
      /\ \A e \in Batch : e.uid >= uid /\ e.uid < uid + n /\ e.ts >= currentTs
      /\ \A e, f \in Batch : e.uid = f.uid => e = f
      /\ IsFiniteSet(events \cup Batch)
      /\ Cardinality(events \cup Batch) = Cardinality(events) + n
  BY BatchFacts
<1> HIDE DEF n
<1>3. /\ uid \in Nat /\ currentUid \in Nat /\ currentTs \in Nat
      /\ unscheduledEvents = Cardinality(events) /\ unscheduledEvents \in Int
      /\ \A e \in events \cup Batch : e.uid \in Nat /\ e.ts \in Nat
      /\ events \subseteq EventId
  BY <1>2 DEF TypeOK, EventId, QueueOK, CountsTheQueue, Living
<1>4. /\ currentUid < uid
      /\ \A e \in events :
           /\ e.uid < uid
           /\ e.ts > currentTs \/ (e.ts = currentTs /\ e.uid > currentUid)
      /\ \A e, f \in events : e.uid = f.uid => e = f
  BY DEF QueueOK, QueueAhead
<1>5. /\ currentUid < uid + n
      /\ \A e \in events \cup Batch :
           /\ e.uid < uid + n
           /\ e.ts > currentTs \/ (e.ts = currentTs /\ e.uid > currentUid)
  BY <1>2, <1>3, <1>4
<1>6. \A e, f \in events \cup Batch : e.uid = f.uid => e = f
  BY <1>2, <1>3, <1>4
<1>7. QueueAhead'
  BY <1>1, <1>5, <1>6 DEF QueueAhead
<1>8. IsFiniteSet(events') /\ CountsTheQueue'
  BY <1>1, <1>2, <1>3 DEF CountsTheQueue
<1> QED  BY <1>1, <1>2, <1>3, <1>7, <1>8 DEF QueueOK

\* A counter per EventImpl stays one when one of them changes.
LEMMA CounterType ==
  ASSUME NEW S, NEW f \in [S -> Int], NEW k
  PROVE  /\ [f EXCEPT ![k] = @ + 1] \in [S -> Int]
         /\ [f EXCEPT ![k] = @ - 1] \in [S -> Int]
<1>1. \A x \in S : f[x] + 1 \in Int /\ f[x] - 1 \in Int
  OBVIOUS
<1> QED  BY <1>1

\* A new entry has the next uid and is not due before the current time.
LEMMA InsertQueue ==
  ASSUME TypeOK, QueueOK, Living,
         NEW e \in EventId, e.uid = uid, e.ts >= currentTs, InsertEvent(e),
         UNCHANGED <<currentUid, currentTs>>
  PROVE  /\ QueueOK'
         /\ events' = events \cup {e} /\ e \notin events
         /\ events' \subseteq EventId /\ uid' \in Nat
         /\ unscheduledEvents' \in Int
         /\ refs' \in [ImplId -> Int]
<1>1. /\ events' = events \cup {e}
      /\ refs' = [refs EXCEPT ![e.impl] = @ + 1]
      /\ uid' = uid + 1
      /\ unscheduledEvents' = unscheduledEvents + 1
  BY DEF InsertEvent
<1>2. /\ uid \in Nat /\ currentUid \in Nat /\ currentTs \in Nat
      /\ unscheduledEvents \in Int /\ e.ts \in Nat
      /\ \A f \in events : f.uid \in Nat /\ f.ts \in Nat
  BY DEF TypeOK, EventId
<1>3. e \notin events
  BY <1>2 DEF QueueOK, QueueAhead
<1>4. QueueAhead'
  BY <1>1, <1>2 DEF QueueOK, QueueAhead
<1>5. IsFiniteSet(events') /\ Cardinality(events') = Cardinality(events) + 1
  BY <1>1, <1>3, FS_AddElement DEF QueueOK
<1>6. CountsTheQueue'
  BY <1>1, <1>5 DEF QueueOK, CountsTheQueue, Living
<1>7. refs' \in [ImplId -> Int]
  <2>1. refs \in [ImplId -> Int]
    BY DEF TypeOK
  <2>2. refs' = [refs EXCEPT ![e.impl] = @ + 1]
    BY <1>1
  <2> QED  BY <2>1, <2>2, CounterType
<1>8. events' \subseteq EventId /\ uid' \in Nat /\ unscheduledEvents' \in Int
  BY <1>1, <1>2 DEF TypeOK
<1> QED  BY <1>1, <1>3, <1>4, <1>5, <1>6, <1>7, <1>8 DEF QueueOK

LEMMA TakeOutQueue ==
  ASSUME TypeOK, QueueOK, Living, NEW e \in events, TakeOut(e)
  PROVE  /\ events' = events \ {e} /\ events' \subseteq EventId
         /\ unscheduledEvents' \in Int
         /\ IsFiniteSet(events') /\ CountsTheQueue'
<1>1. /\ events' = events \ {e}
      /\ unscheduledEvents' = unscheduledEvents - 1
  BY DEF TakeOut
<1>2. IsFiniteSet(events') /\ Cardinality(events') = Cardinality(events) - 1
  BY <1>1, FS_RemoveElement DEF QueueOK
<1>3. events' \subseteq EventId /\ unscheduledEvents' \in Int
  BY <1>1 DEF TypeOK
<1> QED  BY <1>1, <1>2, <1>3 DEF QueueOK, CountsTheQueue, Living

-----------------------------------------------------------------------------
LEMMA CounterValue ==
  ASSUME NEW S, NEW f \in [S -> Int], NEW k, NEW x \in S
  PROVE  /\ [f EXCEPT ![k] = @ + 1][x] = f[x] + IF x = k THEN 1 ELSE 0
         /\ [f EXCEPT ![k] = @ - 1][x] = f[x] - IF x = k THEN 1 ELSE 0
<1>1. f[x] \in Int
  OBVIOUS
<1> QED  BY <1>1

LEMMA CountType ==
  ASSUME TypeOK, QueueOK, NEW i
  PROVE  /\ Cardinality(InQueue(events, i)) \in Nat
         /\ Cardinality(InList(eventsWithContext, i)) \in Nat
         /\ Cardinality(InList(destroyEvents, i)) \in Nat
         /\ InHand(i) \in Nat /\ Lost(i) \in Nat
<1>1. Cardinality(InQueue(events, i)) \in Nat
  BY InQueueFinite DEF QueueOK
<1>2. eventsWithContext \in Seq(ContextItem) /\ destroyEvents \in Seq(EventId)
  BY DEF TypeOK, ContextItem
<1>3. /\ Cardinality(InList(eventsWithContext, i)) \in Nat
      /\ Cardinality(InList(destroyEvents, i)) \in Nat
  BY <1>2, InListFinite
<1> QED  BY <1>1, <1>3 DEF InHand, Lost

LEMMA EmptyCounts ==
  ASSUME NEW i
  PROVE  Cardinality(InQueue({}, i)) = 0 /\ Cardinality(InList(<<>>, i)) = 0
<1>1. InQueue({}, i) = {} /\ InList(<<>>, i) = {}
  BY DEF InQueue, InList
<1> QED  BY <1>1, FS_EmptySet

\* What a step leaves alone.
LEMMA QueueSame ==
  ASSUME QueueOK, UNCHANGED <<queueVars, currentUid, currentTs>>,
         Living' => Living
  PROVE  QueueOK'
BY DEF QueueOK, QueueAhead, CountsTheQueue, queueVars, Living

LEMMA HandlesSame ==
  ASSUME HandlesOK, UNCHANGED <<events, currentUid, currentTs, life, handles>>,
         cancelled \subseteq cancelled', Living' => Living
  PROVE  HandlesOK'
BY DEF HandlesOK

LEMMA RefsSame ==
  ASSUME RefsOK, UNCHANGED <<events, eventsWithContext, destroyEvents, running,
                             refs, Leaked>>
  PROVE  RefsOK'
BY DEF RefsOK, InQueue, InList, InHand, Lost

\* The EventImpls of the list, and of those that came too late, are numbers.
LEMMA LateNumbers ==
  ASSUME TypeOK
  PROVE  /\ impls \in Nat /\ late \subseteq Nat
         /\ \A k \in DOMAIN eventsWithContext : eventsWithContext[k].impl \in Nat
<1>1. eventsWithContext \in Seq(ContextItem)
  BY DEF TypeOK, ContextItem
<1>2. \A k \in DOMAIN eventsWithContext : eventsWithContext[k] \in ContextItem
  BY <1>1
<1> QED  BY <1>2 DEF ContextItem, TypeOK

\* Nothing comes too late before DoDispose has emptied the list.
LEMMA LateSame ==
  ASSUME TypeOK, LateOK, UNCHANGED <<eventsWithContext, late>>,
         impls' \in {impls, impls + 1}, Living, Living'
  PROVE  LateOK' /\ UNCHANGED Leaked
<1>1. /\ impls \in Nat /\ late \subseteq Nat
      /\ \A k \in DOMAIN eventsWithContext : eventsWithContext[k].impl \in Nat
  BY LateNumbers
<1>2. /\ \A i \in late : i <= impls'
      /\ \A k \in DOMAIN eventsWithContext : eventsWithContext[k].impl <= impls'
  BY <1>1 DEF LateOK
<1> QED  BY <1>2 DEF LateOK, DistinctWaiting, Leaked, Living

LEMMA LateTakeIn ==
  ASSUME LateOK, Living, eventsWithContext' = <<>>, UNCHANGED <<impls, late>>,
         phase' # "deleted"
  PROVE  LateOK' /\ UNCHANGED Leaked
<1>1. Leaked = late
  BY DEF LateOK, Living, Leaked
<1>2. DOMAIN eventsWithContext' = {}
  OBVIOUS
<1>3. Leaked' = late
  BY <1>2 DEF Leaked
<1>4. LateOK'
  BY <1>2 DEF LateOK, DistinctWaiting
<1> QED  BY <1>1, <1>3, <1>4

-----------------------------------------------------------------------------
\* The calls that insert an entry.
LEMMA CallInserts ==
  ASSUME IInv, Living, NEW e \in EventId, e.uid = uid, e.ts >= currentTs,
         InsertEvent(e), impls' = impls + 1,
         handles' \in {handles, handles \cup {e}},
         UNCHANGED <<destroyEvents, currentVars, stop, eventsWithContext, life,
           cancelled, phase, running, fault, ran, revoked, disposed, late>>
  PROVE  IInv'
<1> USE DEF IInv
<1>1. UNCHANGED <<currentUid, currentTs, currentContext>>
  BY DEF currentVars
<1>2. /\ QueueOK'
      /\ events' = events \cup {e} /\ e \notin events
      /\ events' \subseteq EventId /\ uid' \in Nat
      /\ unscheduledEvents' \in Int
      /\ refs' \in [ImplId -> Int]
  BY <1>1, InsertQueue
<1>3. TypeOK'
  <2>1. handles' \subseteq EventId /\ impls' \in Nat
    BY DEF TypeOK
  <2> QED  BY <1>1, <1>2, <2>1 DEF TypeOK
<1>4. HandsOK' /\ NoFault' /\ LateOK' /\ UNCHANGED Leaked
  BY LateSame DEF HandsOK, NoFault, Living
<1>5. HandlesOK'
  BY <1>1, <1>2 DEF HandlesOK, Living
<1>6. RefsOK'
  <2> SUFFICES ASSUME NEW i \in ImplId
               PROVE  refs'[i] = Cardinality(InQueue(events', i))
                        + Cardinality(InList(eventsWithContext, i))
                        + Cardinality(InList(destroyEvents, i)) + InHand(i) + Lost(i)
    BY <1>4 DEF RefsOK, InHand, InList, InQueue, Lost
  <2>1. refs \in [ImplId -> Int] /\ refs' = [refs EXCEPT ![e.impl] = @ + 1]
    BY DEF TypeOK, InsertEvent
  <2>2. refs'[i] = refs[i] + IF i = e.impl THEN 1 ELSE 0
    BY <2>1, CounterValue
  <2>3. Cardinality(InQueue(events', i)) =
          Cardinality(InQueue(events, i)) + IF e.impl = i THEN 1 ELSE 0
    BY <1>2, InQueueAdds DEF QueueOK
  <2>4. refs[i] = Cardinality(InQueue(events, i))
                    + Cardinality(InList(eventsWithContext, i))
                    + Cardinality(InList(destroyEvents, i)) + InHand(i) + Lost(i)
    BY DEF RefsOK
  <2> QED  BY <2>2, <2>3, <2>4, CountType
<1> QED  BY <1>2, <1>3, <1>4, <1>5, <1>6

LEMMA ScheduleAtStep ==
  ASSUME IInv, NEW d \in Nat, ScheduleAt(currentTs + d)
  PROVE  IInv'
<1> DEFINE e == [uid |-> uid, ts |-> currentTs + d, ctx |-> currentContext,
                 impl |-> impls + 1]
<1>1. e \in EventId /\ e.uid = uid /\ e.ts >= currentTs
  BY DEF IInv, TypeOK, EventId
<1>2. /\ InsertEvent(e) /\ impls' = impls + 1 /\ handles' = handles \cup {e}
      /\ UNCHANGED <<destroyEvents, currentVars, stop, eventsWithContext, life,
           cancelled, phase, running, fault, ran, revoked, disposed, late>>
      /\ Living
  BY DEF ScheduleAt, CallerRuns, Living
<1> HIDE DEF e
<1> QED  BY <1>1, <1>2, CallInserts

LEMMA ScheduleStep == IInv /\ (Schedule \/ ScheduleNow) => IInv'
<1> SUFFICES ASSUME IInv, Schedule \/ ScheduleNow PROVE IInv'
  OBVIOUS
<1>1. currentTs + 0 = currentTs
  BY DEF IInv, TypeOK
<1>2. \E d \in Nat : ScheduleAt(currentTs + d)
  <2>1. CASE Schedule
    BY <2>1, DelayAssumption DEF Schedule
  <2>2. CASE ScheduleNow
    BY <1>1, <2>2 DEF ScheduleNow
  <2> QED  BY <2>1, <2>2
<1> QED  BY <1>2, ScheduleAtStep

LEMMA ScheduleWithContextStep == IInv /\ ScheduleWithContext => IInv'
<1> SUFFICES ASSUME IInv, ScheduleWithContext PROVE IInv'
  OBVIOUS
<1>1. PICK ctx \in Node, d \in Delay :
        InsertEvent([uid |-> uid, ts |-> currentTs + d, ctx |-> ctx,
                     impl |-> impls + 1])
  BY DEF ScheduleWithContext
<1> DEFINE e == [uid |-> uid, ts |-> currentTs + d, ctx |-> ctx,
                 impl |-> impls + 1]
<1>2. e \in EventId /\ e.uid = uid /\ e.ts >= currentTs
  BY DelayAssumption DEF IInv, TypeOK, EventId, Context
<1>3. /\ InsertEvent(e) /\ impls' = impls + 1 /\ handles' = handles
      /\ UNCHANGED <<destroyEvents, currentVars, stop, eventsWithContext, life,
           cancelled, phase, running, fault, ran, revoked, disposed, late>>
      /\ Living
  BY <1>1 DEF ScheduleWithContext, historyVars, CallerRuns, Living
<1> HIDE DEF e
<1> QED  BY <1>2, <1>3, CallInserts

\* What is appended came too late when the queue is being disposed of.
LEMMA LateAppends ==
  ASSUME TypeOK, LateOK, NEW x \in ContextItem, x.impl = impls + 1,
         eventsWithContext' = Append(eventsWithContext, x),
         late' = (IF phase = "disposing" THEN late \cup {impls + 1} ELSE late),
         impls' = impls + 1, phase' = phase, phase # "deleted"
  PROVE  LateOK' /\ UNCHANGED Leaked
<1>1. /\ impls \in Nat /\ late \subseteq Nat
      /\ \A k \in DOMAIN eventsWithContext : eventsWithContext[k].impl \in Nat
      /\ eventsWithContext \in Seq(ContextItem)
  BY LateNumbers DEF TypeOK, ContextItem
<1>2. PICK n \in Nat :
        /\ DOMAIN eventsWithContext = 1..n
        /\ DOMAIN eventsWithContext' = 1..(n + 1)
        /\ eventsWithContext'[n + 1] = x
        /\ \A k \in 1..n : eventsWithContext'[k] = eventsWithContext[k]
  BY <1>1
<1>3. \A k \in 1..n : /\ eventsWithContext[k].impl \in Nat
                      /\ eventsWithContext[k].impl <= impls
                      /\ eventsWithContext[k].impl # impls + 1
                      /\ eventsWithContext[k].impl \in late <=> phase = "disposing"
  BY <1>1, <1>2 DEF LateOK
<1>4. \A i \in late : i \in Nat /\ i <= impls /\ i # impls + 1
  BY <1>1 DEF LateOK
<1>5. \A k \in 1..(n + 1) : k = n + 1 \/ k \in 1..n
  BY <1>2
<1>6. DistinctWaiting'
  <2> SUFFICES ASSUME NEW j \in 1..(n + 1), NEW k \in 1..(n + 1),
                      eventsWithContext'[j].impl = eventsWithContext'[k].impl
               PROVE  j = k
    BY <1>2 DEF DistinctWaiting
  <2>1. j \in 1..n /\ k \in 1..n => j = k
    BY <1>2 DEF LateOK, DistinctWaiting
  <2> QED  BY <1>2, <1>3, <1>5, <2>1
<1>7. \A i \in late' : i <= impls'
  BY <1>1, <1>4
<1>8. \A k \in 1..(n + 1) :
        /\ eventsWithContext'[k].impl <= impls'
        /\ eventsWithContext'[k].impl \in late' <=> phase = "disposing"
  <2> SUFFICES ASSUME NEW k \in 1..(n + 1)
               PROVE  /\ eventsWithContext'[k].impl <= impls'
                      /\ eventsWithContext'[k].impl \in late' <=> phase = "disposing"
    OBVIOUS
  <2>1. CASE k = n + 1
    BY <1>1, <1>2, <1>4, <2>1
  <2>2. CASE k \in 1..n
    BY <1>1, <1>2, <1>3, <2>2
  <2> QED  BY <1>5, <2>1, <2>2
<1>9. LateOK'
  BY <1>2, <1>6, <1>7, <1>8 DEF LateOK
<1>10. UNCHANGED Leaked
  <2> DEFINE Old == {eventsWithContext[k].impl : k \in 1..n}
             New == {eventsWithContext'[k].impl : k \in 1..(n + 1)}
  <2>1. New = Old \cup {impls + 1}
    BY <1>2, <1>5
  <2>2. Leaked = late \ Old /\ Leaked' = late' \ New
    BY <1>2 DEF Leaked
  <2> HIDE DEF Old, New
  <2> QED  BY <1>4, <2>1, <2>2
<1> QED  BY <1>9, <1>10

\* Another thread appends to its list.
LEMMA WorkerStep == IInv /\ WorkerScheduleWithContext => IInv'
<1> SUFFICES ASSUME IInv, WorkerScheduleWithContext PROVE IInv'
  OBVIOUS
<1> USE DEF IInv
<1>1. PICK ctx \in Node, d \in Delay :
        eventsWithContext' = Append(eventsWithContext,
                               [ctx |-> ctx, delay |-> d, impl |-> impls + 1])
  BY DEF WorkerScheduleWithContext
<1> DEFINE x == [ctx |-> ctx, delay |-> d, impl |-> impls + 1]
<1>2. x \in ContextItem /\ x.impl = impls + 1 /\ impls + 1 \in Nat
  BY DelayAssumption DEF TypeOK, ContextItem
<1>3. /\ eventsWithContext \in Seq(ContextItem)
      /\ refs \in [ImplId -> Int]
  BY DEF TypeOK, ContextItem
<1>4. /\ impls' = impls + 1
      /\ refs' = [refs EXCEPT ![impls + 1] = @ + 1]
      /\ UNCHANGED <<queueVars, destroyEvents, currentVars, stop, life,
           cancelled, phase, running, fault, handles, ran, revoked, disposed>>
      /\ late' = IF phase = "disposing" THEN late \cup {impls + 1} ELSE late
      /\ phase # "deleted"
  BY DEF WorkerScheduleWithContext
<1>5. UNCHANGED <<events, uid, unscheduledEvents, currentUid, currentTs,
                  currentContext>>
  BY <1>4 DEF queueVars, currentVars
<1>6. eventsWithContext' = Append(eventsWithContext, x)
  BY <1>1
<1> HIDE DEF x
<1>7. eventsWithContext' \in Seq(ContextItem)
  BY <1>2, <1>3, <1>6
<1>8. refs' \in [ImplId -> Int]
  <2>1. refs \in [ImplId -> Int] /\ refs' = [refs EXCEPT ![impls + 1] = @ + 1]
    BY <1>3, <1>4
  <2> QED  BY <2>1, CounterType
<1>9. TypeOK'
  <2>1. late' \subseteq Nat
    BY <1>2, <1>4 DEF TypeOK
  <2> QED  BY <1>2, <1>4, <1>5, <1>7, <1>8, <2>1 DEF TypeOK, ContextItem
<1>10. QueueOK' /\ HandlesOK' /\ HandsOK' /\ NoFault'
  <2>1. Living' = Living
    BY <1>4 DEF Living
  <2> QED  BY <1>4, <1>5, <2>1, QueueSame, HandlesSame DEF HandsOK, NoFault
<1>11. LateOK' /\ UNCHANGED Leaked
  BY <1>2, <1>3, <1>4, <1>6, LateAppends
<1>12. RefsOK'
  <2> SUFFICES ASSUME NEW i \in ImplId
               PROVE  refs'[i] = Cardinality(InQueue(events, i))
                        + Cardinality(InList(eventsWithContext', i))
                        + Cardinality(InList(destroyEvents, i)) + InHand(i) + Lost(i)
    BY <1>4, <1>5, <1>11 DEF RefsOK, InHand, InList, InQueue, Lost
  <2>1. refs'[i] = refs[i] + IF i = impls + 1 THEN 1 ELSE 0
    BY <1>3, <1>4, CounterValue
  <2>2. Cardinality(InList(eventsWithContext', i)) =
          Cardinality(InList(eventsWithContext, i)) + IF x.impl = i THEN 1 ELSE 0
    BY <1>2, <1>3, <1>6, InListAppends
  <2>3. refs[i] = Cardinality(InQueue(events, i))
                    + Cardinality(InList(eventsWithContext, i))
                    + Cardinality(InList(destroyEvents, i)) + InHand(i) + Lost(i)
    BY DEF RefsOK
  <2> QED  BY <1>2, <2>1, <2>2, <2>3, CountType
<1> QED  BY <1>9, <1>10, <1>11, <1>12

LEMMA ScheduleDestroyStep == IInv /\ ScheduleDestroy => IInv'
<1> SUFFICES ASSUME IInv, ScheduleDestroy PROVE IInv'
  OBVIOUS
<1> USE DEF IInv
<1> DEFINE id == [uid |-> DestroyUid, ts |-> currentTs, ctx |-> NoContext,
                  impl |-> impls + 1]
<1>1. /\ id \in EventId /\ id.uid = DestroyUid /\ id.impl = impls + 1
      /\ impls + 1 \in Nat
  BY DEF TypeOK, EventId, Context, DestroyUid
<1>2. /\ destroyEvents' = Append(destroyEvents, id)
      /\ uid' = uid + 1
      /\ impls' = impls + 1
      /\ refs' = [refs EXCEPT ![id.impl] = @ + 1]
      /\ handles' = handles \cup {id}
      /\ UNCHANGED <<events, unscheduledEvents, currentVars, stop,
           eventsWithContext, life, cancelled, phase, running, fault, ran,
           revoked, disposed, late>>
      /\ Living
  BY DEF ScheduleDestroy, CallerRuns, Living
<1> HIDE DEF id
<1>3. UNCHANGED <<currentUid, currentTs, currentContext>>
  BY <1>2 DEF currentVars
<1>4. /\ destroyEvents \in Seq(EventId)
      /\ refs \in [ImplId -> Int]
      /\ uid \in Nat /\ currentUid \in Nat
      /\ \A e \in events : e.uid \in Nat
  BY DEF TypeOK, EventId
<1>5. destroyEvents' \in Seq(EventId)
  BY <1>1, <1>2, <1>4
<1>6. refs' \in [ImplId -> Int]
  <2>1. refs \in [ImplId -> Int] /\ refs' = [refs EXCEPT ![id.impl] = @ + 1]
    BY <1>2, <1>4
  <2> QED  BY <2>1, CounterType
<1>7. TypeOK'
  <2>1. handles' \subseteq EventId /\ uid' \in Nat /\ impls' \in Nat
    BY <1>1, <1>2 DEF TypeOK
  <2> QED  BY <1>2, <1>3, <1>5, <1>6, <2>1 DEF TypeOK
<1>8. QueueOK'
  BY <1>2, <1>3, <1>4 DEF QueueOK, QueueAhead, CountsTheQueue
<1>9. HandlesOK' /\ HandsOK' /\ NoFault' /\ LateOK' /\ UNCHANGED Leaked
  BY <1>1, <1>2, <1>3, LateSame DEF HandlesOK, HandsOK, NoFault, Living
<1>10. RefsOK'
  <2> SUFFICES ASSUME NEW i \in ImplId
               PROVE  refs'[i] = Cardinality(InQueue(events, i))
                        + Cardinality(InList(eventsWithContext, i))
                        + Cardinality(InList(destroyEvents', i)) + InHand(i) + Lost(i)
    BY <1>2, <1>9 DEF RefsOK, InHand, InList, InQueue, Lost
  <2>1. refs'[i] = refs[i] + IF i = id.impl THEN 1 ELSE 0
    BY <1>2, <1>4, CounterValue
  <2>2. Cardinality(InList(destroyEvents', i)) =
          Cardinality(InList(destroyEvents, i)) + IF id.impl = i THEN 1 ELSE 0
    BY <1>1, <1>2, <1>4, InListAppends
  <2>3. refs[i] = Cardinality(InQueue(events, i))
                    + Cardinality(InList(eventsWithContext, i))
                    + Cardinality(InList(destroyEvents, i)) + InHand(i) + Lost(i)
    BY DEF RefsOK
  <2> QED  BY <2>1, <2>2, <2>3, CountType
<1> QED  BY <1>7, <1>8, <1>9, <1>10

LEMMA CancelStep == IInv /\ (Cancel \/ Stop \/ Destroy) => IInv'
<1> SUFFICES ASSUME IInv, Cancel \/ Stop \/ Destroy PROVE IInv'
  OBVIOUS
<1> USE DEF IInv
<1>1. /\ UNCHANGED <<queueVars, destroyEvents, currentVars, eventsWithContext,
                     life, impls, refs, running, fault, handles, ran, disposed,
                     late>>
      /\ stop' \in {stop, TRUE}
      /\ phase' = phase \/ (phase = "ready" /\ phase' = "destroying")
      /\ Living /\ Living'
  BY DEF Cancel, Stop, Destroy, historyVars, CallerRuns, Living
<1>2. UNCHANGED <<events, uid, unscheduledEvents, currentUid, currentTs,
                  currentContext>>
  BY <1>1 DEF queueVars, currentVars
<1>3. /\ cancelled \subseteq cancelled' /\ cancelled' \subseteq Nat
      /\ revoked' \subseteq Nat
  <2>1. cancelled \subseteq Nat /\ revoked \subseteq Nat
    BY DEF TypeOK
  <2>2. CASE Cancel
    <3>1. PICK id \in handles :
            /\ cancelled' = IF IsExpired(id) THEN cancelled
                            ELSE cancelled \cup {id.impl}
            /\ revoked' = revoked \cup
                            ({id.impl} \cap (PendingImpls \cup DestroyImpls))
      BY <2>2 DEF Cancel
    <3>2. id.impl \in Nat
      BY DEF TypeOK, EventId
    <3> QED  BY <2>1, <3>1, <3>2
  <2>3. CASE Stop \/ Destroy
    BY <2>1, <2>3 DEF Stop, Destroy, historyVars
  <2> QED  BY <2>2, <2>3
<1>4. TypeOK'
  BY <1>1, <1>2, <1>3 DEF TypeOK
<1>5. QueueOK' /\ HandlesOK' /\ LateOK' /\ RefsOK'
  BY <1>1, <1>2, <1>3, QueueSame, HandlesSame, LateSame, RefsSame
<1>6. HandsOK' /\ NoFault'
  BY <1>1 DEF HandsOK, NoFault
<1> QED  BY <1>4, <1>5, <1>6

-----------------------------------------------------------------------------
\* Remove takes a destroy event out of its list, or an entry out of the queue.
LEMMA RemoveDestroyEventStep ==
  ASSUME IInv, Living, NEW id \in handles, RemoveDestroyEvent(id)
  PROVE  IInv'
<1> USE DEF IInv
<1>1. /\ UNCHANGED <<queueVars, currentVars, stop, eventsWithContext, life,
                     impls, cancelled, phase, running, fault, handles, ran,
                     disposed, late>>
      /\ revoked' = revoked \cup ({id.impl} \cap DestroyImpls)
  BY DEF RemoveDestroyEvent
<1>2. UNCHANGED <<events, uid, unscheduledEvents, currentUid, currentTs,
                  currentContext>>
  BY <1>1 DEF queueVars, currentVars
<1>3. /\ QueueOK' /\ HandlesOK' /\ HandsOK' /\ NoFault'
      /\ LateOK' /\ UNCHANGED Leaked
  <2>1. Living'
    BY <1>1 DEF Living
  <2> QED  BY <1>1, <1>2, <2>1, QueueSame, HandlesSame, LateSame
           DEF HandsOK, NoFault
<1>4. /\ id.impl \in Nat
      /\ destroyEvents \in Seq(EventId)
      /\ refs \in [ImplId -> Int]
      /\ cancelled \subseteq Nat /\ ran \subseteq Nat /\ revoked \subseteq Nat
      /\ disposed \subseteq Nat
  BY DEF TypeOK, EventId
<1>5. revoked' \subseteq Nat
  BY <1>1, <1>4
<1>6. CASE UNCHANGED <<destroyEvents, refs>>
  <2>1. TypeOK'
    BY <1>1, <1>2, <1>4, <1>5, <1>6 DEF TypeOK
  <2> QED  BY <1>1, <1>2, <1>3, <1>6, <2>1, RefsSame
<1>7. ASSUME NEW k \in DOMAIN destroyEvents, destroyEvents[k] = id,
             destroyEvents' = SeqExt!RemoveAt(destroyEvents, k),
             refs' = [refs EXCEPT ![id.impl] = @ - 1]
      PROVE  IInv'
  <2>1. k \in 1..Len(destroyEvents)
    BY <1>4, <1>7
  <2>2. /\ destroyEvents' \in Seq(EventId)
        /\ Erased(destroyEvents, destroyEvents', k)
    BY <1>4, <1>7, <2>1, RemoveAtErases
  <2>3. refs' \in [ImplId -> Int]
    <3>1. refs \in [ImplId -> Int] /\ refs' = [refs EXCEPT ![id.impl] = @ - 1]
      BY <1>4, <1>7
    <3> QED  BY <3>1, CounterType
  <2>4. TypeOK'
    BY <1>1, <1>2, <1>4, <1>5, <2>2, <2>3 DEF TypeOK
  <2>5. RefsOK'
    <3> SUFFICES ASSUME NEW i \in ImplId
                 PROVE  refs'[i] = Cardinality(InQueue(events, i))
                          + Cardinality(InList(eventsWithContext, i))
                          + Cardinality(InList(destroyEvents', i)) + InHand(i) + Lost(i)
      BY <1>1, <1>2, <1>3 DEF RefsOK, InHand, InList, InQueue, Lost
    <3>1. refs'[i] = refs[i] - IF i = id.impl THEN 1 ELSE 0
      BY <1>4, <1>7, CounterValue
    <3>2. Cardinality(InList(destroyEvents', i)) =
            Cardinality(InList(destroyEvents, i))
              - IF destroyEvents[k].impl = i THEN 1 ELSE 0
      BY <1>4, <2>2, InListErases
    <3>3. refs[i] = Cardinality(InQueue(events, i))
                      + Cardinality(InList(eventsWithContext, i))
                      + Cardinality(InList(destroyEvents, i)) + InHand(i) + Lost(i)
      BY DEF RefsOK
    <3> QED  BY <1>7, <3>1, <3>2, <3>3, CountType
  <2> QED  BY <1>3, <2>4, <2>5
<1> QED  BY <1>6, <1>7 DEF RemoveDestroyEvent

LEMMA RemoveEventStep ==
  ASSUME IInv, Living, NEW id \in handles, id.uid # DestroyUid, ~IsExpired(id),
         RemoveEvent(id)
  PROVE  IInv'
<1> USE DEF IInv
<1>1. CASE id \notin events
  <2>1. life # 1
    BY <1>1 DEF HandlesOK, IsExpired
  <2>2. fault' = "NoSuchEvent" /\
        UNCHANGED <<queueVars, destroyEvents, currentVars, stop,
                    eventsWithContext, life, impls, refs, cancelled, phase,
                    running, historyVars>>
    BY <1>1 DEF RemoveEvent, Fault
  <2>3. UNCHANGED <<events, uid, unscheduledEvents, currentUid, currentTs,
                    currentContext, handles, ran, revoked, disposed, late>>
    BY <2>2 DEF queueVars, currentVars, historyVars
  <2>4. TypeOK'
    BY <2>2, <2>3 DEF TypeOK
  <2>5. Living'
    BY <2>2 DEF Living
  <2>6. QueueOK' /\ HandlesOK' /\ LateOK' /\ RefsOK'
    BY <2>2, <2>3, <2>5, QueueSame, HandlesSame, LateSame, RefsSame
  <2> QED  BY <2>1, <2>2, <2>4, <2>6 DEF HandsOK, NoFault
<1>2. CASE id \in events
  <2>1. /\ TakeOut(id)
        /\ refs' = [refs EXCEPT ![id.impl] = @ - 1]
        /\ cancelled' = cancelled \cup {id.impl}
        /\ revoked' = revoked \cup ({id.impl} \cap PendingImpls)
        /\ UNCHANGED <<uid, destroyEvents, currentVars, stop,
             eventsWithContext, life, impls, phase, running, fault, handles,
             ran, disposed, late>>
    BY <1>2 DEF RemoveEvent
  <2>2. UNCHANGED <<currentUid, currentTs, currentContext>>
    BY <2>1 DEF currentVars
  <2>3. /\ id.impl \in Nat
        /\ refs \in [ImplId -> Int]
        /\ cancelled \subseteq Nat /\ revoked \subseteq Nat
    BY DEF TypeOK, EventId
  <2>4. cancelled' \subseteq Nat /\ revoked' \subseteq Nat
    BY <2>1, <2>3
  <2>5. refs' \in [ImplId -> Int]
    <3>1. refs \in [ImplId -> Int] /\ refs' = [refs EXCEPT ![id.impl] = @ - 1]
      BY <2>1, <2>3
    <3> QED  BY <3>1, CounterType
  <2>6. /\ events' = events \ {id} /\ events' \subseteq EventId
        /\ unscheduledEvents' \in Int
        /\ IsFiniteSet(events') /\ CountsTheQueue'
    BY <1>2, <2>1, TakeOutQueue
  <2>7. TypeOK'
    BY <2>1, <2>2, <2>4, <2>5, <2>6 DEF TypeOK
  <2>8. QueueOK'
    BY <2>1, <2>2, <2>6 DEF QueueOK, QueueAhead
  <2>9. HandlesOK'
    BY <2>1, <2>2, <2>6 DEF HandlesOK, Living
  <2>10. HandsOK' /\ NoFault' /\ LateOK' /\ UNCHANGED Leaked
    BY <2>1, LateSame DEF HandsOK, NoFault, Living
  <2>11. RefsOK'
    <3> SUFFICES ASSUME NEW i \in ImplId
                 PROVE  refs'[i] = Cardinality(InQueue(events', i))
                          + Cardinality(InList(eventsWithContext, i))
                          + Cardinality(InList(destroyEvents, i)) + InHand(i) + Lost(i)
      BY <2>1, <2>10 DEF RefsOK, InHand, InList, InQueue, Lost
    <3>1. refs'[i] = refs[i] - IF i = id.impl THEN 1 ELSE 0
      BY <2>1, <2>3, CounterValue
    <3>2. Cardinality(InQueue(events', i)) =
            Cardinality(InQueue(events, i)) - IF id.impl = i THEN 1 ELSE 0
      BY <1>2, <2>6, InQueueRemoves DEF QueueOK
    <3>3. refs[i] = Cardinality(InQueue(events, i))
                      + Cardinality(InList(eventsWithContext, i))
                      + Cardinality(InList(destroyEvents, i)) + InHand(i) + Lost(i)
      BY DEF RefsOK
    <3> QED  BY <3>1, <3>2, <3>3, CountType
  <2> QED  BY <2>7, <2>8, <2>9, <2>10, <2>11
<1> QED  BY <1>1, <1>2

LEMMA RemoveStep == IInv /\ Remove => IInv'
BY RemoveDestroyEventStep, RemoveEventStep DEF Remove, CallerRuns, Living

-----------------------------------------------------------------------------
\* Run, the end of an event and DoDispose take in what other threads have
\* scheduled; at the end of an event its reference goes.
LEMMA TakeInStep ==
  ASSUME IInv, Living, ProcessEventsWithContext, running' = 0,
         refs' = [refs EXCEPT ![running] = @ - 1]
           \/ (running = 0 /\ refs' = refs),
         phase' \in {"loop", "disposing"}, stop' \in {stop, FALSE},
         UNCHANGED <<destroyEvents, currentVars, life, impls, cancelled, fault,
                     historyVars>>
  PROVE  IInv'
<1> USE DEF IInv
<1>1. UNCHANGED <<currentUid, currentTs, currentContext, handles, ran, revoked,
                  disposed, late>>
  BY DEF currentVars, historyVars
<1>2. /\ QueueOK'
      /\ events' \subseteq EventId /\ uid' \in Nat
      /\ unscheduledEvents' \in Int
      /\ eventsWithContext' \in Seq(ContextItem)
      /\ events \subseteq events'
  BY <1>1, ProcessEventsWithContextQueue
<1>3. refs \in [ImplId -> Int] /\ refs' \in [ImplId -> Int]
  <2>1. refs \in [ImplId -> Int]
    BY DEF TypeOK
  <2>2. CASE refs' = [refs EXCEPT ![running] = @ - 1]
    BY <2>1, <2>2, CounterType
  <2> QED  BY <2>1, <2>2
<1>4. TypeOK'
  BY <1>1, <1>2, <1>3 DEF TypeOK, ContextItem
<1>5. HandlesOK' /\ HandsOK' /\ NoFault' /\ LateOK' /\ UNCHANGED Leaked
  BY <1>1, <1>2, LateTakeIn
     DEF HandlesOK, HandsOK, NoFault, Living, ProcessEventsWithContext
<1>6. RefsOK'
  <2>1. events' = events \cup Batch /\ eventsWithContext' = <<>>
    BY DEF ProcessEventsWithContext
  <2> SUFFICES ASSUME NEW i \in ImplId
               PROVE  refs'[i] = Cardinality(InQueue(events', i))
                        + Cardinality(InList(eventsWithContext', i))
                        + Cardinality(InList(destroyEvents, i))
                        + (IF running' = i THEN 1 ELSE 0) + Lost(i)
    BY <1>5 DEF RefsOK, InHand, InList, InQueue, Lost
  <2>2. refs'[i] = refs[i] - InHand(i)
    <3>1. CASE refs' = [refs EXCEPT ![running] = @ - 1]
      <4>1. refs'[i] = refs[i] - IF i = running THEN 1 ELSE 0
        BY <1>3, <3>1, CounterValue
      <4> QED  BY <4>1 DEF InHand
    <3>2. CASE running = 0 /\ refs' = refs
      BY <1>3, <3>2 DEF InHand, ImplId
    <3> QED  BY <3>1, <3>2
  <2>3. refs[i] = Cardinality(InQueue(events, i))
                    + Cardinality(InList(eventsWithContext, i))
                    + Cardinality(InList(destroyEvents, i)) + InHand(i) + Lost(i)
    BY DEF RefsOK
  <2>4. Cardinality(InQueue(events', i)) =
          Cardinality(InQueue(events, i))
            + Cardinality(InList(eventsWithContext, i))
    BY <2>1, BatchOccurrences
  <2>5. Cardinality(InList(eventsWithContext', i)) = 0
    BY <2>1, EmptyCounts
  <2>6. running' # i
    BY DEF ImplId
  <2> QED  BY <2>2, <2>3, <2>4, <2>5, <2>6, CountType
<1> QED  BY <1>2, <1>4, <1>5, <1>6

LEMMA RunStep == IInv /\ (Run \/ EventReturns \/ DoDispose) => IInv'
<1> SUFFICES ASSUME IInv, Run \/ EventReturns \/ DoDispose PROVE IInv'
  OBVIOUS
<1>1. Living
  BY DEF Run, EventReturns, DoDispose, Living
<1>2. CASE Run \/ DoDispose
  <2>1. running = 0
    BY <1>2 DEF Run, DoDispose, IInv, HandsOK
  <2> QED  BY <1>1, <1>2, <2>1, TakeInStep DEF Run, DoDispose
<1>3. CASE EventReturns
  BY <1>1, <1>3, TakeInStep DEF EventReturns
<1> QED  BY <1>2, <1>3

-----------------------------------------------------------------------------
\* Run returns: the counter agrees with an empty queue.
LEMMA RunReturnsStep == IInv /\ RunReturns => IInv'
<1> SUFFICES ASSUME IInv, RunReturns PROVE IInv'
  OBVIOUS
<1> USE DEF IInv
<1>1. ~(events = {} /\ unscheduledEvents # 0)
  BY FS_EmptySet DEF QueueOK, CountsTheQueue, RunReturns
<1>2. /\ phase = "loop" /\ phase' = "ready"
      /\ UNCHANGED <<queueVars, destroyEvents, currentVars, stop,
           eventsWithContext, life, impls, refs, cancelled, running, fault,
           historyVars>>
  BY <1>1 DEF RunReturns
<1>3. UNCHANGED <<events, uid, unscheduledEvents, currentUid, currentTs,
                  currentContext, handles, ran, revoked, disposed, late>>
  BY <1>2 DEF queueVars, currentVars, historyVars
<1>4. TypeOK'
  BY <1>2, <1>3 DEF TypeOK
<1>5. Living /\ Living'
  BY <1>2 DEF Living
<1>6. QueueOK' /\ HandlesOK' /\ LateOK' /\ RefsOK'
  BY <1>2, <1>3, <1>5, QueueSame, HandlesSame, LateSame, RefsSame
<1> QED  BY <1>2, <1>4, <1>6 DEF HandsOK, NoFault

\* An event is taken from a list into the hands of the main thread.
LEMMA InvokedType ==
  ASSUME TypeOK, NEW i \in Nat, NEW a, NEW b, InvokedAs(i, a, b)
  PROVE  running' = i /\ phase' \in {a, b} /\ ran' \subseteq Nat
BY DEF TypeOK, InvokedAs

LEMMA ProcessOneEventStep == IInv /\ ProcessOneEvent => IInv'
<1> SUFFICES ASSUME IInv, ProcessOneEvent PROVE IInv'
  OBVIOUS
<1> USE DEF IInv
<1>1. PICK next \in events :
        /\ IsFirst(next, events)
        /\ IF next.ts < currentTs
           THEN Fault("TimeRunsBack")
           ELSE /\ TakeOut(next)
                /\ currentTs' = next.ts
                /\ currentContext' = next.ctx
                /\ currentUid' = next.uid
                /\ InvokedAs(next.impl, "event", "skipped")
                /\ UNCHANGED <<uid, destroyEvents, stop, eventsWithContext,
                     life, impls, refs, cancelled, fault, handles, revoked,
                     disposed, late>>
  BY DEF ProcessOneEvent
<1>2. /\ next.uid \in Nat /\ next.ts \in Nat /\ next.ctx \in Context
      /\ next.impl \in Nat
      /\ uid \in Nat /\ currentUid \in Nat /\ currentTs \in Nat
      /\ \A e \in events \cup handles : e.uid \in Nat /\ e.ts \in Nat
  BY DEF TypeOK, EventId
<1>3. /\ next.uid < uid
      /\ next.ts > currentTs \/ (next.ts = currentTs /\ next.uid > currentUid)
  BY DEF QueueOK, QueueAhead
<1>4. ~(next.ts < currentTs)
  BY <1>2, <1>3
<1>5. /\ TakeOut(next)
      /\ currentTs' = next.ts
      /\ currentContext' = next.ctx
      /\ currentUid' = next.uid
      /\ InvokedAs(next.impl, "event", "skipped")
      /\ UNCHANGED <<uid, destroyEvents, stop, eventsWithContext, life, impls,
           refs, cancelled, fault, handles, revoked, disposed, late>>
  BY <1>1, <1>4
<1>6. phase = "loop" /\ running = 0 /\ Living
  BY DEF ProcessOneEvent, HandsOK, Living
<1>7. running' = next.impl /\ phase' \in {"event", "skipped"} /\ ran' \subseteq Nat
  BY <1>2, <1>5, InvokedType
<1>8. /\ events' = events \ {next} /\ events' \subseteq EventId
      /\ unscheduledEvents' \in Int
      /\ IsFiniteSet(events') /\ CountsTheQueue'
  BY <1>5, <1>6, TakeOutQueue
<1>9. TypeOK'
  BY <1>2, <1>5, <1>7, <1>8 DEF TypeOK
<1>10. QueueAhead'
  <2>1. \A e \in events' : Before(next, e)
    BY <1>1, <1>8 DEF IsFirst
  <2>2. \A e \in events' :
          e.uid < uid /\ (e.ts > next.ts \/ (e.ts = next.ts /\ e.uid > next.uid))
    BY <1>2, <1>8, <2>1 DEF Before, QueueOK, QueueAhead
  <2>3. \A e, f \in events' : e.uid = f.uid => e = f
    BY <1>8 DEF QueueOK, QueueAhead
  <2> QED  BY <1>3, <1>5, <2>2, <2>3 DEF QueueAhead
<1>11. HandlesOK'
  <2> SUFFICES ASSUME life = 1, NEW id \in handles
               PROVE  \/ id.uid = DestroyUid
                      \/ id \in events'
                      \/ id.ts < next.ts
                      \/ id.ts = next.ts /\ id.uid <= next.uid
                      \/ id.impl \in cancelled
    BY <1>5 DEF HandlesOK
  <2>1. \/ id.uid = DestroyUid
        \/ id \in events
        \/ id.ts < currentTs
        \/ id.ts = currentTs /\ id.uid <= currentUid
        \/ id.impl \in cancelled
    BY <1>6 DEF HandlesOK
  <2>2. CASE id \in events
    BY <1>2, <1>8, <2>2
  <2>3. CASE id.ts < currentTs \/ (id.ts = currentTs /\ id.uid <= currentUid)
    <3>1. id.ts \in Nat /\ id.uid \in Nat
      BY <1>2
    <3> QED  BY <1>2, <1>3, <2>3, <3>1
  <2> QED  BY <2>1, <2>2, <2>3
<1>12. HandsOK' /\ NoFault' /\ LateOK' /\ UNCHANGED Leaked
  <2>1. Living'
    BY <1>7 DEF Living
  <2> QED  BY <1>5, <1>6, <1>7, <2>1, LateSame DEF HandsOK, NoFault
<1>13. RefsOK'
  <2> SUFFICES ASSUME NEW i \in ImplId
               PROVE  refs[i] = Cardinality(InQueue(events', i))
                        + Cardinality(InList(eventsWithContext, i))
                        + Cardinality(InList(destroyEvents, i))
                        + (IF next.impl = i THEN 1 ELSE 0) + Lost(i)
    BY <1>5, <1>7, <1>12 DEF RefsOK, InHand, InList, InQueue, Lost
  <2>1. Cardinality(InQueue(events', i)) =
          Cardinality(InQueue(events, i)) - IF next.impl = i THEN 1 ELSE 0
    BY <1>8, InQueueRemoves DEF QueueOK
  <2>2. InHand(i) = 0
    BY <1>6 DEF InHand, ImplId
  <2>3. refs[i] = Cardinality(InQueue(events, i))
                    + Cardinality(InList(eventsWithContext, i))
                    + Cardinality(InList(destroyEvents, i)) + InHand(i) + Lost(i)
    BY DEF RefsOK
  <2> QED  BY <2>1, <2>2, <2>3, CountType
<1> QED  BY <1>8, <1>9, <1>10, <1>11, <1>12, <1>13 DEF QueueOK

-----------------------------------------------------------------------------
\* Destroy takes the destroy events from the front of their list.
LEMMA ProcessOneDestroyEventStep == IInv /\ ProcessOneDestroyEvent => IInv'
<1> SUFFICES ASSUME IInv, ProcessOneDestroyEvent PROVE IInv'
  OBVIOUS
<1> USE DEF IInv
<1> DEFINE first == destroyEvents[1].impl
<1>1. /\ phase = "destroying" /\ destroyEvents # <<>>
      /\ InvokedAs(first, "destroyEvent", "destroySkipped")
      /\ destroyEvents' = Tail(destroyEvents)
      /\ UNCHANGED <<queueVars, currentVars, stop, eventsWithContext, life,
           impls, refs, cancelled, fault, handles, revoked, disposed, late>>
  BY DEF ProcessOneDestroyEvent, NextDestroyEvent
<1>2. UNCHANGED <<events, uid, unscheduledEvents, currentUid, currentTs,
                  currentContext>>
  BY <1>1 DEF queueVars, currentVars
<1>3. destroyEvents \in Seq(EventId)
  BY DEF TypeOK
<1>4. /\ destroyEvents' \in Seq(EventId)
      /\ Erased(destroyEvents, destroyEvents', 1)
  BY <1>1, <1>3, TailErases
<1>5. first \in Nat
  <2>1. destroyEvents[1] \in EventId
    BY <1>1, <1>3
  <2> QED  BY <2>1 DEF EventId
<1> HIDE DEF first
<1>6. /\ running' = first /\ phase' \in {"destroyEvent", "destroySkipped"}
      /\ ran' \subseteq Nat
  BY <1>1, <1>5, InvokedType
<1>7. TypeOK'
  BY <1>1, <1>2, <1>4, <1>5, <1>6 DEF TypeOK
<1>8. /\ QueueOK' /\ HandlesOK' /\ HandsOK' /\ NoFault'
      /\ LateOK' /\ UNCHANGED Leaked
  <2>1. Living /\ Living'
    BY <1>1, <1>6 DEF Living
  <2> QED  BY <1>1, <1>2, <1>6, <2>1, QueueSame, HandlesSame, LateSame
           DEF HandsOK, NoFault
<1>9. RefsOK'
  <2> SUFFICES ASSUME NEW i \in ImplId
               PROVE  refs[i] = Cardinality(InQueue(events, i))
                        + Cardinality(InList(eventsWithContext, i))
                        + Cardinality(InList(destroyEvents', i))
                        + (IF first = i THEN 1 ELSE 0) + Lost(i)
    BY <1>1, <1>2, <1>6, <1>8 DEF RefsOK, InHand, InList, InQueue, Lost
  <2>1. Cardinality(InList(destroyEvents', i)) =
          Cardinality(InList(destroyEvents, i))
            - IF destroyEvents[1].impl = i THEN 1 ELSE 0
    BY <1>3, <1>4, InListErases
  <2>2. InHand(i) = 0
    BY <1>1 DEF HandsOK, InHand, ImplId
  <2>3. refs[i] = Cardinality(InQueue(events, i))
                    + Cardinality(InList(eventsWithContext, i))
                    + Cardinality(InList(destroyEvents, i)) + InHand(i) + Lost(i)
    BY DEF RefsOK
  <2> QED  BY <2>1, <2>2, <2>3, CountType DEF first
<1> QED  BY <1>7, <1>8, <1>9

LEMMA DestroyEventReturnsStep == IInv /\ DestroyEventReturns => IInv'
<1> SUFFICES ASSUME IInv, DestroyEventReturns PROVE IInv'
  OBVIOUS
<1> USE DEF IInv
<1>1. /\ phase' = "destroying" /\ running' = 0 /\ Living /\ Living'
      /\ refs' = [refs EXCEPT ![running] = @ - 1]
      /\ UNCHANGED <<queueVars, destroyEvents, currentVars, stop,
           eventsWithContext, life, impls, cancelled, fault, historyVars>>
  BY DEF DestroyEventReturns, Living
<1>2. UNCHANGED <<events, uid, unscheduledEvents, currentUid, currentTs,
                  currentContext, handles, ran, revoked, disposed, late>>
  BY <1>1 DEF queueVars, currentVars, historyVars
<1>3. refs \in [ImplId -> Int] /\ refs' = [refs EXCEPT ![running] = @ - 1]
  BY <1>1 DEF TypeOK
<1>4. refs' \in [ImplId -> Int]
  BY <1>3, CounterType
<1>5. TypeOK'
  BY <1>1, <1>2, <1>4 DEF TypeOK
<1>6. /\ QueueOK' /\ HandlesOK' /\ HandsOK' /\ NoFault'
      /\ LateOK' /\ UNCHANGED Leaked
  BY <1>1, <1>2, QueueSame, HandlesSame, LateSame DEF HandsOK, NoFault
<1>7. RefsOK'
  <2> SUFFICES ASSUME NEW i \in ImplId
               PROVE  refs'[i] = Cardinality(InQueue(events, i))
                        + Cardinality(InList(eventsWithContext, i))
                        + Cardinality(InList(destroyEvents, i)) + 0 + Lost(i)
    BY <1>1, <1>2, <1>6 DEF RefsOK, InHand, InList, InQueue, Lost, ImplId
  <2>1. refs'[i] = refs[i] - IF i = running THEN 1 ELSE 0
    BY <1>3, CounterValue
  <2>2. refs[i] = Cardinality(InQueue(events, i))
                    + Cardinality(InList(eventsWithContext, i))
                    + Cardinality(InList(destroyEvents, i)) + InHand(i) + Lost(i)
    BY DEF RefsOK
  <2> QED  BY <2>1, <2>2, CountType DEF InHand
<1> QED  BY <1>5, <1>6, <1>7

\* DoDispose releases one event after the other.
LEMMA DisposeNextStep == IInv /\ DisposeNext => IInv'
<1> SUFFICES ASSUME IInv, DisposeNext PROVE IInv'
  OBVIOUS
<1> USE DEF IInv
<1>1. PICK next \in events :
        /\ events' = events \ {next}
        /\ refs' = [refs EXCEPT ![next.impl] = @ - 1]
        /\ disposed' = disposed \cup {next.impl}
  BY DEF DisposeNext
<1>2. /\ phase = "disposing"
      /\ UNCHANGED <<uid, unscheduledEvents, destroyEvents, currentVars, stop,
           eventsWithContext, life, impls, cancelled, phase, running, fault,
           handles, ran, revoked, late>>
  BY DEF DisposeNext
<1>3. UNCHANGED <<currentUid, currentTs, currentContext>>
  BY <1>2 DEF currentVars
<1>4. /\ next.impl \in Nat /\ disposed \subseteq Nat
      /\ refs \in [ImplId -> Int] /\ events' \subseteq EventId
  BY <1>1 DEF TypeOK, EventId
<1>5. refs' \in [ImplId -> Int]
  <2>1. refs' = [refs EXCEPT ![next.impl] = @ - 1]
    BY <1>1
  <2> QED  BY <1>4, <2>1, CounterType
<1>6. TypeOK'
  <2>1. disposed' \subseteq Nat
    BY <1>1, <1>4
  <2> QED  BY <1>2, <1>3, <1>4, <1>5, <2>1 DEF TypeOK
<1>7. QueueOK'
  <2>1. IsFiniteSet(events')
    BY <1>1, FS_RemoveElement DEF QueueOK
  <2> QED  BY <1>1, <1>2, <1>3, <2>1 DEF QueueOK, QueueAhead, CountsTheQueue
<1>8. HandlesOK' /\ HandsOK' /\ NoFault'
  BY <1>2 DEF HandlesOK, HandsOK, NoFault, Living
<1>9. LateOK' /\ UNCHANGED Leaked
  BY <1>2 DEF LateOK, DistinctWaiting, Leaked
<1>10. RefsOK'
  <2> SUFFICES ASSUME NEW i \in ImplId
               PROVE  refs'[i] = Cardinality(InQueue(events', i))
                        + Cardinality(InList(eventsWithContext, i))
                        + Cardinality(InList(destroyEvents, i)) + InHand(i) + Lost(i)
    BY <1>2, <1>9 DEF RefsOK, InHand, InList, InQueue, Lost
  <2>1. refs'[i] = refs[i] - IF i = next.impl THEN 1 ELSE 0
    BY <1>1, <1>4, CounterValue
  <2>2. Cardinality(InQueue(events', i)) =
          Cardinality(InQueue(events, i)) - IF next.impl = i THEN 1 ELSE 0
    BY <1>1, InQueueRemoves DEF QueueOK
  <2>3. refs[i] = Cardinality(InQueue(events, i))
                    + Cardinality(InList(eventsWithContext, i))
                    + Cardinality(InList(destroyEvents, i)) + InHand(i) + Lost(i)
    BY DEF RefsOK
  <2> QED  BY <2>1, <2>2, <2>3, CountType
<1> QED  BY <1>6, <1>7, <1>8, <1>9, <1>10

\* An EventImpl that waits is in the list once.
LEMMA WaitsOnce ==
  ASSUME TypeOK, LateOK, NEW i
  PROVE  Cardinality(InList(eventsWithContext, i)) =
           IF \E k \in DOMAIN eventsWithContext : eventsWithContext[k].impl = i
           THEN 1 ELSE 0
<1>1. CASE \E k \in DOMAIN eventsWithContext : eventsWithContext[k].impl = i
  <2>1. PICK k \in DOMAIN eventsWithContext : eventsWithContext[k].impl = i
    BY <1>1
  <2>2. InList(eventsWithContext, i) = {k}
    BY <2>1 DEF InList, LateOK, DistinctWaiting
  <2> QED  BY <1>1, <2>2, FS_Singleton
<1>2. CASE ~\E k \in DOMAIN eventsWithContext : eventsWithContext[k].impl = i
  <2>1. InList(eventsWithContext, i) = {}
    BY <1>2 DEF InList
  <2> QED  BY <1>2, <2>1, FS_EmptySet
<1> QED  BY <1>1, <1>2

\* The references of those that still wait when the object is deleted leak.
LEMMA DeleteStep == IInv /\ Delete => IInv'
<1> SUFFICES ASSUME IInv, Delete PROVE IInv'
  OBVIOUS
<1> USE DEF IInv
<1>1. /\ phase = "disposing" /\ phase' = "deleted" /\ events = {}
      /\ disposed' = disposed \cup {eventsWithContext[k].impl :
                                      k \in DOMAIN eventsWithContext}
      /\ eventsWithContext' = <<>>
      /\ UNCHANGED <<queueVars, destroyEvents, currentVars, stop, life, impls,
           refs, cancelled, running, fault, handles, ran, revoked, late>>
  BY DEF Delete
<1>2. UNCHANGED <<events, uid, unscheduledEvents, currentUid, currentTs,
                  currentContext>>
  BY <1>1 DEF queueVars, currentVars
<1>3. DOMAIN eventsWithContext' = {} /\ eventsWithContext' \in Seq(ContextItem)
  BY <1>1
<1>4. TypeOK'
  <2>1. disposed \subseteq Nat
    BY DEF TypeOK
  <2>2. disposed' \subseteq Nat
    BY <1>1, <2>1, LateNumbers
  <2> QED  BY <1>1, <1>2, <1>3, <2>2 DEF TypeOK, ContextItem
<1>5. ~Living'
  BY <1>1 DEF Living
<1>6. QueueOK' /\ HandlesOK' /\ HandsOK' /\ NoFault'
  BY <1>1, <1>2, <1>5, QueueSame DEF HandlesOK, HandsOK, NoFault
<1>7. LateOK'
  BY <1>1, <1>2, <1>3 DEF LateOK, DistinctWaiting
<1>8. RefsOK'
  <2> SUFFICES ASSUME NEW i \in ImplId
               PROVE  refs[i] = Cardinality(InQueue(events, i))
                        + Cardinality(InList(eventsWithContext', i))
                        + Cardinality(InList(destroyEvents, i)) + InHand(i)
                        + IF i \in Leaked' THEN 1 ELSE 0
    BY <1>1, <1>2 DEF RefsOK, InHand, InList, InQueue, Lost
  <2>1. Cardinality(InList(eventsWithContext', i)) = 0
    BY <1>1, EmptyCounts
  <2>2. Leaked' = late
    BY <1>1, <1>3 DEF Leaked
  <2>3. refs[i] = Cardinality(InQueue(events, i))
                    + Cardinality(InList(eventsWithContext, i))
                    + Cardinality(InList(destroyEvents, i)) + InHand(i) + Lost(i)
    BY DEF RefsOK
  <2>4. Cardinality(InList(eventsWithContext, i)) + Lost(i) =
          IF i \in late THEN 1 ELSE 0
    <3>1. CASE \E k \in DOMAIN eventsWithContext : eventsWithContext[k].impl = i
      <4>1. i \in late /\ i \notin Leaked
        BY <1>1, <3>1 DEF LateOK, Leaked
      <4>2. Cardinality(InList(eventsWithContext, i)) = 1
        BY <3>1, WaitsOnce
      <4> QED  BY <4>1, <4>2 DEF Lost
    <3>2. CASE ~\E k \in DOMAIN eventsWithContext : eventsWithContext[k].impl = i
      <4>1. i \in late <=> i \in Leaked
        BY <3>2 DEF Leaked
      <4>2. Cardinality(InList(eventsWithContext, i)) = 0
        BY <3>2, WaitsOnce
      <4> QED  BY <4>1, <4>2 DEF Lost
    <3> QED  BY <3>1, <3>2
  <2> QED  BY <2>1, <2>2, <2>3, <2>4, CountType
<1> QED  BY <1>4, <1>6, <1>7, <1>8

\* The next object starts with an empty queue.
LEMMA GetImplStep == IInv /\ GetImpl => IInv'
<1> SUFFICES ASSUME IInv, GetImpl PROVE IInv'
  OBVIOUS
<1> USE DEF IInv
<1>1. /\ phase = "deleted"
      /\ uid' = FirstUid /\ currentUid' = 0 /\ currentTs' = 0
      /\ currentContext' = NoContext /\ unscheduledEvents' = 0
      /\ stop' = FALSE /\ life' = life + 1 /\ phase' = "ready"
      /\ UNCHANGED <<events, destroyEvents, eventsWithContext, impls, refs,
           cancelled, running, fault, historyVars>>
  BY DEF GetImpl
<1>2. UNCHANGED <<handles, ran, revoked, disposed, late>>
  BY <1>1 DEF historyVars
<1>3. running = 0 /\ life' # 1 /\ life' >= 1 /\ life' \in Nat
  BY <1>1 DEF TypeOK, HandsOK
<1>4. events' = {} /\ eventsWithContext' = <<>>
  BY <1>1 DEF LateOK
<1>5. TypeOK'
  <2>1. NoContext \in Context /\ FirstUid \in Nat
    BY DEF Context, FirstUid
  <2>2. /\ uid' \in Nat /\ currentUid' \in Nat /\ currentTs' \in Nat
        /\ currentContext' \in Context /\ unscheduledEvents' \in Int
        /\ phase' = "ready"
    BY <1>1, <2>1
  <2>3. stop' \in BOOLEAN
    BY <1>1, Zenon
  <2> QED  BY <1>1, <1>2, <1>3, <2>2, <2>3 DEF TypeOK
<1>6. QueueOK'
  BY <1>1, <1>4, FS_EmptySet DEF QueueOK, QueueAhead, CountsTheQueue, FirstUid
<1>7. HandlesOK' /\ HandsOK' /\ NoFault'
  BY <1>1, <1>3 DEF HandlesOK, HandsOK, NoFault
<1>8. LateOK' /\ UNCHANGED Leaked
  <2>1. DOMAIN eventsWithContext' = {}
    BY <1>4
  <2> QED  BY <1>1, <1>2, <2>1 DEF LateOK, DistinctWaiting, Leaked
<1>9. RefsOK'
  BY <1>1, <1>8, RefsSame
<1> QED  BY <1>5, <1>6, <1>7, <1>8, <1>9

-----------------------------------------------------------------------------
LEMMA IInvInit == Init => IInv
<1> SUFFICES ASSUME Init PROVE IInv
  OBVIOUS
<1> USE DEF Init
<1>1. TypeOK
  <2>1. destroyEvents \in Seq(EventId) /\ eventsWithContext \in Seq(ContextItem)
    OBVIOUS
  <2>2. refs \in [ImplId -> Int]
    OBVIOUS
  <2>3. /\ events \subseteq EventId /\ handles \subseteq EventId
        /\ cancelled \cup ran \cup revoked \cup disposed \cup late \subseteq Nat
    OBVIOUS
  <2>4. /\ uid \in Nat /\ currentUid \in Nat /\ currentTs \in Nat
        /\ currentContext \in Context /\ unscheduledEvents \in Int
        /\ phase = "ready" /\ fault = "None"
        /\ life \in Nat /\ impls \in Nat /\ running \in Nat
    BY DEF Context, FirstUid
  <2>5. stop \in BOOLEAN
    BY Zenon
  <2> HIDE DEF Init
  <2> QED  BY <2>1, <2>2, <2>3, <2>4, <2>5 DEF TypeOK, ContextItem
<1>2. QueueOK
  BY FS_EmptySet DEF QueueOK, QueueAhead, CountsTheQueue, FirstUid
<1>3. HandsOK /\ HandlesOK /\ NoFault
  BY DEF HandsOK, HandlesOK, NoFault
<1>4. LateOK
  BY DEF LateOK, DistinctWaiting
<1>5. RefsOK
  <2>1. \A i \in ImplId : /\ refs[i] = 0
                          /\ InQueue(events, i) = {}
                          /\ InList(eventsWithContext, i) = {}
                          /\ InList(destroyEvents, i) = {}
                          /\ InHand(i) = 0 /\ Lost(i) = 0
    BY DEF InQueue, InList, InHand, ImplId, Lost, Leaked
  <2>2. Cardinality({}) = 0
    BY FS_EmptySet
  <2> SUFFICES ASSUME NEW i \in ImplId
               PROVE  refs[i] = Cardinality(InQueue(events, i))
                        + Cardinality(InList(eventsWithContext, i))
                        + Cardinality(InList(destroyEvents, i)) + InHand(i)
                        + Lost(i)
    BY DEF RefsOK
  <2> HIDE DEF Init
  <2> QED  BY <2>1, <2>2
<1> QED  BY <1>1, <1>2, <1>3, <1>4, <1>5 DEF IInv

LEMMA IInvNext == IInv /\ [Next]_vars => IInv'
<1> SUFFICES ASSUME IInv, [Next]_vars PROVE IInv'
  OBVIOUS
<1>1. CASE UNCHANGED vars
  <2>1. UNCHANGED <<queueVars, currentVars, historyVars, destroyEvents, stop,
                    eventsWithContext, life, impls, refs, cancelled, phase,
                    running, fault>>
    BY <1>1 DEF vars
  <2>2. UNCHANGED <<events, uid, unscheduledEvents, currentUid, currentTs,
                    currentContext, handles, ran, revoked, disposed, late>>
    BY <2>1 DEF queueVars, currentVars, historyVars
  <2>3. TypeOK'
    BY <2>1, <2>2 DEF IInv, TypeOK
  <2>4. Living' = Living
    BY <2>1 DEF Living
  <2>5. LateOK' /\ UNCHANGED Leaked
    BY <2>1, <2>2 DEF IInv, LateOK, DistinctWaiting, Leaked
  <2>6. QueueOK' /\ HandlesOK' /\ RefsOK' /\ HandsOK' /\ NoFault'
    BY <2>1, <2>2, <2>4, <2>5, QueueSame, HandlesSame, RefsSame
       DEF IInv, HandsOK, NoFault
  <2> QED  BY <2>3, <2>5, <2>6 DEF IInv
<1>2. CASE Next
  BY <1>2, ScheduleStep, ScheduleWithContextStep, WorkerStep,
     ScheduleDestroyStep, CancelStep, RemoveStep, RunStep, RunReturnsStep,
     ProcessOneEventStep, ProcessOneDestroyEventStep, DestroyEventReturnsStep,
     DisposeNextStep, DeleteStep, GetImplStep
     DEF Next
<1> QED  BY <1>1, <1>2

\* Whatever the main thread, the code of the events and other threads call, in
\* any order and over any number of lives: the queue is ahead of the current
\* event, its counter counts it until it is disposed of, and in the first life no
\* assertion fails; the references are those of the entries, and what another
\* thread schedules while DoDispose empties the queue is all that ever leaks
\* (DefaultSimulatorImpl).
THEOREM Consistency == Spec => []Consistent
<1>1. IInv => Consistent
  <2> SUFFICES ASSUME IInv PROVE RefsMatchEntries
    BY DEF IInv, QueueOK, Consistent
  <2> QED  BY DEF IInv, RefsOK, RefsMatchEntries, InQueue, InList, InHand, Lost
<1>2. Spec => []IInv
  BY IInvInit, IInvNext, PTL DEF Spec
<1> QED  BY <1>1, <1>2, PTL

-----------------------------------------------------------------------------
(***************************************************************************)
(* What an EventId tells: an entry that has the EventImpl of an EventId is *)
(* the one the EventId was made for, as EventImpls are not used twice.     *)
(***************************************************************************)
Destroying == SeqExt!ToSet(destroyEvents)
Waiting == SeqExt!ToSet(eventsWithContext)

NamesOK ==
  /\ uid >= FirstUid
  /\ \A e \in events : e.uid # DestroyUid
  /\ \A d \in Destroying : d.uid = DestroyUid
  /\ \A x \in handles \cup events \cup Destroying \cup Waiting : x.impl <= impls
  /\ \A id \in handles, e \in events \cup Destroying : e.impl = id.impl => e = id
  /\ \A id \in handles, x \in Waiting : x.impl # id.impl

LEMMA NamesShrink ==
  ASSUME NamesOK, uid' >= FirstUid, handles' = handles, impls' = impls,
         events' \subseteq events, Destroying' \subseteq Destroying,
         Waiting' \subseteq Waiting
  PROVE  NamesOK'
BY DEF NamesOK

\* What is appended to a list and what is left of it.
LEMMA ToSetAppends ==
  ASSUME NEW T, NEW s \in Seq(T), NEW x \in T
  PROVE  SeqExt!ToSet(Append(s, x)) \subseteq SeqExt!ToSet(s) \cup {x}
<1>1. /\ DOMAIN s = 1..Len(s) /\ Len(s) \in Nat
      /\ DOMAIN Append(s, x) = 1..(Len(s) + 1)
      /\ Append(s, x)[Len(s) + 1] = x
      /\ \A k \in 1..Len(s) : Append(s, x)[k] = s[k]
  OBVIOUS
<1>2. \A k \in 1..(Len(s) + 1) : k \in 1..Len(s) \/ k = Len(s) + 1
  BY <1>1
<1> QED  BY <1>1, <1>2 DEF SeqExt!ToSet

LEMMA ToSetErases ==
  ASSUME NEW T, NEW s \in Seq(T), NEW t \in Seq(T), NEW k, Erased(s, t, k)
  PROVE  SeqExt!ToSet(t) \subseteq SeqExt!ToSet(s)
<1>1. /\ DOMAIN s = 1..Len(s) /\ Len(s) \in Nat
      /\ DOMAIN t = 1..Len(t) /\ Len(t) = Len(s) - 1
      /\ \A j \in 1..Len(t) : t[j] = IF j < k THEN s[j] ELSE s[j + 1]
  BY DEF Erased
<1>2. \A j \in 1..Len(t) : j \in 1..Len(s) /\ j + 1 \in 1..Len(s)
  BY <1>1
<1> QED  BY <1>1, <1>2 DEF SeqExt!ToSet

\* EventImpls are numbered in the order of their creation.
LEMMA ImplNumbers ==
  ASSUME TypeOK, NamesOK
  PROVE  /\ impls \in Nat
         /\ \A x \in handles \cup events \cup Destroying \cup Waiting :
              x.impl \in Nat /\ x.impl <= impls
<1>1. \A x \in Destroying \cup Waiting : x.impl \in Nat
  <2>1. /\ destroyEvents \in Seq(EventId)
        /\ eventsWithContext \in Seq(ContextItem)
    BY DEF TypeOK, ContextItem
  <2>2. Destroying \subseteq EventId /\ Waiting \subseteq ContextItem
    BY <2>1 DEF Destroying, Waiting, SeqExt!ToSet
  <2> QED  BY <2>2 DEF EventId, ContextItem
<1>2. \A x \in handles \cup events : x.impl \in Nat
  BY DEF TypeOK, EventId
<1>3. impls \in Nat
  BY DEF TypeOK
<1> QED  BY <1>1, <1>2, <1>3 DEF NamesOK

\* A call that makes an entry makes it for a new EventImpl.
LEMMA NamesGrow ==
  ASSUME TypeOK, NamesOK, NEW e, e.impl = impls + 1, impls' = impls + 1,
         uid' >= FirstUid, handles' \in {handles, handles \cup {e}},
         \/ /\ events' = events \cup {e} /\ e.uid # DestroyUid
            /\ UNCHANGED <<Destroying, Waiting>>
         \/ /\ Destroying' \subseteq Destroying \cup {e} /\ e.uid = DestroyUid
            /\ UNCHANGED <<events, Waiting>>
         \/ /\ Waiting' \subseteq Waiting \cup {e} /\ handles' = handles
            /\ UNCHANGED <<events, Destroying>>
  PROVE  NamesOK'
<1>1. impls \in Nat
      /\ \A x \in handles \cup events \cup Destroying \cup Waiting :
           x.impl \in Nat /\ x.impl <= impls
  BY ImplNumbers
<1>2. /\ \A d \in Destroying' : d.uid = DestroyUid
      /\ \A f \in events' : f.uid # DestroyUid
  BY DEF NamesOK
<1>3. \A x \in handles' \cup events' \cup Destroying' \cup Waiting' :
        x.impl <= impls'
  <2>1. \A x \in handles' \cup events' \cup Destroying' \cup Waiting' :
          x \in handles \cup events \cup Destroying \cup Waiting \/ x = e
    OBVIOUS
  <2> QED  BY <1>1, <2>1
<1>4. ASSUME NEW id \in handles', NEW f \in events' \cup Destroying',
             f.impl = id.impl
      PROVE  f = id
  <2>1. (id \in handles \/ id = e) /\ (f \in events \cup Destroying \/ f = e)
    OBVIOUS
  <2>2. id \in handles => id.impl # e.impl
    BY <1>1
  <2>3. f \in events \cup Destroying => f.impl # e.impl
    BY <1>1
  <2> QED  BY <1>4, <2>1, <2>2, <2>3 DEF NamesOK
<1>5. ASSUME NEW id \in handles', NEW x \in Waiting' PROVE x.impl # id.impl
  <2>1. \/ id \in handles /\ x \in Waiting
        \/ id = e /\ x \in Waiting
        \/ id \in handles /\ x = e
    OBVIOUS
  <2> QED  BY <1>1, <2>1 DEF NamesOK
<1> QED  BY <1>2, <1>3, <1>4, <1>5 DEF NamesOK

\* The batch was made for the EventImpls of the other threads' calls.
LEMMA NamesTakeIn ==
  ASSUME TypeOK, QueueOK, NamesOK, ProcessEventsWithContext,
         UNCHANGED <<destroyEvents, impls, handles>>
  PROVE  NamesOK'
<1>1. /\ events' = events \cup Batch
      /\ uid' = uid + Len(eventsWithContext)
      /\ eventsWithContext' = <<>>
  BY DEF ProcessEventsWithContext
<1>2. /\ Len(eventsWithContext) \in Nat
      /\ \A e \in Batch : e.uid >= uid /\ e.uid \in Nat
  BY BatchFacts DEF EventId
<1>3. uid \in Nat /\ uid >= FirstUid
  BY DEF TypeOK, NamesOK
<1>4. uid' >= FirstUid /\ \A e \in Batch : e.uid # DestroyUid
  BY <1>1, <1>2, <1>3 DEF FirstUid, DestroyUid
<1>5. \A e \in Batch : \E x \in Waiting : e.impl = x.impl
  BY DEF Batch, Waiting, SeqExt!ToSet
<1>6. Waiting' = {} /\ Destroying' = Destroying
  BY <1>1 DEF Waiting, Destroying, SeqExt!ToSet
<1> QED  BY <1>1, <1>4, <1>5, <1>6 DEF NamesOK

LEMMA NamesCalls ==
  ASSUME IInv, NamesOK,
         Schedule \/ ScheduleNow \/ ScheduleWithContext
           \/ WorkerScheduleWithContext \/ ScheduleDestroy
  PROVE  NamesOK'
<1>1. TypeOK /\ uid \in Nat /\ uid >= FirstUid /\ impls' = impls + 1
  BY DEF IInv, TypeOK, NamesOK, Schedule, ScheduleNow, ScheduleAt,
         ScheduleWithContext, WorkerScheduleWithContext, ScheduleDestroy
<1>2. /\ uid # DestroyUid /\ uid + 1 >= FirstUid
  BY <1>1 DEF FirstUid, DestroyUid
<1>3. /\ destroyEvents \in Seq(EventId)
      /\ eventsWithContext \in Seq(ContextItem)
  BY <1>1 DEF TypeOK, ContextItem
<1>4. CASE Schedule \/ ScheduleNow \/ ScheduleWithContext
  <2>1. PICK e : /\ e.uid = uid /\ e.impl = impls + 1 /\ InsertEvent(e)
                 /\ handles' \in {handles, handles \cup {e}}
    BY <1>4 DEF Schedule, ScheduleNow, ScheduleAt, ScheduleWithContext,
                historyVars
  <2>2. UNCHANGED <<destroyEvents, eventsWithContext>>
    BY <1>4 DEF Schedule, ScheduleNow, ScheduleAt, ScheduleWithContext
  <2>3. events' = events \cup {e} /\ uid' = uid + 1
    BY <2>1 DEF InsertEvent
  <2>4. UNCHANGED <<Destroying, Waiting>>
    BY <2>2 DEF Destroying, Waiting
  <2> QED  BY <1>1, <1>2, <2>1, <2>3, <2>4, NamesGrow
<1>5. CASE WorkerScheduleWithContext
  <2>1. PICK ctx \in Node, d \in Delay :
          eventsWithContext' = Append(eventsWithContext,
                                 [ctx |-> ctx, delay |-> d, impl |-> impls + 1])
    BY <1>5 DEF WorkerScheduleWithContext
  <2> DEFINE x == [ctx |-> ctx, delay |-> d, impl |-> impls + 1]
  <2>2. x.impl = impls + 1 /\ x \in ContextItem
    BY <1>1, DelayAssumption DEF TypeOK, ContextItem
  <2>3. /\ UNCHANGED <<events, destroyEvents, uid, handles>>
        /\ eventsWithContext' = Append(eventsWithContext, x)
    BY <1>5, <2>1 DEF WorkerScheduleWithContext, queueVars, historyVars
  <2> HIDE DEF x
  <2>4. Waiting' \subseteq Waiting \cup {x} /\ Destroying' = Destroying
    BY <1>3, <2>2, <2>3, ToSetAppends DEF Waiting, Destroying
  <2>5. handles' = handles /\ events' = events /\ uid' >= FirstUid
    BY <1>1, <2>3
  <2> QED  BY <1>1, <2>2, <2>4, <2>5, NamesGrow
<1>6. CASE ScheduleDestroy
  <2> DEFINE id == [uid |-> DestroyUid, ts |-> currentTs, ctx |-> NoContext,
                    impl |-> impls + 1]
  <2>1. /\ id.uid = DestroyUid /\ id.impl = impls + 1 /\ id \in EventId
    BY <1>1 DEF TypeOK, EventId, Context, DestroyUid
  <2>2. /\ destroyEvents' = Append(destroyEvents, id)
        /\ uid' = uid + 1 /\ handles' = handles \cup {id}
        /\ UNCHANGED <<events, eventsWithContext>>
    BY <1>6 DEF ScheduleDestroy
  <2> HIDE DEF id
  <2>3. Destroying' \subseteq Destroying \cup {id} /\ Waiting' = Waiting
    BY <1>3, <2>1, <2>2, ToSetAppends DEF Waiting, Destroying
  <2>4. handles' = handles \cup {id} /\ events' = events /\ uid' >= FirstUid
    BY <1>2, <2>2
  <2> QED  BY <1>1, <2>1, <2>3, <2>4, NamesGrow
<1> QED  BY <1>4, <1>5, <1>6

LEMMA NamesRemove ==
  ASSUME IInv, NamesOK, Remove
  PROVE  NamesOK'
<1>1. PICK id \in handles : \/ RemoveDestroyEvent(id)
                            \/ RemoveEvent(id)
  BY DEF Remove
<1>2. uid >= FirstUid /\ destroyEvents \in Seq(EventId)
  BY DEF NamesOK, IInv, TypeOK
<1>3. CASE RemoveDestroyEvent(id)
  <2>1. UNCHANGED <<events, uid, eventsWithContext, impls, handles>>
    BY <1>3 DEF RemoveDestroyEvent, queueVars
  <2>2. Destroying' \subseteq Destroying
    <3>1. CASE UNCHANGED destroyEvents
      BY <3>1 DEF Destroying
    <3>2. ASSUME NEW k \in DOMAIN destroyEvents,
                 destroyEvents' = SeqExt!RemoveAt(destroyEvents, k)
          PROVE  Destroying' \subseteq Destroying
      <4>1. k \in 1..Len(destroyEvents)
        BY <1>2, <3>2
      <4>2. /\ destroyEvents' \in Seq(EventId)
            /\ Erased(destroyEvents, destroyEvents', k)
        BY <1>2, <3>2, <4>1, RemoveAtErases
      <4> QED  BY <1>2, <4>2, ToSetErases DEF Destroying
    <3> QED  BY <1>3, <3>1, <3>2 DEF RemoveDestroyEvent
  <2>3. Waiting' = Waiting
    BY <2>1 DEF Waiting
  <2> QED  BY <1>2, <2>1, <2>2, <2>3, NamesShrink
<1>4. CASE RemoveEvent(id)
  <2>1. /\ events' \subseteq events
        /\ UNCHANGED <<uid, destroyEvents, eventsWithContext, impls, handles>>
    BY <1>4 DEF RemoveEvent, Fault, TakeOut, queueVars, historyVars
  <2>2. UNCHANGED <<Destroying, Waiting>>
    BY <2>1 DEF Destroying, Waiting
  <2> QED  BY <1>2, <2>1, <2>2, NamesShrink
<1> QED  BY <1>1, <1>3, <1>4

\* The other actions make no entry.
LEMMA NamesOthers ==
  ASSUME IInv, NamesOK,
         \/ Cancel \/ Stop \/ Destroy \/ RunReturns \/ ProcessOneEvent
         \/ ProcessOneDestroyEvent \/ DestroyEventReturns \/ DisposeNext
         \/ Delete \/ GetImpl \/ UNCHANGED vars
  PROVE  NamesOK'
<1>1. uid >= FirstUid /\ destroyEvents \in Seq(EventId)
  BY DEF NamesOK, IInv, TypeOK
<1>2. handles' = handles /\ impls' = impls
  BY DEF Cancel, Stop, Destroy, RunReturns, ProcessOneEvent,
         ProcessOneDestroyEvent, DestroyEventReturns, DisposeNext, Delete, GetImpl,
         vars, Fault, historyVars
<1>3. uid' >= FirstUid
  BY <1>1
     DEF Cancel, Stop, Destroy, RunReturns, ProcessOneEvent,
         ProcessOneDestroyEvent, DestroyEventReturns, DisposeNext, Delete, GetImpl,
         vars, Fault, queueVars, FirstUid
<1>4. events' \subseteq events
  BY DEF Cancel, Stop, Destroy, RunReturns, ProcessOneEvent, TakeOut,
         ProcessOneDestroyEvent, DestroyEventReturns, DisposeNext, Delete, GetImpl,
         vars, Fault, queueVars
<1>5. eventsWithContext' \in {eventsWithContext, <<>>}
  BY DEF Cancel, Stop, Destroy, RunReturns, ProcessOneEvent,
         ProcessOneDestroyEvent, DestroyEventReturns, DisposeNext, Delete, GetImpl,
         vars, Fault
<1>6. Waiting' \subseteq Waiting
  BY <1>5 DEF Waiting, SeqExt!ToSet
<1>7. Destroying' \subseteq Destroying
  <2>1. CASE ProcessOneDestroyEvent
    <3>1. destroyEvents # <<>> /\ destroyEvents' = Tail(destroyEvents)
      BY <2>1 DEF ProcessOneDestroyEvent, NextDestroyEvent
    <3>2. /\ destroyEvents' \in Seq(EventId)
          /\ Erased(destroyEvents, destroyEvents', 1)
      BY <1>1, <3>1, TailErases
    <3> QED  BY <1>1, <3>2, ToSetErases DEF Destroying
  <2>2. CASE ~ProcessOneDestroyEvent
    <3>1. UNCHANGED destroyEvents
      BY <2>2 DEF Cancel, Stop, Destroy, RunReturns, ProcessOneEvent,
         DestroyEventReturns, DisposeNext, Delete, GetImpl, vars, Fault
    <3> QED  BY <3>1 DEF Destroying
  <2> QED  BY <2>1, <2>2
<1> QED  BY <1>2, <1>3, <1>4, <1>6, <1>7, NamesShrink

LEMMA NamesNext == IInv /\ NamesOK /\ [Next]_vars => NamesOK'
<1> SUFFICES ASSUME IInv, NamesOK, [Next]_vars PROVE NamesOK'
  OBVIOUS
<1>1. CASE Run \/ EventReturns \/ DoDispose
  <2>1. /\ ProcessEventsWithContext
        /\ UNCHANGED <<destroyEvents, impls, handles>>
    BY <1>1 DEF Run, EventReturns, DoDispose, historyVars
  <2> QED  BY <2>1, NamesTakeIn DEF IInv
<1>2. CASE ~(Run \/ EventReturns \/ DoDispose)
  BY <1>2, NamesCalls, NamesRemove, NamesOthers DEF Next
<1> QED  BY <1>1, <1>2

LEMMA NamesInit == Init => NamesOK
<1> SUFFICES ASSUME Init PROVE NamesOK
  OBVIOUS
<1>1. /\ events = {} /\ handles = {} /\ uid = FirstUid
      /\ destroyEvents = <<>> /\ eventsWithContext = <<>>
  BY DEF Init
<1>2. Destroying = {} /\ Waiting = {}
  BY <1>1 DEF Destroying, Waiting, SeqExt!ToSet
<1> QED  BY <1>1, <1>2 DEF NamesOK, FirstUid

\* For any application, as long as the simulator was not destroyed: an EventId
\* is expired exactly when its activity is not to be executed any more, by Run
\* or by Destroy, whether it was executed, cancelled or removed.
THEOREM EventIdsTell == Spec => []ExpiredIffGone
<1>1. IInv /\ NamesOK => ExpiredIffGone
  <2> SUFFICES ASSUME IInv, NamesOK, CallerRuns, life = 1, NEW id \in handles
               PROVE  IsExpired(id) <=> id.impl \notin PendingImpls \cup DestroyImpls
    BY DEF ExpiredIffGone
  <2>1. id.impl \in PendingImpls <=>
          id.impl \notin cancelled /\ \E e \in events : e.impl = id.impl
    BY DEF PendingImpls, Pending
  <2>2. id.impl \in DestroyImpls <=>
          id.impl \notin cancelled /\ \E d \in Destroying : d.impl = id.impl
    BY DEF DestroyImpls, Destroying
  <2>3. /\ (\E e \in events : e.impl = id.impl) <=> id \in events
        /\ (\E d \in Destroying : d.impl = id.impl) <=> id \in Destroying
    BY DEF NamesOK
  <2>4. CASE id.uid = DestroyUid
    <3>1. id \notin events
      BY <2>4 DEF NamesOK
    <3>2. IsExpired(id) <=> id.impl \in cancelled \/ id \notin Destroying
      BY <2>4 DEF IsExpired, Destroying
    <3> QED  BY <2>1, <2>2, <2>3, <3>1, <3>2
  <2>5. CASE id.uid # DestroyUid
    <3>1. id \notin Destroying
      BY <2>5 DEF NamesOK
    <3> DEFINE past == id.ts < currentTs \/ (id.ts = currentTs /\ id.uid <= currentUid)
    <3>2. IsExpired(id) <=> past \/ id.impl \in cancelled
      BY <2>5 DEF IsExpired
    <3>3. id \in events \/ past \/ id.impl \in cancelled
      BY <2>5 DEF IInv, HandlesOK, CallerRuns, Living
    <3>4. id \in events => ~past
      <4>1. /\ id.ts \in Nat /\ id.uid \in Nat
            /\ currentTs \in Nat /\ currentUid \in Nat
        BY DEF IInv, TypeOK, EventId
      <4> QED  BY <4>1 DEF IInv, QueueOK, QueueAhead
    <3> HIDE DEF past
    <3> QED  BY <2>1, <2>2, <2>3, <3>1, <3>2, <3>3, <3>4
  <2> QED  BY <2>4, <2>5
<1>2. IInv /\ NamesOK /\ [Next]_vars => IInv' /\ NamesOK'
  BY IInvNext, NamesNext
<1>3. Spec => [](IInv /\ NamesOK)
  BY IInvInit, NamesInit, <1>2, PTL DEF Spec
<1> QED  BY <1>1, <1>3, PTL
-----------------------------------------------------------------------------
(***************************************************************************)
(* An EventImpl is in one place at a time, and it leaves that place for    *)
(* good: it is executed, cancelled, removed or thrown away once.           *)
(***************************************************************************)
\* EventImpls something has happened to.
Gone == ran \cup cancelled \cup revoked \cup disposed

\* Destroy events are appended, so the list has the order of their creation.
DestroyOrdered ==
  \A j, k \in DOMAIN destroyEvents :
    j < k => destroyEvents[j].impl < destroyEvents[k].impl

\* What was executed or thrown away is in no list; what was revoked is there only
\* as cancelled; no two entries, and no two EventIds, share an EventImpl.
OnceOK ==
  /\ impls <= MaxImpls
  /\ \A x \in events \cup Waiting : x.impl \in ImplId
  /\ \A i \in Gone : i <= impls
  /\ Destroying \subseteq handles
  /\ \A a, b \in handles : a.impl = b.impl => a = b
  /\ \A a, b \in events : a.impl = b.impl => a = b
  /\ \A x \in Waiting : /\ x.impl \notin ran \cup cancelled \cup revoked
                        /\ \A e \in events : e.impl # x.impl
  /\ \A e \in events \cup Destroying :
       e.impl \notin ran /\ (e.impl \in revoked => e.impl \in cancelled)
  /\ \A x \in events \cup Destroying \cup Waiting : x.impl \notin disposed
  /\ DistinctWaiting /\ DestroyOrdered

\* A call that makes an entry makes it for an EventImpl nothing has happened to.
LEMMA OnceGrow ==
  ASSUME TypeOK, NamesOK, OnceOK, impls < MaxImpls,
         NEW e, e.impl = impls + 1, impls' = impls + 1,
         UNCHANGED <<ran, cancelled, revoked, disposed>>,
         \/ /\ events' = events \cup {e}
            /\ handles' \in {handles, handles \cup {e}}
            /\ UNCHANGED <<destroyEvents, eventsWithContext>>
         \/ /\ destroyEvents' = Append(destroyEvents, e) /\ e \in EventId
            /\ handles' = handles \cup {e}
            /\ UNCHANGED <<events, eventsWithContext>>
         \/ /\ eventsWithContext' = Append(eventsWithContext, e)
            /\ e \in ContextItem
            /\ UNCHANGED <<events, destroyEvents, handles>>
  PROVE  OnceOK'
<1>1. /\ impls \in Nat /\ MaxImpls \in Nat
      /\ \A x \in handles \cup events \cup Destroying \cup Waiting :
           x.impl \in Nat /\ x.impl <= impls
  BY ImplNumbers, BoundAssumption
<1>2. /\ \A i \in Gone : i \in Nat /\ i <= impls
      /\ \A x \in handles \cup events \cup Destroying \cup Waiting : x.impl # e.impl
      /\ e.impl \notin Gone /\ e.impl \in ImplId
      /\ \A i \in Gone : i <= impls'
  <2>1. \A i \in Gone : i \in Nat /\ i <= impls
    BY DEF Gone, TypeOK, OnceOK
  <2> QED  BY <1>1, <2>1 DEF ImplId
<1>3. /\ events' \subseteq events \cup {e}
      /\ Destroying' \subseteq Destroying \cup {e}
      /\ Waiting' \subseteq Waiting \cup {e}
      /\ handles' \subseteq handles \cup {e} /\ handles \subseteq handles'
      /\ e \in Destroying' => e \in handles'
      /\ e \in Waiting' => e \notin events'
      /\ DistinctWaiting' /\ DestroyOrdered'
  <2>0. /\ destroyEvents \in Seq(EventId)
        /\ eventsWithContext \in Seq(ContextItem)
    BY DEF TypeOK, ContextItem
  <2>1. CASE /\ events' = events \cup {e}
             /\ handles' \in {handles, handles \cup {e}}
             /\ UNCHANGED <<destroyEvents, eventsWithContext>>
    <3>1. Destroying' = Destroying /\ Waiting' = Waiting
      BY <2>1 DEF Destroying, Waiting
    <3>2. DistinctWaiting' /\ DestroyOrdered'
      BY <2>1 DEF OnceOK, DistinctWaiting, DestroyOrdered
    <3> QED  BY <1>2, <2>1, <3>1, <3>2
  <2>2. CASE /\ destroyEvents' = Append(destroyEvents, e) /\ e \in EventId
             /\ handles' = handles \cup {e}
             /\ UNCHANGED <<events, eventsWithContext>>
    <3>1. Destroying' \subseteq Destroying \cup {e} /\ Waiting' = Waiting
      BY <2>0, <2>2, ToSetAppends DEF Destroying, Waiting
    <3>2. DistinctWaiting'
      BY <2>2 DEF OnceOK, DistinctWaiting
    <3>3. PICK n \in Nat :
            /\ n = Len(destroyEvents) /\ DOMAIN destroyEvents = 1..n
            /\ DOMAIN destroyEvents' = 1..(n + 1)
            /\ destroyEvents'[n + 1] = e
            /\ \A k \in 1..n : destroyEvents'[k] = destroyEvents[k]
      BY <2>0, <2>2
    <3>4. \A k \in 1..n : destroyEvents[k].impl \in Nat
                          /\ destroyEvents[k].impl < e.impl
      <4>1. \A k \in 1..n : destroyEvents[k] \in Destroying
        BY <3>3 DEF Destroying, SeqExt!ToSet
      <4> QED  BY <1>1, <4>1
    <3>5. DestroyOrdered'
      <4> SUFFICES ASSUME NEW j \in 1..(n + 1), NEW k \in 1..(n + 1), j < k
                   PROVE  destroyEvents'[j].impl < destroyEvents'[k].impl
        BY <3>3 DEF DestroyOrdered
      <4>1. j \in 1..n /\ destroyEvents'[j] = destroyEvents[j]
        BY <3>3
      <4>2. CASE k = n + 1
        BY <3>3, <3>4, <4>1, <4>2
      <4>3. CASE k # n + 1
        <5>1. k \in 1..n /\ destroyEvents'[k] = destroyEvents[k]
          BY <3>3, <4>3
        <5> QED  BY <3>3, <4>1, <5>1 DEF OnceOK, DestroyOrdered
      <4> QED  BY <4>2, <4>3
    <3> QED  BY <1>2, <2>2, <3>1, <3>2, <3>5
  <2>3. CASE /\ eventsWithContext' = Append(eventsWithContext, e)
             /\ e \in ContextItem
             /\ UNCHANGED <<events, destroyEvents, handles>>
    <3>1. Waiting' \subseteq Waiting \cup {e} /\ Destroying' = Destroying
      BY <2>0, <2>3, ToSetAppends DEF Destroying, Waiting
    <3>2. DestroyOrdered'
      BY <2>3 DEF OnceOK, DestroyOrdered
    <3>3. PICK n \in Nat :
            /\ n = Len(eventsWithContext) /\ DOMAIN eventsWithContext = 1..n
            /\ DOMAIN eventsWithContext' = 1..(n + 1)
            /\ eventsWithContext'[n + 1] = e
            /\ \A k \in 1..n : eventsWithContext'[k] = eventsWithContext[k]
      BY <2>0, <2>3
    <3>4. \A k \in 1..n : eventsWithContext[k].impl # e.impl
      <4>1. \A k \in 1..n : eventsWithContext[k] \in Waiting
        BY <3>3 DEF Waiting, SeqExt!ToSet
      <4> QED  BY <1>2, <4>1
    <3>5. DistinctWaiting'
      <4> SUFFICES ASSUME NEW j \in 1..(n + 1), NEW k \in 1..(n + 1),
                          eventsWithContext'[j].impl = eventsWithContext'[k].impl
                   PROVE  j = k
        BY <3>3 DEF DistinctWaiting
      <4>1. \A m \in 1..(n + 1) : m = n + 1 \/ m \in 1..n
        BY <3>3
      <4>2. j \in 1..n /\ k \in 1..n => j = k
        BY <3>3 DEF OnceOK, DistinctWaiting
      <4> QED  BY <3>3, <3>4, <4>1, <4>2
    <3> QED  BY <1>2, <2>3, <3>1, <3>2, <3>5
  <2> QED  BY <2>1, <2>2, <2>3
<1>4. impls' <= MaxImpls
  BY <1>1
<1>5. /\ \A x \in events' \cup Waiting' : x.impl \in ImplId
      /\ \A i \in Gone' : i <= impls'
      /\ Destroying' \subseteq handles'
  BY <1>2, <1>3 DEF OnceOK, Gone
<1>6. /\ \A a, b \in handles' : a.impl = b.impl => a = b
      /\ \A a, b \in events' : a.impl = b.impl => a = b
  BY <1>2, <1>3 DEF OnceOK
<1>7. ASSUME NEW x \in Waiting'
      PROVE  /\ x.impl \notin ran' \cup cancelled' \cup revoked'
             /\ \A f \in events' : f.impl # x.impl
  BY <1>2, <1>3 DEF OnceOK, Gone
<1>8. /\ \A f \in events' \cup Destroying' :
           f.impl \notin ran' /\ (f.impl \in revoked' => f.impl \in cancelled')
      /\ \A x \in events' \cup Destroying' \cup Waiting' : x.impl \notin disposed'
  BY <1>2, <1>3 DEF OnceOK, Gone
<1> QED  BY <1>3, <1>4, <1>5, <1>6, <1>7, <1>8 DEF OnceOK

\* The batch was made for the EventImpls of the other threads' calls, one entry
\* for each.
LEMMA OnceTakeIn ==
  ASSUME TypeOK, QueueOK, NamesOK, OnceOK, ProcessEventsWithContext,
         UNCHANGED <<destroyEvents, impls, handles, ran, cancelled, revoked,
                     disposed>>
  PROVE  OnceOK'
<1>1. events' = events \cup Batch /\ eventsWithContext' = <<>>
  BY DEF ProcessEventsWithContext
<1>2. Waiting' = {} /\ Destroying' = Destroying
  BY <1>1 DEF Waiting, Destroying, SeqExt!ToSet
<1>3. \A e \in Batch : \E x \in Waiting : e.impl = x.impl
  BY DEF Batch, Waiting, SeqExt!ToSet
<1>4. \A e, f \in Batch : e.impl = f.impl => e = f
  BY DEF OnceOK, DistinctWaiting, Batch
<1>5. \A e \in Batch : /\ e.impl \in ImplId
                       /\ e.impl \notin ran \cup revoked \cup disposed
  BY <1>3 DEF OnceOK
<1>6. \A e, f \in events' : e.impl = f.impl => e = f
  BY <1>1, <1>3, <1>4 DEF OnceOK
<1>7. DistinctWaiting' /\ DestroyOrdered'
  BY <1>1 DEF OnceOK, DistinctWaiting, DestroyOrdered
<1>8. Gone' = Gone
  BY DEF Gone
<1>9. /\ \A x \in events' \cup Waiting' : x.impl \in ImplId
      /\ \A x \in events' \cup Destroying' \cup Waiting' : x.impl \notin disposed'
      /\ \A e \in events' \cup Destroying' :
           e.impl \notin ran' /\ (e.impl \in revoked' => e.impl \in cancelled')
  BY <1>1, <1>2, <1>5 DEF OnceOK
<1> QED  BY <1>1, <1>2, <1>6, <1>7, <1>8, <1>9 DEF OnceOK

\* The other steps make no entry; what happens to an EventImpl happens to none
\* that is still waiting, and ends an entry or marks it as cancelled.
LEMMA OnceShrink ==
  ASSUME OnceOK, UNCHANGED <<handles, impls>>,
         events' \subseteq events, Destroying' \subseteq Destroying,
         Waiting' \subseteq Waiting, DistinctWaiting', DestroyOrdered',
         \A i \in ran' : i \in ran \/
           /\ i <= impls
           /\ \A x \in events' \cup Destroying' \cup Waiting' : x.impl # i,
         cancelled \subseteq cancelled',
         \A i \in cancelled' : i \in cancelled \/
           (i <= impls /\ \A x \in Waiting' : x.impl # i),
         \A i \in revoked' : i \in revoked \/
           /\ i <= impls
           /\ \A x \in Waiting' : x.impl # i
           /\ i \in cancelled' \/ \A x \in events' \cup Destroying' : x.impl # i,
         \A i \in disposed' : i \in disposed \/
           /\ i <= impls
           /\ \A x \in events' \cup Destroying' \cup Waiting' : x.impl # i
  PROVE  OnceOK'
<1>1. \A i \in Gone' : i <= impls'
  BY DEF OnceOK, Gone
<1>2. ASSUME NEW x \in Waiting'
      PROVE  /\ x.impl \notin ran' \cup cancelled' \cup revoked'
             /\ \A e \in events' : e.impl # x.impl
  BY DEF OnceOK
<1>3. ASSUME NEW e \in events' \cup Destroying'
      PROVE  e.impl \notin ran' /\ (e.impl \in revoked' => e.impl \in cancelled')
  BY DEF OnceOK
<1>4. \A x \in events' \cup Destroying' \cup Waiting' : x.impl \notin disposed'
  BY DEF OnceOK
<1> QED  BY <1>1, <1>2, <1>3, <1>4 DEF OnceOK

\* The list of destroy events without its k-th: it is still ordered, and its
\* k-th EventImpl is no longer in it.
LEMMA DestroyErases ==
  ASSUME TypeOK, OnceOK, NEW k,
         destroyEvents' \in Seq(EventId), Erased(destroyEvents, destroyEvents', k)
  PROVE  /\ DestroyOrdered' /\ Destroying' \subseteq Destroying
         /\ \A d \in Destroying' : d.impl # destroyEvents[k].impl
<1>1. destroyEvents \in Seq(EventId)
  BY DEF TypeOK
<1>2. PICK m, n \in Nat :
        /\ m = Len(destroyEvents) /\ DOMAIN destroyEvents = 1..m
        /\ n = Len(destroyEvents') /\ DOMAIN destroyEvents' = 1..n
        /\ n = m - 1 /\ k \in 1..m
        /\ \A j \in 1..n : destroyEvents'[j] = IF j < k THEN destroyEvents[j]
                                               ELSE destroyEvents[j + 1]
  BY <1>1 DEF Erased
<1>3. /\ \A j \in 1..m : destroyEvents[j].impl \in Nat
      /\ \A i, j \in 1..m : i < j => destroyEvents[i].impl < destroyEvents[j].impl
  <2>1. \A j \in 1..m : destroyEvents[j] \in EventId
    BY <1>1, <1>2
  <2> QED  BY <1>2, <2>1 DEF EventId, OnceOK, DestroyOrdered
<1>4. ASSUME NEW j \in 1..n
      PROVE  \E i \in 1..m : /\ i = (IF j < k THEN j ELSE j + 1) /\ i # k
                             /\ destroyEvents'[j] = destroyEvents[i]
  <2>1. (IF j < k THEN j ELSE j + 1) \in 1..m /\ (IF j < k THEN j ELSE j + 1) # k
    BY <1>2
  <2> QED  BY <1>2, <2>1
<1>5. DestroyOrdered'
  <2> SUFFICES ASSUME NEW i \in 1..n, NEW j \in 1..n, i < j
               PROVE  destroyEvents'[i].impl < destroyEvents'[j].impl
    BY <1>2 DEF DestroyOrdered
  <2>1. PICK a \in 1..m : /\ a = (IF i < k THEN i ELSE i + 1)
                          /\ destroyEvents'[i] = destroyEvents[a]
    BY <1>4
  <2>2. PICK b \in 1..m : /\ b = (IF j < k THEN j ELSE j + 1)
                          /\ destroyEvents'[j] = destroyEvents[b]
    BY <1>4
  <2>3. a < b
    BY <1>2, <2>1, <2>2
  <2> QED  BY <1>3, <2>1, <2>2, <2>3
<1>6. ASSUME NEW d \in Destroying'
      PROVE  d \in Destroying /\ d.impl # destroyEvents[k].impl
  <2>1. PICK j \in 1..n : d = destroyEvents'[j]
    BY <1>2 DEF Destroying, SeqExt!ToSet
  <2>2. PICK i \in 1..m : i # k /\ d = destroyEvents[i]
    BY <1>4, <2>1
  <2>3. d \in Destroying
    BY <1>2, <2>2 DEF Destroying, SeqExt!ToSet
  <2>4. i \in Nat /\ k \in Nat /\ (i < k \/ k < i)
    BY <1>2, <2>2
  <2>5. destroyEvents[i].impl # destroyEvents[k].impl
    BY <1>2, <1>3, <2>2, <2>4
  <2> QED  BY <2>2, <2>3, <2>5
<1> QED  BY <1>5, <1>6

LEMMA OnceCalls ==
  ASSUME IInv, NamesOK, OnceOK,
         Schedule \/ ScheduleNow \/ ScheduleWithContext
           \/ WorkerScheduleWithContext \/ ScheduleDestroy
  PROVE  OnceOK'
<1>1. /\ TypeOK /\ impls' = impls + 1 /\ impls < MaxImpls
      /\ UNCHANGED <<ran, cancelled, revoked, disposed>>
  BY DEF IInv, Schedule, ScheduleNow, ScheduleAt, ScheduleWithContext,
         WorkerScheduleWithContext, ScheduleDestroy, historyVars
<1>2. CASE Schedule \/ ScheduleNow \/ ScheduleWithContext
  <2>1. PICK e : /\ e.impl = impls + 1 /\ InsertEvent(e)
                 /\ handles' \in {handles, handles \cup {e}}
    BY <1>2 DEF Schedule, ScheduleNow, ScheduleAt, ScheduleWithContext,
                historyVars
  <2>2. UNCHANGED <<destroyEvents, eventsWithContext>>
    BY <1>2 DEF Schedule, ScheduleNow, ScheduleAt, ScheduleWithContext
  <2>3. events' = events \cup {e}
    BY <2>1 DEF InsertEvent
  <2> QED  BY <1>1, <2>1, <2>2, <2>3, OnceGrow
<1>3. CASE WorkerScheduleWithContext
  <2>1. PICK ctx \in Node, d \in Delay :
          eventsWithContext' = Append(eventsWithContext,
                                 [ctx |-> ctx, delay |-> d, impl |-> impls + 1])
    BY <1>3 DEF WorkerScheduleWithContext
  <2> DEFINE x == [ctx |-> ctx, delay |-> d, impl |-> impls + 1]
  <2>2. x.impl = impls + 1 /\ x \in ContextItem
    BY <1>1, DelayAssumption DEF TypeOK, ContextItem
  <2>3. /\ UNCHANGED <<events, destroyEvents, handles>>
        /\ eventsWithContext' = Append(eventsWithContext, x)
    BY <1>3, <2>1 DEF WorkerScheduleWithContext, queueVars, historyVars
  <2> HIDE DEF x
  <2> QED  BY <1>1, <2>2, <2>3, OnceGrow
<1>4. CASE ScheduleDestroy
  <2> DEFINE id == [uid |-> DestroyUid, ts |-> currentTs, ctx |-> NoContext,
                    impl |-> impls + 1]
  <2>1. id.impl = impls + 1 /\ id \in EventId
    BY <1>1 DEF TypeOK, EventId, Context, DestroyUid
  <2>2. /\ destroyEvents' = Append(destroyEvents, id)
        /\ handles' = handles \cup {id}
        /\ UNCHANGED <<events, eventsWithContext>>
    BY <1>4 DEF ScheduleDestroy
  <2> HIDE DEF id
  <2> QED  BY <1>1, <2>1, <2>2, OnceGrow
<1> QED  BY <1>2, <1>3, <1>4

\* An EventId of something that is still to be executed is not expired, in any
\* life of the simulator.
LEMMA PendingNotExpired ==
  ASSUME IInv, NamesOK, NEW id \in handles,
         id.impl \in PendingImpls \cup DestroyImpls
  PROVE  ~IsExpired(id) /\ id \in events \cup Destroying
<1>1. CASE id.impl \in PendingImpls
  <2>1. PICK e \in events : e.impl = id.impl /\ e.impl \notin cancelled
    BY <1>1 DEF PendingImpls, Pending
  <2>2. e = id /\ id.uid # DestroyUid
    BY <2>1 DEF NamesOK
  <2>3. /\ id.ts \in Nat /\ id.uid \in Nat
        /\ currentTs \in Nat /\ currentUid \in Nat
    BY DEF IInv, TypeOK, EventId
  <2>4. id.ts > currentTs \/ (id.ts = currentTs /\ id.uid > currentUid)
    BY <2>1, <2>2 DEF IInv, QueueOK, QueueAhead
  <2> QED  BY <2>1, <2>2, <2>3, <2>4 DEF IsExpired
<1>2. CASE id.impl \in DestroyImpls
  <2>1. PICK d \in Destroying : d.impl = id.impl /\ d.impl \notin cancelled
    BY <1>2 DEF DestroyImpls, Destroying
  <2>2. d = id /\ id.uid = DestroyUid
    BY <2>1 DEF NamesOK
  <2> QED  BY <2>1, <2>2 DEF IsExpired, Destroying
<1> QED  BY <1>1, <1>2

LEMMA OnceCancel ==
  ASSUME IInv, NamesOK, OnceOK, Cancel
  PROVE  OnceOK'
<1>1. PICK id \in handles :
        /\ cancelled' = IF IsExpired(id) THEN cancelled
                        ELSE cancelled \cup {id.impl}
        /\ revoked' = revoked \cup
                        ({id.impl} \cap (PendingImpls \cup DestroyImpls))
  BY DEF Cancel
<1>2. UNCHANGED <<events, destroyEvents, eventsWithContext, handles, impls,
                  ran, disposed>>
  BY DEF Cancel, queueVars
<1>3. UNCHANGED <<Destroying, Waiting, DistinctWaiting, DestroyOrdered>>
  BY <1>2 DEF Destroying, Waiting, DistinctWaiting, DestroyOrdered
<1>4. id.impl <= impls /\ \A x \in Waiting : x.impl # id.impl
  BY DEF NamesOK
<1>5. \A i \in cancelled' : i \in cancelled \/ i = id.impl
  BY <1>1
<1>6. \A i \in revoked' : i \in revoked \/ (i = id.impl /\ i \in cancelled')
  BY <1>1, PendingNotExpired
<1>7. DistinctWaiting /\ DestroyOrdered /\ cancelled \subseteq cancelled'
  BY <1>1 DEF OnceOK
<1>8. /\ \A i \in cancelled' : i \in cancelled \/
           (i <= impls /\ \A x \in Waiting' : x.impl # i)
      /\ \A i \in revoked' : i \in revoked \/
           /\ i <= impls
           /\ \A x \in Waiting' : x.impl # i
           /\ i \in cancelled' \/ \A x \in events' \cup Destroying' : x.impl # i
  BY <1>3, <1>4, <1>5, <1>6
<1>9. /\ events' \subseteq events /\ Destroying' \subseteq Destroying
      /\ Waiting' \subseteq Waiting /\ DistinctWaiting' /\ DestroyOrdered'
      /\ \A i \in ran' : i \in ran
      /\ \A i \in disposed' : i \in disposed
  BY <1>2, <1>3, <1>7
<1> QED  BY <1>2, <1>7, <1>8, <1>9, OnceShrink

LEMMA OnceRemove ==
  ASSUME IInv, NamesOK, OnceOK, Remove
  PROVE  OnceOK'
<1>1. PICK id \in handles : \/ RemoveDestroyEvent(id)
                            \/ ~IsExpired(id) /\ RemoveEvent(id)
  BY DEF Remove
<1>2. TypeOK /\ destroyEvents \in Seq(EventId)
  BY DEF IInv, TypeOK
<1>3. id.impl <= impls /\ \A x \in Waiting : x.impl # id.impl
  BY DEF NamesOK
<1>4. DistinctWaiting /\ DestroyOrdered
  BY DEF OnceOK
<1>5. CASE RemoveDestroyEvent(id)
  <2>1. /\ UNCHANGED <<events, eventsWithContext, impls, handles, ran,
                       cancelled, disposed>>
        /\ revoked' = revoked \cup ({id.impl} \cap DestroyImpls)
    BY <1>5 DEF RemoveDestroyEvent, queueVars
  <2>2. UNCHANGED <<Waiting, DistinctWaiting>>
    BY <2>1 DEF Waiting, DistinctWaiting
  <2>3. /\ DestroyOrdered' /\ Destroying' \subseteq Destroying
        /\ id.impl \in DestroyImpls => \A d \in Destroying' : d.impl # id.impl
    <3>1. CASE id \notin SeqExt!ToSet(destroyEvents) /\ UNCHANGED destroyEvents
      <4>1. id.impl \notin DestroyImpls
        <5>1. \A d \in Destroying : d.impl = id.impl => d = id
          BY DEF NamesOK
        <5> QED  BY <3>1, <5>1 DEF DestroyImpls, Destroying
      <4> QED  BY <1>4, <3>1, <4>1 DEF DestroyOrdered, Destroying
    <3>2. ASSUME NEW k \in DOMAIN destroyEvents, destroyEvents[k] = id,
                 destroyEvents' = SeqExt!RemoveAt(destroyEvents, k)
          PROVE  <2>3!1 /\ <2>3!2 /\ \A d \in Destroying' : d.impl # id.impl
      <4>1. k \in 1..Len(destroyEvents)
        BY <1>2, <3>2
      <4>2. /\ destroyEvents' \in Seq(EventId)
            /\ Erased(destroyEvents, destroyEvents', k)
        BY <1>2, <3>2, <4>1, RemoveAtErases
      <4> QED  BY <1>2, <3>2, <4>2, DestroyErases
    <3> QED  BY <1>5, <3>1, <3>2 DEF RemoveDestroyEvent
  <2>4. \A e \in events : id.impl \in DestroyImpls => e.impl # id.impl
    <3>1. ASSUME NEW e \in events, id.impl \in DestroyImpls, e.impl = id.impl
          PROVE  FALSE
      <4>1. PICK d \in Destroying : d.impl = id.impl
        BY <3>1 DEF DestroyImpls, Destroying
      <4>2. e = id /\ d = id
        BY <3>1, <4>1 DEF NamesOK
      <4> QED  BY <4>1, <4>2 DEF NamesOK
    <3> QED  BY <3>1
  <2>5. \A i \in revoked' : i \in revoked \/ (i = id.impl /\ i \in DestroyImpls)
    BY <2>1
  <2>6. \A i \in revoked' : i \in revoked \/
           /\ i <= impls
           /\ \A x \in Waiting' : x.impl # i
           /\ i \in cancelled' \/ \A x \in events' \cup Destroying' : x.impl # i
    BY <1>3, <2>1, <2>2, <2>3, <2>4, <2>5
  <2>7. /\ events' \subseteq events /\ Destroying' \subseteq Destroying
        /\ Waiting' \subseteq Waiting /\ DistinctWaiting' /\ DestroyOrdered'
        /\ UNCHANGED <<handles, impls>> /\ cancelled \subseteq cancelled'
        /\ \A i \in ran' : i \in ran
        /\ \A i \in cancelled' : i \in cancelled
        /\ \A i \in disposed' : i \in disposed
    BY <1>4, <2>1, <2>2, <2>3
  <2> QED  BY <2>6, <2>7, OnceShrink
<1>6. CASE ~IsExpired(id) /\ RemoveEvent(id)
  <2>1. /\ UNCHANGED <<destroyEvents, eventsWithContext, impls, handles, ran,
                       disposed>>
        /\ events' \subseteq events
        /\ \/ UNCHANGED <<cancelled, revoked>>
           \/ /\ cancelled' = cancelled \cup {id.impl}
              /\ revoked' = revoked \cup ({id.impl} \cap PendingImpls)
    BY <1>6 DEF RemoveEvent, Fault, TakeOut, queueVars, historyVars
  <2>2. UNCHANGED <<Destroying, Waiting, DistinctWaiting, DestroyOrdered>>
    BY <2>1 DEF Destroying, Waiting, DistinctWaiting, DestroyOrdered
  <2>3. /\ \A i \in cancelled' : i \in cancelled \/ i = id.impl
        /\ \A i \in revoked' : i \in revoked \/ (i = id.impl /\ i \in cancelled')
        /\ cancelled \subseteq cancelled'
    BY <2>1
  <2>4. /\ \A i \in cancelled' : i \in cancelled \/
             (i <= impls /\ \A x \in Waiting' : x.impl # i)
        /\ \A i \in revoked' : i \in revoked \/
             /\ i <= impls
             /\ \A x \in Waiting' : x.impl # i
             /\ i \in cancelled' \/ \A x \in events' \cup Destroying' : x.impl # i
    BY <1>3, <2>2, <2>3
  <2>5. /\ events' \subseteq events /\ Destroying' \subseteq Destroying
        /\ Waiting' \subseteq Waiting /\ DistinctWaiting' /\ DestroyOrdered'
        /\ UNCHANGED <<handles, impls>> /\ cancelled \subseteq cancelled'
        /\ \A i \in ran' : i \in ran
        /\ \A i \in disposed' : i \in disposed
    BY <1>4, <2>1, <2>2, <2>3
  <2> QED  BY <2>4, <2>5, OnceShrink
<1> QED  BY <1>1, <1>5, <1>6

\* The EventImpl of an entry of the queue is in no other place.
LEMMA QueuedOnly ==
  ASSUME NamesOK, OnceOK, NEW e \in events
  PROVE  /\ e.impl <= impls
         /\ \A f \in events \ {e} : f.impl # e.impl
         /\ \A x \in Destroying \cup Waiting : x.impl # e.impl
<1>1. ASSUME NEW d \in Destroying, d.impl = e.impl PROVE FALSE
  <2>1. d \in handles
    BY DEF OnceOK
  <2>2. d = e
    BY <1>1, <2>1 DEF NamesOK
  <2> QED  BY <2>2 DEF NamesOK
<1>2. \A x \in Waiting : x.impl # e.impl
  BY DEF OnceOK
<1> QED  BY <1>1, <1>2 DEF NamesOK, OnceOK

LEMMA OnceProcess ==
  ASSUME IInv, NamesOK, OnceOK, ProcessOneEvent
  PROVE  OnceOK'
<1>1. PICK next \in events :
        \/ Fault("TimeRunsBack")
        \/ /\ TakeOut(next)
           /\ InvokedAs(next.impl, "event", "skipped")
           /\ UNCHANGED <<destroyEvents, eventsWithContext, impls, cancelled,
                          handles, revoked, disposed>>
  BY DEF ProcessOneEvent
<1>2. /\ UNCHANGED <<destroyEvents, eventsWithContext, impls, cancelled,
                     handles, revoked, disposed>>
      /\ \/ events' = events /\ ran' = ran
         \/ events' = events \ {next} /\ ran' \subseteq ran \cup {next.impl}
  BY <1>1 DEF Fault, TakeOut, InvokedAs, queueVars, historyVars
<1>3. UNCHANGED <<Destroying, Waiting, DistinctWaiting, DestroyOrdered>>
  BY <1>2 DEF Destroying, Waiting, DistinctWaiting, DestroyOrdered
<1>4. /\ next.impl <= impls
      /\ \A e \in events \ {next} : e.impl # next.impl
      /\ \A x \in Destroying \cup Waiting : x.impl # next.impl
  BY QueuedOnly
<1>5. DistinctWaiting /\ DestroyOrdered
  BY DEF OnceOK
<1>6. events' \subseteq events
      /\ \A i \in ran' : i \in ran \/
           /\ i <= impls
           /\ \A x \in events' \cup Destroying' \cup Waiting' : x.impl # i
  BY <1>2, <1>3, <1>4
<1>7. /\ Destroying' \subseteq Destroying /\ Waiting' \subseteq Waiting
      /\ DistinctWaiting' /\ DestroyOrdered'
      /\ UNCHANGED <<handles, impls>> /\ cancelled \subseteq cancelled'
      /\ \A i \in cancelled' : i \in cancelled
      /\ \A i \in revoked' : i \in revoked
      /\ \A i \in disposed' : i \in disposed
  BY <1>2, <1>3, <1>5
<1> QED  BY <1>6, <1>7, OnceShrink

\* The first destroy event is the one that was made first.
LEMMA FirstDestroyed ==
  ASSUME IInv, NamesOK, OnceOK, ProcessOneDestroyEvent
  PROVE  \E d \in Destroying :
           /\ d = destroyEvents[1]
           /\ running' = d.impl
           /\ ran' = IF d.impl \in cancelled THEN ran ELSE ran \cup {d.impl}
           /\ phase' = "destroyEvent" => d.impl \notin cancelled
           /\ \A e \in Destroying : d.impl <= e.impl
           /\ \A e \in events \cup Waiting : e.impl # d.impl
           /\ destroyEvents' \in Seq(EventId)
           /\ Erased(destroyEvents, destroyEvents', 1)
           /\ UNCHANGED <<queueVars, currentVars, eventsWithContext, life, impls,
                          cancelled, handles, revoked, disposed>>
<1>1. TypeOK /\ destroyEvents \in Seq(EventId) /\ destroyEvents # <<>>
  BY DEF IInv, TypeOK, ProcessOneDestroyEvent
<1>2. PICK n \in Nat : /\ n = Len(destroyEvents) /\ n >= 1
                       /\ DOMAIN destroyEvents = 1..n
  BY <1>1
<1>3. destroyEvents[1] \in Destroying
  BY <1>2 DEF Destroying, SeqExt!ToSet
<1>4. PICK d \in Destroying : d = destroyEvents[1]
  BY <1>3
<1>5. /\ running' = d.impl
      /\ ran' = IF d.impl \in cancelled THEN ran ELSE ran \cup {d.impl}
      /\ phase' = "destroyEvent" => d.impl \notin cancelled
      /\ destroyEvents' = Tail(destroyEvents)
      /\ UNCHANGED <<queueVars, currentVars, eventsWithContext, life, impls,
                     cancelled, handles, revoked, disposed>>
  BY <1>4 DEF ProcessOneDestroyEvent, NextDestroyEvent, InvokedAs
<1>6. /\ destroyEvents' \in Seq(EventId)
      /\ Erased(destroyEvents, destroyEvents', 1)
  BY <1>1, <1>5, TailErases
<1>7. ASSUME NEW e \in Destroying PROVE d.impl <= e.impl
  <2>1. PICK k \in 1..n : e = destroyEvents[k]
    BY <1>2 DEF Destroying, SeqExt!ToSet
  <2>2. d.impl \in Nat /\ e.impl \in Nat
    BY <1>1, ImplNumbers
  <2>3. k = 1 \/ 1 < k
    BY <1>2
  <2> QED  BY <1>2, <1>4, <2>1, <2>2, <2>3 DEF OnceOK, DestroyOrdered
<1>8. d \in handles
  BY DEF OnceOK
<1>9. ASSUME NEW e \in events, e.impl = d.impl PROVE FALSE
  <2>1. e = d
    BY <1>8, <1>9 DEF NamesOK
  <2> QED  BY <2>1 DEF NamesOK
<1>10. \A x \in Waiting : x.impl # d.impl
  BY <1>8 DEF NamesOK
<1> QED  BY <1>4, <1>5, <1>6, <1>7, <1>9, <1>10

LEMMA OnceDestroy ==
  ASSUME IInv, NamesOK, OnceOK, ProcessOneDestroyEvent
  PROVE  OnceOK'
<1>1. PICK d \in Destroying :
           /\ d = destroyEvents[1]
           /\ ran' = IF d.impl \in cancelled THEN ran ELSE ran \cup {d.impl}
           /\ \A e \in events \cup Waiting : e.impl # d.impl
           /\ destroyEvents' \in Seq(EventId)
           /\ Erased(destroyEvents, destroyEvents', 1)
           /\ UNCHANGED <<queueVars, eventsWithContext, impls, cancelled,
                          handles, revoked, disposed>>
  BY FirstDestroyed
<1>2. UNCHANGED events
  BY <1>1 DEF queueVars
<1>3. UNCHANGED <<Waiting, DistinctWaiting>>
  BY <1>1 DEF Waiting, DistinctWaiting
<1>4. TypeOK /\ DistinctWaiting /\ d.impl <= impls
  BY DEF IInv, OnceOK, NamesOK
<1>5. /\ DestroyOrdered' /\ Destroying' \subseteq Destroying
      /\ \A e \in Destroying' : e.impl # d.impl
  BY <1>1, <1>4, DestroyErases
<1>6. \A i \in ran' : i \in ran \/ i = d.impl
  BY <1>1
<1>7. \A i \in ran' : i \in ran \/
        /\ i <= impls
        /\ \A x \in events' \cup Destroying' \cup Waiting' : x.impl # i
  BY <1>1, <1>2, <1>3, <1>4, <1>5, <1>6
<1>8. /\ events' \subseteq events /\ Destroying' \subseteq Destroying
      /\ Waiting' \subseteq Waiting /\ DistinctWaiting' /\ DestroyOrdered'
      /\ UNCHANGED <<handles, impls>> /\ cancelled \subseteq cancelled'
      /\ \A i \in cancelled' : i \in cancelled
      /\ \A i \in revoked' : i \in revoked
      /\ \A i \in disposed' : i \in disposed
  BY <1>1, <1>2, <1>3, <1>4, <1>5
<1> QED  BY <1>7, <1>8, OnceShrink

LEMMA OnceDisposeNext ==
  ASSUME IInv, NamesOK, OnceOK, DisposeNext
  PROVE  OnceOK'
<1>1. PICK next \in events : /\ events' = events \ {next}
                             /\ disposed' = disposed \cup {next.impl}
  BY DEF DisposeNext
<1>2. UNCHANGED <<destroyEvents, eventsWithContext, impls, cancelled, handles,
                  ran, revoked>>
  BY DEF DisposeNext
<1>3. UNCHANGED <<Destroying, Waiting, DistinctWaiting, DestroyOrdered>>
  BY <1>2 DEF Destroying, Waiting, DistinctWaiting, DestroyOrdered
<1>4. DistinctWaiting /\ DestroyOrdered
  BY DEF OnceOK
<1>5. \A i \in disposed' : i \in disposed \/
        /\ i <= impls
        /\ \A x \in events' \cup Destroying' \cup Waiting' : x.impl # i
  BY <1>1, <1>3, QueuedOnly
<1> QED  BY <1>1, <1>2, <1>3, <1>4, <1>5, OnceShrink

LEMMA OnceDelete ==
  ASSUME IInv, NamesOK, OnceOK, Delete
  PROVE  OnceOK'
<1>1. /\ events = {}
      /\ disposed' = disposed \cup {eventsWithContext[k].impl :
                                      k \in DOMAIN eventsWithContext}
      /\ eventsWithContext' = <<>>
      /\ UNCHANGED <<events, destroyEvents, impls, cancelled, handles, ran,
                     revoked>>
  BY DEF Delete, queueVars
<1>2. /\ Waiting' = {} /\ Destroying' = Destroying
      /\ DistinctWaiting' /\ DestroyOrdered'
  BY <1>1 DEF Waiting, Destroying, SeqExt!ToSet, DistinctWaiting,
              DestroyOrdered, OnceOK
<1>3. ASSUME NEW k \in DOMAIN eventsWithContext
      PROVE  /\ eventsWithContext[k].impl <= impls
             /\ \A d \in Destroying : d.impl # eventsWithContext[k].impl
  <2>1. eventsWithContext[k] \in Waiting
    BY DEF Waiting, SeqExt!ToSet
  <2> QED  BY <2>1 DEF NamesOK, OnceOK
<1>4. \A i \in disposed' : i \in disposed \/
        /\ i <= impls
        /\ \A x \in events' \cup Destroying' \cup Waiting' : x.impl # i
  BY <1>1, <1>2, <1>3
<1> QED  BY <1>1, <1>2, <1>4, OnceShrink

LEMMA OnceNext ==
  IInv /\ NamesOK /\ OnceOK /\ [Next]_vars => OnceOK'
<1> SUFFICES ASSUME IInv, NamesOK, OnceOK, [Next]_vars PROVE OnceOK'
  OBVIOUS
<1>1. CASE Run \/ EventReturns \/ DoDispose
  <2>1. /\ ProcessEventsWithContext
        /\ UNCHANGED <<destroyEvents, impls, handles, ran, cancelled, revoked,
                       disposed>>
    BY <1>1 DEF Run, EventReturns, DoDispose, historyVars
  <2> QED  BY <2>1, OnceTakeIn DEF IInv
<1>2. CASE \/ Stop \/ Destroy \/ RunReturns \/ DestroyEventReturns \/ GetImpl
           \/ UNCHANGED vars
  <2>1. UNCHANGED <<events, destroyEvents, eventsWithContext, impls, handles,
                    ran, cancelled, revoked, disposed>>
    BY <1>2 DEF Stop, Destroy, RunReturns, DestroyEventReturns, GetImpl, Fault,
                vars, queueVars, historyVars
  <2> QED  BY <2>1 DEF OnceOK, Gone, Waiting, Destroying, DistinctWaiting,
                       DestroyOrdered
<1> QED
  BY <1>1, <1>2, OnceCalls, OnceCancel, OnceRemove, OnceProcess, OnceDestroy,
     OnceDisposeNext, OnceDelete DEF Next

LEMMA OnceInit == Init => OnceOK
<1> SUFFICES ASSUME Init PROVE OnceOK
  OBVIOUS
<1>1. /\ events = {} /\ handles = {} /\ impls = 0 /\ 0 <= MaxImpls
      /\ destroyEvents = <<>> /\ eventsWithContext = <<>>
      /\ ran = {} /\ cancelled = {} /\ revoked = {} /\ disposed = {}
  BY BoundAssumption DEF Init
<1>2. Destroying = {} /\ Waiting = {}
  BY <1>1 DEF Destroying, Waiting, SeqExt!ToSet
<1>3. DistinctWaiting /\ DestroyOrdered
  BY <1>1 DEF DistinctWaiting, DestroyOrdered
<1> QED  BY <1>1, <1>2, <1>3 DEF OnceOK, Gone

AllInv == IInv /\ NamesOK /\ OnceOK

LEMMA AllAlways == Spec => []AllInv
<1>1. Init => AllInv
  BY IInvInit, NamesInit, OnceInit DEF AllInv
<1>2. AllInv /\ [Next]_vars => AllInv'
  BY IInvNext, NamesNext, OnceNext DEF AllInv
<1> QED  BY <1>1, <1>2, PTL DEF Spec

-----------------------------------------------------------------------------
\* In every life, Destroy executes the destroy events in the order they were
\* scheduled in, each at most once, nothing else, and none that was cancelled
\* or removed (DefaultSimulatorImpl::Destroy).
THEOREM DestroysInOrder == Spec => DestroyInOrder
<1> DEFINE Ordered ==
      phase = "destroying" /\ phase' = "destroyEvent" =>
        /\ running' \in DestroyImpls \ (ran \cup revoked \cup disposed)
        /\ \A i \in DestroyImpls : running' <= i
<1>1. AllInv /\ [Next]_vars => [Ordered]_vars
  <2> SUFFICES ASSUME AllInv, Next, phase = "destroying", phase' = "destroyEvent"
               PROVE  /\ running' \in DestroyImpls \ (ran \cup revoked \cup disposed)
                      /\ \A i \in DestroyImpls : running' <= i
    OBVIOUS
  <2> USE DEF AllInv
  <2>1. ProcessOneDestroyEvent
    BY DEF Next, Schedule, ScheduleNow, ScheduleAt, CallerRuns,
       ScheduleWithContext, WorkerScheduleWithContext, ScheduleDestroy, Cancel,
       Remove, Stop, Run, RunReturns, ProcessOneEvent, EventReturns, Destroy,
       DestroyEventReturns, DoDispose, DisposeNext, Delete, GetImpl
  <2>2. PICK d \in Destroying :
           /\ running' = d.impl
           /\ d.impl \notin cancelled
           /\ \A e \in Destroying : d.impl <= e.impl
    BY <2>1, FirstDestroyed
  <2>3. d.impl \in DestroyImpls
    BY <2>2 DEF DestroyImpls, Destroying
  <2>4. d.impl \notin ran \cup revoked \cup disposed
    BY <2>2 DEF OnceOK
  <2>5. \A i \in DestroyImpls : \E e \in Destroying : i = e.impl
    BY DEF DestroyImpls, Destroying
  <2> QED  BY <2>2, <2>3, <2>4, <2>5
<1>2. Spec => [][Ordered]_vars
  BY <1>1, AllAlways, PTL DEF Spec
<1> QED  BY <1>2 DEF DestroyInOrder

-----------------------------------------------------------------------------
(***************************************************************************)
(* The abstract simulation.  An entry of the queue that was not cancelled  *)
(* is a pending activity; a destroy event is none, so its execution and    *)
(* its removal are no steps of the abstract simulation.  The end of a life *)
(* drops what is pending, and forgets what came too late to be.            *)
(***************************************************************************)
ActivityOf(e) == [act |-> e.impl, due |-> e.ts, ticket |-> e.uid]
Activities == {ActivityOf(e) : e \in Pending}

NotDestroy(set) == {i \in set : ~OfDestroy(i)}
Done == NotDestroy(ran)
Dropped == NotDestroy(revoked \cup disposed)

simSource == <<currentTs, Done, Dropped>>

\* New entries are new activities.
LEMMA AddStep ==
  ASSUME AllInv, NEW new \in SUBSET EventId, new # {},
         Pending' = Pending \cup new, uid' \in Nat, UNCHANGED simSource,
         \A e \in new : /\ e.uid >= uid /\ e.uid < uid' /\ e.ts >= currentTs
                        /\ e.impl \in ImplId
                        /\ e.impl \notin ran \cup revoked \cup disposed
                        /\ \A f \in Pending : f.impl # e.impl,
         \A e, f \in new : e.impl = f.impl \/ e.uid = f.uid => e = f
  PROVE  Sim!Add
<1> DEFINE fresh == {ActivityOf(e) : e \in new}
<1>1. /\ Activities' = Activities \cup fresh
      /\ \A x \in fresh : x \notin Activities
  BY DEF Activities, ActivityOf
<1>2. Activities' \ Activities = fresh /\ Activities \subseteq Activities'
  BY <1>1
<1>3. fresh # {}
  OBVIOUS
<1>4. \A a \in Sim!Acts(fresh) : \E e \in new : a = e.impl
  <2>1. \A a \in Sim!Acts(fresh) : \E x \in fresh : a = x.act
    BY DEF Sim!Acts
  <2>2. \A x \in fresh : \E e \in new : x.act = e.impl
    BY DEF ActivityOf
  <2> QED  BY <2>1, <2>2
<1>5. \A a \in Sim!Acts(Activities) : \E e \in Pending : a = e.impl
  <2>1. \A a \in Sim!Acts(Activities) : \E x \in Activities : a = x.act
    BY DEF Sim!Acts
  <2>2. \A x \in Activities : \E e \in Pending : x.act = e.impl
    BY DEF Activities, ActivityOf
  <2> QED  BY <2>1, <2>2
<1>6. Sim!Acts(fresh) \subseteq ImplId \ (Sim!Acts(Activities) \cup Done \cup Dropped)
  BY <1>4, <1>5 DEF Done, Dropped, NotDestroy, OfDestroy
<1>7. Sim!Takes(fresh)
  <2>1. ASSUME NEW e \in new
        PROVE  ActivityOf(e).due >= currentTs /\ ActivityOf(e).ticket >= uid
    BY DEF ActivityOf
  <2>2. ASSUME NEW e \in new, NEW f \in new, ActivityOf(e) # ActivityOf(f)
        PROVE  /\ ActivityOf(e).act # ActivityOf(f).act
               /\ ActivityOf(e).ticket # ActivityOf(f).ticket
    <3>1. e # f
      BY <2>2
    <3>2. e.impl # f.impl /\ e.uid # f.uid
      BY <3>1
    <3> QED  BY <3>2 DEF ActivityOf
  <2> QED  BY <2>1, <2>2 DEF Sim!Takes
<1>8. \A x \in fresh : x.ticket < uid'
  <2>1. \A e \in new : ActivityOf(e).ticket = e.uid /\ e.uid < uid'
    BY DEF ActivityOf
  <2> QED  BY <2>1
<1>9. UNCHANGED <<currentTs, Done, Dropped>>
  BY DEF simSource
<1> HIDE DEF fresh
<1> QED
  BY <1>2, <1>3, <1>6, <1>7, <1>8, <1>9
     DEF Sim!Add, Sim!Fresh, Activities, ActivityOf, Done, Dropped, NotDestroy,
         OfDestroy

\* A call for a new EventImpl says nothing about those that are done.
LEMMA NewIsNotDone ==
  ASSUME AllInv, NEW e, e.impl = impls + 1,
         handles' \in {handles, handles \cup {e}},
         UNCHANGED <<ran, revoked, disposed>>
  PROVE  UNCHANGED <<Done, Dropped>>
<1>1. \A i \in ran \cup revoked \cup disposed : i \in Nat /\ i <= impls
  BY DEF AllInv, IInv, TypeOK, OnceOK, Gone
<1>2. impls \in Nat
  BY DEF AllInv, IInv, TypeOK
<1>3. \A i \in ran \cup revoked \cup disposed : i # e.impl
  BY <1>1, <1>2
<1>4. \A i \in ran \cup revoked \cup disposed :
        OfDestroy(i)' <=> OfDestroy(i)
  BY <1>3 DEF OfDestroy
<1> QED  BY <1>4 DEF Done, Dropped, NotDestroy

\* What Schedule and ScheduleWithContext enter in the queue.
LEMMA NewStep ==
  ASSUME AllInv, NEW e \in EventId,
         e.uid = uid, e.impl = impls + 1, e.ts >= currentTs, impls < MaxImpls,
         events' = events \cup {e}, uid' = uid + 1,
         handles' \in {handles, handles \cup {e}},
         UNCHANGED <<currentTs, cancelled, ran, revoked, disposed>>
  PROVE  Sim!Add
<1> USE DEF AllInv
<1>1. /\ impls \in Nat /\ MaxImpls \in Nat /\ uid \in Nat
      /\ \A f \in events : f.impl \in Nat /\ f.impl <= impls
      /\ \A i \in Gone : i \in Nat /\ i <= impls
  BY ImplNumbers, BoundAssumption DEF IInv, TypeOK, OnceOK, Gone
<1>2. /\ e.impl \notin Gone /\ e.impl \in ImplId
      /\ \A f \in events : f.impl # e.impl
  BY <1>1 DEF ImplId
<1>3. Pending' = Pending \cup {e}
  BY <1>2 DEF Pending, Gone
<1>4. UNCHANGED simSource
  BY NewIsNotDone DEF simSource
<1> DEFINE new == {e}
<1>5. /\ new \in SUBSET EventId /\ new # {} /\ Pending' = Pending \cup new
      /\ uid' \in Nat
      /\ \A x \in new : /\ x.uid >= uid /\ x.uid < uid' /\ x.ts >= currentTs
                        /\ x.impl \in ImplId
                        /\ x.impl \notin ran \cup revoked \cup disposed
                        /\ \A f \in Pending : f.impl # x.impl
      /\ \A x, y \in new : x.impl = y.impl \/ x.uid = y.uid => x = y
  BY <1>1, <1>2, <1>3 DEF Gone, Pending
<1> HIDE DEF new
<1> QED  BY <1>4, <1>5, AddStep

\* What the other threads scheduled enters the queue in one go.
LEMMA BatchStep ==
  ASSUME AllInv, Run \/ EventReturns \/ DoDispose
  PROVE  Sim!Add \/ UNCHANGED <<Pending, uid, simSource>>
<1> USE DEF AllInv
<1>0. /\ Len(eventsWithContext) \in Nat
      /\ DOMAIN eventsWithContext = 1..Len(eventsWithContext)
      /\ uid \in Nat
  BY DEF IInv, TypeOK
<1>1. /\ events' = events \cup Batch
      /\ uid' = uid + Len(eventsWithContext)
      /\ UNCHANGED <<currentTs, cancelled, ran, revoked, disposed, handles>>
  BY DEF Run, EventReturns, DoDispose, ProcessEventsWithContext, currentVars,
         historyVars
<1>2. UNCHANGED simSource
  BY <1>1 DEF simSource, Done, Dropped, NotDestroy, OfDestroy
<1>3. \A e \in Batch : \E x \in Waiting : e.impl = x.impl
  BY DEF Batch, Waiting, SeqExt!ToSet
<1>4. Pending' = Pending \cup Batch
  BY <1>1, <1>3 DEF Pending, OnceOK
<1>5. CASE Batch = {}
  <2>1. DOMAIN eventsWithContext = {}
    <3>1. \A i \in DOMAIN eventsWithContext : BatchEntry(i) \in Batch
      BY DEF Batch, BatchEntry
    <3> QED  BY <1>5, <3>1
  <2>2. Len(eventsWithContext) = 0
    <3> DEFINE n == Len(eventsWithContext)
    <3>1. n \in Nat /\ 1..n = {}
      BY <1>0, <2>1
    <3> HIDE DEF n
    <3>2. n = 0
      BY <3>1
    <3> QED  BY <3>2 DEF n
  <2>3. uid' = uid
    BY <1>0, <1>1, <2>2
  <2> QED  BY <1>2, <1>4, <1>5, <2>3
<1>6. CASE Batch # {}
  <2>1. /\ Batch \in SUBSET EventId /\ uid' \in Nat
        /\ \A e \in Batch : e.uid >= uid /\ e.uid < uid' /\ e.ts >= currentTs
        /\ \A e, f \in Batch : e.uid = f.uid => e = f
    BY <1>0, <1>1, BatchFacts DEF IInv
  <2>2. \A e \in Batch :
          /\ e.impl \in ImplId /\ e.impl \notin ran \cup revoked \cup disposed
          /\ \A f \in Pending : f.impl # e.impl
    BY <1>3 DEF OnceOK, Pending
  <2>3. \A e, f \in Batch : e.impl = f.impl => e = f
    BY DEF OnceOK, DistinctWaiting, Batch
  <2> QED  BY <1>2, <1>4, <1>6, <2>1, <2>2, <2>3, AddStep
<1> QED  BY <1>5, <1>6

\* What is neither pending nor done may be forgotten.
LEMMA ForgetStep ==
  ASSUME NEW gone, gone \subseteq ImplId \ (PendingImpls \cup Done),
         Pending' = Pending, Done' = Done, Dropped' = Dropped \cup gone,
         UNCHANGED <<currentTs, uid>>
  PROVE  Sim!Forget
<1> DEFINE new == gone \ Dropped
<1>1. Dropped' = Dropped \cup new
  OBVIOUS
<1>2. Sim!Acts(Activities) \subseteq PendingImpls
  BY DEF Sim!Acts, Activities, ActivityOf, PendingImpls
<1>3. new \in SUBSET (ImplId \ (Sim!Acts(Activities) \cup Done \cup Dropped))
  BY <1>2
<1>4. Activities' = Activities
  BY DEF Activities
<1> HIDE DEF new
<1> QED
  BY <1>1, <1>3, <1>4
     DEF Sim!Forget, Sim!Fresh, Activities, ActivityOf, Done, Dropped, NotDestroy

\* Cancel and Remove of an event drop its activity, if it is still pending.
LEMMA DropStep ==
  ASSUME AllInv, NEW id \in handles, id.uid # DestroyUid,
         Pending' = {e \in Pending : e.impl # id.impl},
         revoked' = revoked \cup ({id.impl} \cap PendingImpls),
         UNCHANGED <<currentTs, uid, ran, disposed, handles>>
  PROVE  Sim!Drop \/ UNCHANGED <<Pending, uid, simSource>>
<1>1. Done' = Done
  BY DEF Done, NotDestroy, OfDestroy
<1>2. CASE id.impl \notin PendingImpls
  <2>1. Pending' = Pending /\ revoked' = revoked
    BY <1>2 DEF PendingImpls
  <2>2. Dropped' = Dropped
    BY <2>1 DEF Dropped, NotDestroy, OfDestroy
  <2> QED  BY <1>1, <2>1, <2>2 DEF simSource
<1>3. CASE id.impl \in PendingImpls
  <2>1. PICK e \in Pending : e.impl = id.impl
    BY <1>3 DEF PendingImpls
  <2>2. \A f \in Pending : f.impl = e.impl => f = e
    BY DEF AllInv, OnceOK, Pending
  <2>3. Pending' = Pending \ {e} /\ revoked' = revoked \cup {e.impl}
    BY <1>3, <2>1, <2>2
  <2>4. \A f \in Pending : f # e => ActivityOf(f) # ActivityOf(e)
    BY <2>2 DEF ActivityOf
  <2>5. Activities' = Activities \ {ActivityOf(e)}
    BY <2>3, <2>4 DEF Activities
  <2>6. ActivityOf(e) \in Activities /\ ActivityOf(e).act = e.impl
    BY DEF Activities, ActivityOf
  <2>7. \A h \in handles : h.impl = e.impl => h.uid # DestroyUid
    BY <2>1 DEF AllInv, OnceOK
  <2>8. Dropped' = Dropped \cup {e.impl}
    BY <2>3, <2>7 DEF Dropped, NotDestroy, OfDestroy
  <2> QED
    BY <1>1, <2>5, <2>6, <2>8
       DEF Sim!Drop, Activities, ActivityOf, Done, Dropped, NotDestroy, OfDestroy
<1> QED  BY <1>2, <1>3

\* Those of a destroy event drop nothing.
LEMMA DestroyDropsNothing ==
  ASSUME AllInv, NEW id \in handles, id.uid = DestroyUid,
         revoked' \in {revoked, revoked \cup {id.impl}},
         UNCHANGED <<handles, ran, disposed, currentTs>>
  PROVE  UNCHANGED simSource
<1>1. Done' = Done
  BY DEF Done, NotDestroy, OfDestroy
<1>2. Dropped' = Dropped
  BY DEF Dropped, NotDestroy, OfDestroy
<1> QED  BY <1>1, <1>2 DEF simSource

LEMMA CancelSim ==
  ASSUME AllInv, Cancel
  PROVE  Sim!Drop \/ UNCHANGED <<Pending, uid, simSource>>
<1> USE DEF AllInv
<1>1. PICK id \in handles :
        /\ cancelled' = IF IsExpired(id) THEN cancelled
                        ELSE cancelled \cup {id.impl}
        /\ revoked' = revoked \cup
                        ({id.impl} \cap (PendingImpls \cup DestroyImpls))
  BY DEF Cancel
<1>2. UNCHANGED <<currentTs, uid, ran, disposed, events, handles>>
  BY DEF Cancel, queueVars, currentVars
<1>3. cancelled' \in {cancelled, cancelled \cup {id.impl}}
  BY <1>1
<1>4. CASE id.uid = DestroyUid
  <2>1. \A e \in events : e.impl # id.impl
    BY <1>4 DEF NamesOK
  <2>2. Pending' = Pending
    BY <1>2, <1>3, <2>1 DEF Pending
  <2>3. revoked' \in {revoked, revoked \cup {id.impl}}
    BY <1>1
  <2> QED  BY <1>2, <1>4, <2>2, <2>3, DestroyDropsNothing
<1>5. CASE id.uid # DestroyUid
  <2>1. id.impl \notin DestroyImpls
    <3>1. \A d \in Destroying : d.impl # id.impl
      BY <1>5 DEF NamesOK
    <3> QED  BY <3>1 DEF DestroyImpls, Destroying
  <2>2. revoked' = revoked \cup ({id.impl} \cap PendingImpls)
    BY <1>1, <2>1
  <2>3. id.impl \in PendingImpls => cancelled' = cancelled \cup {id.impl}
    BY <1>1, PendingNotExpired
  <2>4. id.impl \notin PendingImpls => \A e \in Pending : e.impl # id.impl
    BY DEF PendingImpls
  <2>5. Pending' = {e \in Pending : e.impl # id.impl}
    BY <1>2, <1>3, <2>3, <2>4 DEF Pending
  <2> QED  BY <1>2, <1>5, <2>2, <2>5, DropStep
<1> QED  BY <1>4, <1>5

LEMMA RemoveSim ==
  ASSUME AllInv, Remove
  PROVE  Sim!Drop \/ UNCHANGED <<Pending, uid, simSource>>
<1> USE DEF AllInv
<1>1. PICK id \in handles :
        \/ id.uid = DestroyUid /\ RemoveDestroyEvent(id)
        \/ id.uid # DestroyUid /\ RemoveEvent(id)
  BY DEF Remove
<1>2. CASE id.uid = DestroyUid /\ RemoveDestroyEvent(id)
  <2>1. /\ UNCHANGED <<events, uid, currentTs, cancelled, handles, ran,
                       disposed>>
        /\ revoked' \in {revoked, revoked \cup {id.impl}}
    BY <1>2 DEF RemoveDestroyEvent, queueVars, currentVars
  <2> QED  BY <1>2, <2>1, DestroyDropsNothing DEF Pending
<1>3. CASE id.uid # DestroyUid /\ RemoveEvent(id)
  <2>1. CASE id \notin events
    BY <1>3, <2>1 DEF RemoveEvent, Fault, queueVars, currentVars, historyVars,
                      Pending, simSource, Done, Dropped, NotDestroy, OfDestroy
  <2>2. CASE id \in events
    <3>1. /\ events' = events \ {id}
          /\ cancelled' = cancelled \cup {id.impl}
          /\ revoked' = revoked \cup ({id.impl} \cap PendingImpls)
          /\ UNCHANGED <<currentTs, uid, ran, disposed, handles>>
      BY <1>3, <2>2 DEF RemoveEvent, TakeOut, currentVars
    <3>2. Pending' = {e \in Pending : e.impl # id.impl}
      BY <2>2, <3>1 DEF Pending
    <3> QED  BY <1>3, <3>1, <3>2, DropStep
  <2> QED  BY <2>1, <2>2
<1> QED  BY <1>1, <1>2, <1>3

\* The first entry of the queue is the earliest pending activity.  One that
\* was cancelled is taken out as well, and only time passes.
LEMMA ExecuteStep ==
  ASSUME AllInv, ProcessOneEvent
  PROVE  Sim!Execute \/ Sim!Elapse \/ UNCHANGED <<Pending, uid, simSource>>
<1> USE DEF AllInv
<1>1. PICK next \in events :
        /\ IsFirst(next, events)
        /\ \/ Fault("TimeRunsBack")
           \/ /\ events' = events \ {next}
              /\ currentTs' = next.ts
              /\ ran' = IF next.impl \in cancelled THEN ran
                        ELSE ran \cup {next.impl}
              /\ UNCHANGED <<uid, cancelled, handles, revoked, disposed>>
  BY DEF ProcessOneEvent, TakeOut, InvokedAs
<1>2. CASE Fault("TimeRunsBack")
  BY <1>2 DEF Fault, queueVars, currentVars, historyVars, Pending, simSource,
              Done, Dropped, NotDestroy, OfDestroy
<1>3. CASE /\ events' = events \ {next}
           /\ currentTs' = next.ts
           /\ ran' = IF next.impl \in cancelled THEN ran
                     ELSE ran \cup {next.impl}
           /\ UNCHANGED <<uid, cancelled, handles, revoked, disposed>>
  <2>1. Dropped' = Dropped
    BY <1>3 DEF Dropped, NotDestroy, OfDestroy
  <2>2. /\ \A e \in events : e.ts \in Nat /\ e.uid \in Nat
        /\ currentTs \in Nat /\ next.ts >= currentTs
    <3>1. currentTs \in Nat /\ \A e \in events : e.ts \in Nat /\ e.uid \in Nat
      BY DEF IInv, TypeOK, EventId
    <3>2. next.ts > currentTs \/ next.ts = currentTs
      BY DEF IInv, QueueOK, QueueAhead
    <3> QED  BY <3>1, <3>2
  <2>3. \A e \in events : e = next \/ Before(next, e)
    BY <1>1 DEF IsFirst
  <2>4. CASE next.impl \in cancelled
    <3>1. Pending' = Pending /\ ran' = ran
      BY <1>3, <2>4 DEF Pending
    <3>2. Activities' = Activities /\ Done' = Done
      BY <1>3, <3>1 DEF Activities, Done, NotDestroy, OfDestroy
    <3>3. \A x \in Activities : currentTs' <= x.due
      <4>1. \A e \in Pending : next.ts <= e.ts
        BY <2>2, <2>3 DEF Before, Pending
      <4> QED  BY <1>3, <4>1 DEF Activities, ActivityOf
    <3>4. CASE currentTs' = currentTs
      BY <1>3, <2>1, <3>1, <3>2, <3>4 DEF simSource
    <3>5. CASE currentTs' > currentTs
      BY <1>3, <2>1, <3>2, <3>3, <3>5
         DEF Sim!Elapse, Activities, ActivityOf, Done, Dropped, NotDestroy, OfDestroy
    <3> QED  BY <1>3, <2>2, <3>4, <3>5
  <2>5. CASE next.impl \notin cancelled
    <3>1. next \in Pending /\ \A f \in Pending : f.impl = next.impl => f = next
      BY <2>5 DEF Pending, OnceOK
    <3>2. Pending' = Pending \ {next}
      BY <1>3 DEF Pending
    <3>3. \A f \in Pending : f # next => ActivityOf(f) # ActivityOf(next)
      BY <3>1 DEF ActivityOf
    <3>4. Activities' = Activities \ {ActivityOf(next)}
      BY <3>2, <3>3 DEF Activities
    <3>5. /\ ActivityOf(next) \in Activities
          /\ ActivityOf(next).act = next.impl /\ ActivityOf(next).due = next.ts
      BY <3>1 DEF Activities, ActivityOf
    <3>6. \A x \in Activities \ {ActivityOf(next)} :
            Sim!Earlier(ActivityOf(next), x)
      BY <2>3 DEF Activities, ActivityOf, Pending, Before, Sim!Earlier
    <3>7. next.impl \notin ran \cup revoked \cup disposed
      BY <2>5 DEF OnceOK
    <3>8. \A h \in handles : h.impl = next.impl => h.uid # DestroyUid
      BY DEF NamesOK
    <3>9. Done' = Done \cup {next.impl} /\ next.impl \notin Done \cup Dropped
      BY <1>3, <2>5, <3>7, <3>8 DEF Done, Dropped, NotDestroy, OfDestroy
    <3> QED
      BY <1>3, <2>1, <3>4, <3>5, <3>6, <3>9
         DEF Sim!Execute, Activities, ActivityOf, Done, Dropped, NotDestroy,
             OfDestroy
  <2> QED  BY <2>4, <2>5
<1> QED  BY <1>1, <1>2, <1>3

\* ScheduleDestroy takes a ticket for something that is no activity.
LEMMA ScheduleDestroySim ==
  ASSUME AllInv, ScheduleDestroy
  PROVE  Sim!Waste
<1>1. PICK id : /\ id.impl = impls + 1 /\ handles' = handles \cup {id}
                /\ uid' = uid + 1
                /\ UNCHANGED <<events, cancelled, currentTs, ran, revoked,
                               disposed>>
  BY DEF ScheduleDestroy, currentVars
<1>2. Activities' = Activities
  BY <1>1 DEF Activities, Pending
<1>3. UNCHANGED <<Done, Dropped>>
  BY <1>1, NewIsNotDone
<1>4. uid \in Nat /\ uid' \in Nat /\ uid' > uid
  BY <1>1 DEF AllInv, IInv, TypeOK
<1> QED
  BY <1>1, <1>2, <1>3, <1>4
     DEF Sim!Waste, Activities, ActivityOf, Done, Dropped, NotDestroy, OfDestroy

\* The execution of a destroy event is no step of the simulation.
LEMMA DestroySim ==
  ASSUME AllInv, ProcessOneDestroyEvent
  PROVE  UNCHANGED <<Pending, uid, simSource>>
<1> USE DEF AllInv
<1>1. PICK d \in Destroying :
        /\ ran' = IF d.impl \in cancelled THEN ran ELSE ran \cup {d.impl}
        /\ UNCHANGED <<queueVars, currentVars, cancelled, handles, revoked,
                       disposed>>
  BY FirstDestroyed
<1>2. UNCHANGED <<events, uid, currentTs>>
  BY <1>1 DEF queueVars, currentVars
<1>3. d \in handles /\ d.uid = DestroyUid
  BY DEF OnceOK, NamesOK
<1>4. Done' = Done /\ Dropped' = Dropped
  BY <1>1, <1>3 DEF Done, Dropped, NotDestroy, OfDestroy
<1> QED  BY <1>1, <1>2, <1>4 DEF Pending, simSource

\* What DoDispose releases is dropped, unless that has happened before.
LEMMA DisposeSim ==
  ASSUME AllInv, DisposeNext
  PROVE  Sim!Drop \/ Sim!Forget
<1> USE DEF AllInv
<1>1. PICK next \in events : /\ events' = events \ {next}
                             /\ disposed' = disposed \cup {next.impl}
  BY DEF DisposeNext
<1>2. UNCHANGED <<currentTs, uid, cancelled, handles, ran, revoked>>
  BY DEF DisposeNext, currentVars
<1>3. Done' = Done
  BY <1>2 DEF Done, NotDestroy, OfDestroy
<1>4. ~OfDestroy(next.impl)
  BY DEF OfDestroy, NamesOK
<1>5. Dropped' = Dropped \cup {next.impl}
  BY <1>1, <1>2, <1>4 DEF Dropped, NotDestroy, OfDestroy
<1>6. Pending' = Pending \ {next}
  BY <1>1, <1>2 DEF Pending
<1>7. \A f \in Pending : f.impl = next.impl => f = next
  BY DEF Pending, OnceOK
<1>8. CASE next \in Pending
  <2>1. \A f \in Pending : f # next => ActivityOf(f) # ActivityOf(next)
    BY <1>7 DEF ActivityOf
  <2>2. Activities' = Activities \ {ActivityOf(next)}
    BY <1>6, <2>1 DEF Activities
  <2>3. ActivityOf(next) \in Activities /\ ActivityOf(next).act = next.impl
    BY <1>8 DEF Activities, ActivityOf
  <2> QED
    BY <1>2, <1>3, <1>5, <2>2, <2>3
       DEF Sim!Drop, Activities, ActivityOf, Done, Dropped, NotDestroy
<1>9. CASE next \notin Pending
  <2>1. Pending' = Pending
    BY <1>6, <1>9
  <2>2. {next.impl} \subseteq ImplId \ (PendingImpls \cup Done)
    <3>1. \A f \in Pending : f.impl # next.impl
      BY <1>7, <1>9
    <3>2. next.impl \in ImplId
      BY DEF OnceOK
    <3>3. next.impl \notin ran
      BY DEF OnceOK
    <3> QED  BY <3>1, <3>2, <3>3 DEF PendingImpls, Done, NotDestroy
  <2> QED  BY <1>2, <1>3, <1>5, <2>1, <2>2, ForgetStep
<1> QED  BY <1>8, <1>9

\* What is lost with the list of other threads' events was never pending.
LEMMA DeleteSim ==
  ASSUME AllInv, Delete
  PROVE  Sim!Forget
<1> USE DEF AllInv
<1> DEFINE gone == {eventsWithContext[k].impl : k \in DOMAIN eventsWithContext}
<1>1. /\ events = {}
      /\ disposed' = disposed \cup gone
      /\ UNCHANGED <<events, uid, currentTs, cancelled, handles, ran, revoked>>
  BY DEF Delete, queueVars, currentVars
<1>2. Done' = Done
  BY <1>1 DEF Done, NotDestroy, OfDestroy
<1>3. \A i \in gone : \E x \in Waiting : i = x.impl
  BY DEF Waiting, SeqExt!ToSet
<1> HIDE DEF gone
<1>4. \A i \in gone : ~OfDestroy(i) /\ i \in ImplId /\ i \notin ran
  BY <1>3 DEF OfDestroy, NamesOK, OnceOK
<1>5. Dropped' = Dropped \cup gone
  BY <1>1, <1>4 DEF Dropped, NotDestroy, OfDestroy
<1>6. Pending' = Pending /\ Pending = {}
  BY <1>1 DEF Pending
<1>7. gone \subseteq ImplId \ (PendingImpls \cup Done)
  BY <1>4, <1>6 DEF PendingImpls, Done, NotDestroy
<1> QED  BY <1>1, <1>2, <1>5, <1>6, <1>7, ForgetStep

\* The next object has no events, and its time starts over.
LEMMA GetImplSim ==
  ASSUME AllInv, GetImpl
  PROVE  Sim!Restart
<1> USE DEF AllInv
<1>1. /\ events = {} /\ currentTs' = 0 /\ uid' \in Nat
      /\ UNCHANGED <<events, cancelled, handles, ran, revoked, disposed>>
  BY DEF GetImpl, IInv, LateOK, historyVars, FirstUid
<1>2. UNCHANGED <<Done, Dropped>>
  BY <1>1 DEF Done, Dropped, NotDestroy, OfDestroy
<1>3. Activities' = Activities /\ Activities = {}
  BY <1>1 DEF Activities, Pending
<1> QED
  BY <1>1, <1>2, <1>3
     DEF Sim!Restart, Activities, ActivityOf, Done, Dropped, NotDestroy

LEMMA StepImplements ==
  ASSUME AllInv, [Next]_vars
  PROVE  [Sim!SimNext \/ Sim!Forget \/ Sim!Restart]_(Sim!simVars)
<1> USE DEF AllInv
<1>1. CASE UNCHANGED <<Pending, uid, simSource>>
  BY <1>1 DEF Sim!simVars, simSource, Done, Dropped, NotDestroy, OfDestroy
<1>2. CASE UNCHANGED <<events, uid, currentTs, cancelled, handles, ran, revoked,
                       disposed>>
  BY <1>1, <1>2 DEF Pending, simSource, Done, Dropped, NotDestroy, OfDestroy
<1>3. CASE Schedule \/ ScheduleNow \/ ScheduleWithContext
  <2>1. PICK e : /\ e \in EventId /\ e.uid = uid /\ e.impl = impls + 1
                 /\ e.ts >= currentTs /\ InsertEvent(e)
                 /\ handles' \in {handles, handles \cup {e}}
    <3>1. CASE Schedule \/ ScheduleNow
      <4>1. PICK ts \in Nat : ts >= currentTs /\ ScheduleAt(ts)
        BY <3>1, DelayAssumption DEF Schedule, ScheduleNow, IInv, TypeOK
      <4> DEFINE e == [uid |-> uid, ts |-> ts, ctx |-> currentContext,
                       impl |-> impls + 1]
      <4>2. e \in EventId /\ e.uid = uid /\ e.impl = impls + 1 /\ e.ts >= currentTs
        BY <4>1 DEF IInv, TypeOK, EventId
      <4>3. InsertEvent(e) /\ handles' = handles \cup {e}
        BY <4>1 DEF ScheduleAt
      <4> QED  BY <4>2, <4>3
    <3>2. CASE ScheduleWithContext
      <4>1. PICK ctx \in Node, d \in Delay :
              InsertEvent([uid |-> uid, ts |-> currentTs + d, ctx |-> ctx,
                           impl |-> impls + 1])
        BY <3>2 DEF ScheduleWithContext
      <4> DEFINE e == [uid |-> uid, ts |-> currentTs + d, ctx |-> ctx,
                       impl |-> impls + 1]
      <4>2. e \in EventId /\ e.uid = uid /\ e.impl = impls + 1 /\ e.ts >= currentTs
        BY DelayAssumption DEF IInv, TypeOK, EventId, Context
      <4>3. InsertEvent(e) /\ handles' = handles
        BY <3>2, <4>1 DEF ScheduleWithContext, historyVars
      <4> QED  BY <4>2, <4>3
    <3> QED  BY <1>3, <3>1, <3>2
  <2>2. /\ impls < MaxImpls
        /\ UNCHANGED <<currentTs, cancelled, ran, revoked, disposed>>
    BY <1>3 DEF Schedule, ScheduleNow, ScheduleAt, ScheduleWithContext,
                currentVars, historyVars
  <2>3. events' = events \cup {e} /\ uid' = uid + 1
    BY <2>1 DEF InsertEvent
  <2> QED  BY <2>1, <2>2, <2>3, NewStep DEF Sim!SimNext
<1>4. CASE ScheduleDestroy
  BY <1>4, ScheduleDestroySim DEF Sim!SimNext
<1>5. CASE WorkerScheduleWithContext \/ Stop \/ RunReturns \/ Destroy
             \/ DestroyEventReturns \/ UNCHANGED vars
  BY <1>2, <1>5 DEF WorkerScheduleWithContext, Stop, RunReturns, Destroy,
     DestroyEventReturns, Fault, vars, queueVars, currentVars, historyVars
<1>6. CASE Cancel
  BY <1>1, <1>6, CancelSim DEF Sim!SimNext
<1>7. CASE Remove
  BY <1>1, <1>7, RemoveSim DEF Sim!SimNext
<1>8. CASE Run \/ EventReturns \/ DoDispose
  BY <1>1, <1>8, BatchStep DEF Sim!SimNext
<1>9. CASE ProcessOneEvent
  BY <1>1, <1>9, ExecuteStep DEF Sim!SimNext
<1>10. CASE ProcessOneDestroyEvent
  BY <1>1, <1>10, DestroySim
<1>11. CASE DisposeNext
  BY <1>11, DisposeSim DEF Sim!SimNext
<1>12. CASE Delete
  BY <1>12, DeleteSim
<1>13. CASE GetImpl
  BY <1>13, GetImplSim
<1> QED
  BY <1>3, <1>4, <1>5, <1>6, <1>7, <1>8, <1>9, <1>10, <1>11, <1>12, <1>13
     DEF Next

\* The lives of the simulator implement one abstract event simulation: with
\* other threads, destroy events and the ends of lives, an event is executed
\* once, in the order of the time of its life, and neither then nor in a later
\* life when it was cancelled, removed or thrown away before.
THEOREM Implementation == Spec => ImplementsSimulation
<1>1. Init => Sim!SimInit
  <2> SUFFICES ASSUME Init PROVE Sim!SimInit
    OBVIOUS
  <2>1. /\ events = {} /\ uid = 4 /\ currentTs = 0
        /\ ran = {} /\ revoked = {} /\ disposed = {}
    BY DEF Init, FirstUid
  <2>2. Pending = {}
    BY <2>1 DEF Pending
  <2> QED  BY <2>1, <2>2 DEF Sim!SimInit
<1>2. AllInv /\ [Next]_vars
        => [Sim!SimNext \/ Sim!Forget \/ Sim!Restart]_(Sim!simVars)
  BY StepImplements
<1> QED
  BY <1>1, <1>2, AllAlways, PTL DEF Spec, ImplementsSimulation
=============================================================================
