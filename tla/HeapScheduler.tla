--------------------------- MODULE HeapScheduler ---------------------------
(***************************************************************************)
(* src/core: HeapScheduler, a binary heap in an array whose root has index *)
(* 1 (the code keeps an unused element at index 0, so that m_heap.size ()  *)
(* is Len (heap) + 1 here).  The simulator that uses it is the one         *)
(* described in Scheduler.                                                 *)
(***************************************************************************)
EXTENDS EventKey, Sequences

CONSTANTS
  Delay,    \* distances of new events from the current time
  MaxEvents \* bound: events inserted

VARIABLES
  heap,      \* m_heap from index 1
  misplaced, \* history: events that Remove has put below a later one
  uid,       \* the simulator's m_uid
  now,       \* the simulator's m_currentTs
  next       \* the result of the last RemoveNext

vars == <<heap, misplaced, uid, now, next>>

Event == [ts : Nat, uid : Nat]
Nothing == [ts |-> 0, uid |-> 0]
FirstUid == 4

Exch(h, a, b) == [h EXCEPT ![a] = h[b], ![b] = h[a]]

-----------------------------------------------------------------------------
\* A loop over the heap is the sequence of its turns: m_heap and index before
\* each of them.  A turn that changes nothing is the end of the loop.

\* Wrong: stops one level below the root.
RiseToSecondLevel(s) ==
  LET parent == s.index \div 2 IN
  IF s.index <= 3 \/ ~Before(s.heap[s.index], s.heap[parent])
  THEN s
  ELSE [heap |-> Exch(s.heap, s.index, parent), index |-> parent]

\* The loop of BottomUp.
Rise(s) ==
  LET parent == s.index \div 2 IN
  IF s.index = 1 \/ ~Before(s.heap[s.index], s.heap[parent])
  THEN s
  ELSE [heap |-> Exch(s.heap, s.index, parent), index |-> parent]

BottomUp(h) ==
  LET turn[k \in 0..Len(h)] == IF k = 0 THEN [heap |-> h, index |-> Len(h)]
                                        ELSE Rise(turn[k - 1])
  IN  turn[Len(h)].heap

\* The loop of TopDown and what follows it: a node may have a left child only.
Sink(s) ==
  LET left == 2 * s.index
      right == left + 1
      smallest == IF right > Len(s.heap) \/ Before(s.heap[left], s.heap[right])
                  THEN left ELSE right
  IN  IF left > Len(s.heap) \/ Before(s.heap[s.index], s.heap[smallest])
      THEN s
      ELSE [heap |-> Exch(s.heap, s.index, smallest), index |-> smallest]

TopDown(h, start) ==
  LET turn[k \in 0..Len(h)] == IF k = 0 THEN [heap |-> h, index |-> start]
                                        ELSE Sink(turn[k - 1])
  IN  turn[Len(h)].heap

\* Exch with the last element, pop_back, TopDown.
TakeOut(h, i) ==
  TopDown(SubSeq(Exch(h, i, Len(h)), 1, Len(h) - 1), i)

\* No event of h comes before its parent.
InOrder(h) == \A i \in 2..Len(h) : ~Before(h[i], h[i \div 2])

\* History only, no statement of the code: what an operation leaves misplaced,
\* to which it has added the events of new.  Nothing is, once all are in order.
Misplace(new) ==
  misplaced' = IF InOrder(heap') THEN {} ELSE misplaced \cup new

Insert(d) ==
  /\ uid < FirstUid + MaxEvents
  /\ heap' = BottomUp(Append(heap, [ts |-> now + d, uid |-> uid]))
  /\ Misplace({})
  /\ uid' = uid + 1
  /\ UNCHANGED <<now, next>>

RemoveNext ==
  /\ heap # <<>>
  /\ next' = heap[1]
  /\ now' = heap[1].ts
  /\ heap' = TakeOut(heap, 1)
  /\ Misplace({})
  /\ UNCHANGED uid

\* The last event fills hole i, whose parent it comes before: TopDown does not
\* let it rise.
FilledOutOfOrder(i) ==
  i > 1 /\ i < Len(heap) /\ Before(heap[Len(heap)], heap[i \div 2])

\* Remove of an event in the list; the code looks its uid up.
Remove(u) ==
  /\ \E i \in 1..Len(heap) :
       /\ heap[i].uid = u
       /\ heap' = TakeOut(heap, i)
       /\ Misplace(IF FilledOutOfOrder(i) THEN {heap[Len(heap)]} ELSE {})
  /\ UNCHANGED <<uid, now, next>>

Init == /\ heap = <<>>
        /\ misplaced = {}
        /\ uid = FirstUid
        /\ now = 0
        /\ next = Nothing

Next == \/ \E d \in Delay : Insert(d)
        \/ RemoveNext
        \/ \E u \in {heap[i].uid : i \in 1..Len(heap)} : Remove(u)

Spec == Init /\ [][Next]_vars

-----------------------------------------------------------------------------
\* The variables have their types; no event is in the heap twice.
TypeOK == /\ heap \in Seq(Event)
          /\ \A i, j \in 1..Len(heap) : heap[i] = heap[j] => i = j
          /\ misplaced \in SUBSET Event
          /\ uid \in Nat
          /\ now \in Nat
          /\ next \in Event

\* An event that the misplaced ones cannot be in the way of.
BeforeMisplaced(e) == \A m \in misplaced : Before(e, m)

\* No event that comes before every misplaced one comes before its parent: all
\* of the heap is in order until a Remove fills its hole out of order, and
\* from then on what is earlier than the events that were put too low.
HeapOrder ==
  \A i \in 2..Len(heap) :
    BeforeMisplaced(heap[i]) => ~Before(heap[i], heap[i \div 2])

Queue == {heap[i] : i \in 1..Len(heap)}

\* What scheduler.h promises (lines 101 to 137).
List == INSTANCE Scheduler WITH queue <- Queue

\* RemoveNext takes one event out, and none that comes before every misplaced
\* one is left behind that comes before it.
RemovesNext ==
  \E e \in Queue :
    /\ \A f \in Queue \ {e} : BeforeMisplaced(f) => Before(e, f)
    /\ Queue' = Queue \ {e}
    /\ next' = e
    /\ now' = e.ts
    /\ UNCHANGED uid

\* The heap is the event list while nothing is misplaced.  While something is,
\* RemoveNext is right about the events that come before every misplaced one
\* only: it may return a later event than the first, and time then runs back,
\* where an assertion of ProcessOneEvent ends a debug build.
ImplementsScheduler ==
  /\ List!Init
  /\ [][\/ List!Insert
        \/ List!Remove
        \/ misplaced = {} /\ List!RemoveNext
        \/ misplaced # {} /\ RemovesNext]_<<Queue, uid, now, next>>
=============================================================================
