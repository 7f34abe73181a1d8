----------------------------- MODULE EventLists -----------------------------
(***************************************************************************)
(* The two event lists of src/core that are more than a container, under   *)
(* the same calls of one simulator: whatever m_events->Insert, RemoveNext  *)
(* and Remove are called, the heap and the calendar should give the same   *)
(* answers, and do until the heap's Remove misplaces an event.             *)
(*                                                                         *)
(* The position of the simulator (its current time and the event it has    *)
(* got last) is kept once per list, so that a wrong answer shows: from     *)
(* then on there are two simulators that make the same calls.              *)
(* The lists are those GetImpl gives a new simulator; SetScheduler, which  *)
(* moves the events of one list to another, is not called.                 *)
(***************************************************************************)
EXTENDS Naturals

CONSTANTS
  Delay,     \* distances of new events from the current time
  MaxEvents, \* bound: events inserted
  Word       \* the modulus of uint64_t

ASSUME DelayAssumption == Delay \subseteq Nat
ASSUME BoundAssumption == MaxEvents \in Nat /\ Word \in Nat \ {0}

VARIABLES
  uid,          \* the simulator's m_uid
  heap,         \* HeapScheduler
  misplaced,
  heapNow,      \* the current time, as the heap has it
  heapNext,     \* the last event the heap returned
  calendar,     \* CalendarScheduler
  qSize,
  calendarNow,  \* the current time, as the calendar has it
  calendarNext  \* the last event the calendar returned

vars == <<uid, heap, misplaced, heapNow, heapNext,
          calendar, qSize, calendarNow, calendarNext>>

Heap == INSTANCE HeapScheduler WITH now <- heapNow, next <- heapNext

Calendar == INSTANCE CalendarScheduler
              WITH now <- calendarNow, next <- calendarNext

Init == Heap!Init /\ Calendar!Init

Insert == \E d \in Delay : Heap!Insert(d) /\ Calendar!Insert(d)

\* A simulator whose list is empty has ended.
HeapEnded == heap = <<>> /\ UNCHANGED <<heap, misplaced, heapNow, heapNext>>
CalendarEnded == qSize = 0 /\ UNCHANGED <<calendar, qSize, calendarNow, calendarNext>>

RemoveNext == /\ heap # <<>> \/ qSize > 0
              /\ Heap!RemoveNext \/ HeapEnded
              /\ Calendar!RemoveNext \/ CalendarEnded
              /\ UNCHANGED uid

\* The event of uid u has expired: its list has given it up already.
HeapExpired(u) == /\ \A e \in Heap!Queue : e.uid # u
                  /\ UNCHANGED <<heap, misplaced, heapNow, heapNext>>
CalendarExpired(u) == /\ \A e \in Calendar!Events(calendar) : e.uid # u
                      /\ UNCHANGED <<calendar, qSize, calendarNow, calendarNext>>

\* Simulator::Remove of any event; it does nothing to one that has expired.
Remove == \E e \in Heap!Queue \cup Calendar!Events(calendar) :
            /\ Heap!Remove(e.uid) \/ HeapExpired(e.uid)
            /\ Calendar!Remove(e.uid) \/ CalendarExpired(e.uid)
            /\ UNCHANGED uid

Next == Insert \/ RemoveNext \/ Remove

Spec == Init /\ [][Next]_vars

-----------------------------------------------------------------------------
\* Through insertions, and removals from the top and from anywhere else, no
\* event that comes before every misplaced one comes before its parent in the
\* heap: an event that Remove has put too low harms no earlier one.
HeapInOrder == Heap!TypeOK /\ Heap!HeapOrder

\* Through resizes up and down, every event is in the bucket of its day, the
\* search starts at the day of the last event removed, and nothing in the
\* calendar lies before it.
CalendarInOrder ==
  Calendar!TypeOK /\ Calendar!FiledByDay /\ Calendar!NothingBehind

\* The calendar implements the event list of scheduler.h: RemoveNext returns
\* the earliest event, Insert and Remove change the one event they are called
\* for (lines 101 to 137).  So does the heap while nothing in it is misplaced,
\* and with regard to the events before the misplaced ones always.
ImplementsScheduler == Heap!ImplementsScheduler /\ Calendar!ImplementsScheduler
=============================================================================
