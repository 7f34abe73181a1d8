----------------------------- MODULE Scheduler -----------------------------
(***************************************************************************)
(* What scheduler.h promises of every event list, and how the simulators   *)
(* use one: the time stamp of a new event is not before the current time,  *)
(* uids are handed out in increasing order, RemoveNext returns the         *)
(* earliest event, Remove takes out an event that is in the list.          *)
(*                                                                         *)
(* The current time is the time stamp of the last event that was removed:  *)
(* the simulators execute what they remove.  (LocalTimeSimulatorImpl drops *)
(* superseded events without executing them, which this interface does not *)
(* describe.)                                                              *)
(***************************************************************************)
EXTENDS EventKey

VARIABLES
  queue, \* the events in the list
  uid,   \* the next uid
  now,   \* the current time
  next   \* the result of the last RemoveNext

Nothing == [ts |-> 0, uid |-> 0]

Insert ==
  /\ \E e \in queue' \ queue :
       /\ e.uid = uid
       /\ e.ts >= now
       /\ queue' = queue \cup {e}
  /\ uid' = uid + 1
  /\ UNCHANGED <<now, next>>

RemoveNext ==
  \E first \in queue :
    /\ IsFirst(first, queue)
    /\ queue' = queue \ {first}
    /\ next' = first
    /\ now' = first.ts
    /\ UNCHANGED uid

Remove ==
  \E e \in queue :
    /\ queue' = queue \ {e}
    /\ UNCHANGED <<uid, now, next>>

Init == /\ queue = {}
        /\ uid = 4
        /\ now = 0
        /\ next = Nothing

Next == Insert \/ RemoveNext \/ Remove

SchedulerSpec == Init /\ [][Next]_<<queue, uid, now, next>>
=============================================================================
