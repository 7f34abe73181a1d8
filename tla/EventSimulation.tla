--------------------------- MODULE EventSimulation ---------------------------
(***************************************************************************)
(* What a discrete-event simulator promises, whatever it is built from.    *)
(* An activity is a piece of code with a due time.  It is pending from the *)
(* moment it is scheduled until it is executed or dropped; the earliest    *)
(* pending activity is executed first, activities due at the same time in  *)
(* the order of their tickets (first scheduled, first executed), and no    *)
(* activity is ever executed twice, after it was dropped, or after time    *)
(* has passed it by.                                                       *)
(*                                                                         *)
(* A pending activity may be moved to another time, which is what an       *)
(* update of a node's clock does to the activities of that node; it then   *)
(* takes a new ticket.                                                     *)
(***************************************************************************)
EXTENDS Integers

CONSTANT Activity

VARIABLES
  now,      \* the simulated time
  pending,  \* records [act, due, ticket]
  issued,   \* every ticket below this one may have been given out
  done,     \* activities that were executed
  dropped   \* activities that were cancelled or removed before that

simVars == <<now, pending, issued, done, dropped>>

Entry == [act : Activity, due : Int, ticket : Nat]

SimTypeOK == /\ now \in Int
             /\ pending \subseteq Entry
             /\ issued \in Nat
             /\ done \subseteq Activity
             /\ dropped \subseteq Activity

Acts(entries) == {e.act : e \in entries}

\* Activities nobody has scheduled yet.
Fresh == Activity \ (Acts(pending) \cup done \cup dropped)

Earlier(e, f) == e.due < f.due \/ (e.due = f.due /\ e.ticket < f.ticket)

\* New entries: due from now on, with tickets nobody had.
Takes(entries) ==
  /\ \A e \in entries : e.due >= now /\ e.ticket >= issued
  /\ \A e, f \in entries : e # f => e.act # f.act /\ e.ticket # f.ticket

Add ==
  /\ LET new == pending' \ pending IN
       /\ pending \subseteq pending'
       /\ new # {}
       /\ Acts(new) \subseteq Fresh
       /\ Takes(new)
       /\ issued' \in Nat
       /\ \A e \in new : e.ticket < issued'
  /\ UNCHANGED <<now, done, dropped>>

Move ==
  /\ \E e \in pending : \E f \in pending' :
       /\ f.act = e.act
       /\ Takes({f})
       /\ pending' = (pending \ {e}) \cup {f}
       /\ issued' \in Nat
       /\ f.ticket < issued'
  /\ UNCHANGED <<now, done, dropped>>

Drop ==
  /\ \E e \in pending :
       /\ pending' = pending \ {e}
       /\ dropped' = dropped \cup {e.act}
  /\ UNCHANGED <<now, issued, done>>

Execute ==
  /\ \E e \in pending :
       /\ \A f \in pending \ {e} : Earlier(e, f)
       /\ e.act \notin done \cup dropped
       /\ now' = e.due
       /\ pending' = pending \ {e}
       /\ done' = done \cup {e.act}
  /\ UNCHANGED <<issued, dropped>>

\* Time may pass when no activity is due.
Elapse ==
  /\ now' > now
  /\ \A e \in pending : now' <= e.due
  /\ UNCHANGED <<pending, issued, done, dropped>>

\* A ticket is lost: it went to something that is not an activity.
Waste == /\ issued' \in Nat
         /\ issued' > issued
         /\ UNCHANGED <<now, pending, done, dropped>>

\* Simulators that are destroyed and created again only: what is given up
\* before it was ever pending, and a new start of time.
Forget == /\ \E gone \in SUBSET Fresh : dropped' = dropped \cup gone
          /\ UNCHANGED <<now, pending, issued, done>>

Restart == /\ pending = {}
           /\ now' = 0
           /\ issued' \in Nat
           /\ UNCHANGED <<pending, done, dropped>>

SimInit == /\ now = 0
           /\ pending = {}
           /\ issued \in Nat
           /\ done = {}
           /\ dropped = {}

SimNext == Add \/ Move \/ Drop \/ Execute \/ Elapse \/ Waste

SimSpec == SimInit /\ [][SimNext]_simVars
=============================================================================
