------------------------------ MODULE EventKey ------------------------------
(***************************************************************************)
(* The order of Scheduler::EventKey: what the schedulers sort by and what  *)
(* decides which event is executed next.                                   *)
(***************************************************************************)
EXTENDS Integers

\* Wrong: last in, first out among events of the same time.
BeforeLifo(e, f) == e.ts < f.ts \/ (e.ts = f.ts /\ e.uid > f.uid)

\* Scheduler::EventKey operator<.
Before(e, f) == e.ts < f.ts \/ (e.ts = f.ts /\ e.uid < f.uid)

\* The entry of a queue that comes before all others.
IsFirst(e, queue) == e \in queue /\ \A other \in queue \ {e} : Before(e, other)
=============================================================================
