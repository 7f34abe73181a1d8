-------------------------- MODULE ParallelSimulation -------------------------
(***************************************************************************)
(* What a parallel simulation promises, whatever protocol synchronizes its *)
(* ranks (logical processors).  Each rank has its own simulated time and   *)
(* its own pending activities; an activity that one rank creates for       *)
(* another is pending there from that moment, however long the message     *)
(* that carries it travels.  A rank executes an activity only when nothing *)
(* that is due earlier is pending for it anywhere, nothing is created in   *)
(* the past of the rank that is to execute it, and nothing is executed     *)
(* twice or vanishes: src/mpi/doc/distributed.rst, lines 30 to 35.         *)
(***************************************************************************)
EXTENDS Integers

CONSTANT Rank

VARIABLES
  now,     \* the simulated time of each rank
  pending  \* the activities each rank has to execute: records [act, due]

parVars == <<now, pending>>

New(p) == pending'[p] \ pending[p]

\* A rank schedules activities of its own or for other ranks, each of them in
\* the future of both; nothing is withdrawn.
Issue ==
  /\ \E p \in Rank :
       /\ \A q \in Rank : pending[q] \subseteq pending'[q]
       /\ \E q \in Rank : New(q) # {}
       /\ \A q \in Rank : \A a \in New(q) :
            /\ a.due >= now[p] /\ a.due >= now[q]
            /\ \A b \in pending[q] : b.act # a.act
  /\ UNCHANGED now

\* A rank executes the activity it has to, and time moves to its due time.
Perform ==
  \E p \in Rank : \E a \in pending[p] :
    /\ \A b \in pending[p] : a.due <= b.due
    /\ a.due >= now[p]
    /\ now' = [now EXCEPT ![p] = a.due]
    /\ pending' = [pending EXCEPT ![p] = @ \ {a}]

ParInit == /\ now = [p \in Rank |-> 0]
           /\ pending = [p \in Rank |-> {}]

ParNext == Issue \/ Perform

ParSpec == ParInit /\ [][ParNext]_parVars
=============================================================================
