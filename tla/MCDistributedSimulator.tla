----------------------- MODULE MCDistributedSimulator -----------------------
(* Values of the constants of DistributedSimulator for TLC. *)
EXTENDS DistributedSimulator, TLC

CONSTANTS r1, r2, r3

Both(p, q, d) == <<p, q>> :> d @@ <<q, p>> :> d

\* A line of three ranks with different delays; a rank without links.
Networks == {Both(r1, r2, 1) @@ Both(r2, r3, 2), Both(r1, r2, 1)}

\* The first two ranks have the calls for a packet and its relay.
Uids == r1 :> 6 @@ r2 :> 6 @@ r3 :> 5
=============================================================================
