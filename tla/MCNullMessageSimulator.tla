----------------------- MODULE MCNullMessageSimulator -----------------------
(* Values of the constants of NullMessageSimulator for TLC. *)
EXTENDS NullMessageSimulator

Link(id, p, q, d) == [id |-> id, ends |-> {p, q}, delay |-> d]

\* A line of three ranks, or ranks by themselves; two channels between two.
Line == {{Link(1, 0, 1, 2), Link(2, 1, 2, 2)}, {}}
TwoChannels == {{Link(1, 0, 1, 4), Link(2, 0, 1, 4)}}

\* The first rank sends, the second may answer or pass it on, the third reads.
Relay == [p \in Rank |-> 2 - p]
\* One event uses both devices.
OneSender == [p \in Rank |-> IF p = 0 THEN 3 ELSE 0]
=============================================================================
