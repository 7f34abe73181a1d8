------------------------ MODULE MCLocalTimeSimulator ------------------------
(***************************************************************************)
(* Values of the constants of LocalTimeSimulator for TLC.                  *)
(*                                                                         *)
(* Frequencies 2 and 1/2 make the two conversions of PerfectClock agree to *)
(* the time step or come out late.  Delays 1 and 3 are odd so that halving *)
(* them rounds.                                                            *)
(***************************************************************************)
EXTENDS LocalTimeSimulator

Rate(n, d) == [num |-> n, den |-> d, offset |-> 0]

Twice == Rate(2, 1)
Half == Rate(1, 2)

TwoClocks == {Half, Twice}

OddDelays == {1, 3}
=============================================================================
