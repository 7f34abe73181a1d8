-------------------------- MODULE MCClockReadings --------------------------
(***************************************************************************)
(* Clocks for TLC: slower and faster than global time, with and without    *)
(* rounding of the local time (denominators above 2 round down, too), with *)
(* offsets on either side of 0.                                            *)
(***************************************************************************)
EXTENDS Watchdog

SomeClocks == [num : 1..5, den : {1, 2, 4}, offset : {-3, 0, 2}]

SomeDelays == 0..6

SomePings == {1, 3}
=============================================================================
