------------------------- MODULE MCDefaultSimulator -------------------------
(* Values of the constants of DefaultSimulator for TLC. *)
EXTENDS DefaultSimulator

ShortDelays == {0, 1}
=============================================================================
