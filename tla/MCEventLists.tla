---------------------------- MODULE MCEventLists ----------------------------
(***************************************************************************)
(* Values of the constants of EventLists for TLC.  The distances are those *)
(* of an event at the same time, of the next day and of one some years     *)
(* ahead; the calendar doubles at 5 events and halves at 1 and 0.          *)
(***************************************************************************)
EXTENDS EventLists

Distances == {0, 1, 7}
=============================================================================
