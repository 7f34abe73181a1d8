---------------------------- MODULE MCTestRunner ----------------------------
(* Values of the constants of TestRunner for TLC. *)
EXTENDS TestRunner

CONSTANTS w1, w2

Suite == [kind |-> "suite", skip |-> FALSE]
Example == [kind |-> "example", skip |-> FALSE]
Skipped == [kind |-> "suite", skip |-> TRUE]

\* Nothing to run; one suite for two workers; more jobs than workers.
Runs == {<<>>, <<Suite>>, <<Suite, Skipped, Suite, Example>>}
=============================================================================
