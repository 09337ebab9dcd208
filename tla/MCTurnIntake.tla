---------------------------- MODULE MCTurnIntake ----------------------------
(* TurnIntake with the scenarios TLC runs. *)
EXTENDS TurnIntake

MCFaults == {{"clear"}, {"operator"}, {"crash"}, {"exit", "context"}}
=============================================================================
