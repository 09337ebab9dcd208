------------------------------- MODULE MCDesk -------------------------------
(* Desk with the faults TLC runs. *)
EXTENDS Desk

MCFaults == {{"control", "stale", "desk", "restart", "interrupt", "timeout"},
             {"desk", "restart", "reset", "timeout", "browser", "kill", "agent"},
             {"desk", "restart", "reset", "overlap", "browser"}}
=============================================================================
