------------------------------ MODULE MCTimers ------------------------------
(* Timers with the schedules TLC runs. *)
EXTENDS Timers

MCSchedule == {[kind |-> "once", value |-> 3], [kind |-> "interval", value |-> 2],
               [kind |-> "cron", value |-> 2], [kind |-> "uneven", value |-> 2]}
=============================================================================
