---------------------------- MODULE MCTurnDispatch ----------------------------
(* TurnDispatch with the scenarios TLC runs. *)
EXTENDS TurnDispatch

\* Everything that can go wrong between the server and Codex while the operator
\* stops and resumes, and a context that overflows and is compacted.
Outages == {"exit", "restart", "reject", "announce", "stop", "resume"}
Transport == {"exit", "restart", "reject", "thread_error", "announce", "late_end", "stop"}
Overflow == {"context", "autocompact", "compact_turn", "announce"}

\* The queue paused around stops and an exit; the context cleared; compactions and
\* approvals of the operator, missions of the browser; a context error that is
\* reported twice; requests that time out.
Paused == {"pause", "stop", "resume", "exit"}
Cleared == {"clear", "stop", "resume", "exit", "thread_error"}
Operator == {"manual", "compact_error", "pause", "approval", "web"}
Twice == {"context", "ctx_twice"}
Slow == {"timeout", "thread_error", "web"}

MCScenario == {Outages, Transport, Overflow, Paused, Cleared, Operator, Twice, Slow}

\* The least it takes to resume what the user stopped.
MCStopDuringRecovery == {{"context", "stop", "announce"}}
=============================================================================
