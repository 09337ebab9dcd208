------------------------- MODULE MCCodexConnection --------------------------
(* CodexConnection with the faults TLC runs. *)
EXTENDS CodexConnection

\* A failed account refresh leaves the client open, which a local transport
\* survives; with the Desk the faults are those that close the connection.
MCFaults == {{"local", "exit", "version", "initialize", "refresh", "shutdown"},
             {"local", "exit", "refused", "login", "logout", "shutdown"},
             {"desk", "exit", "timeout", "desk", "version"},
             {"auto", "exit", "timeout", "desk"}}
=============================================================================
