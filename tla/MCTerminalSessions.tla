------------------------- MODULE MCTerminalSessions --------------------------
(* TerminalSessions with two tabs, which are interchangeable. *)
EXTENDS TerminalSessions, TLC

CONSTANTS tab1, tab2

MCPage == {tab1, tab2}
Symmetry == Permutations(MCPage)
=============================================================================
