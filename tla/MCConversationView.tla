------------------------ MODULE MCConversationView -------------------------
(* ConversationView with the scenarios TLC runs. *)
EXTENDS ConversationView

MCScenario == {{"asks", w} : w \in {"other", "exit", "parallel", "lost", "reorder", "stop"}}
              \cup {{"more", "older", w} : w \in {"clear", "lost"}}
              \cup {{"files", "lost"}, {"files", "stop", "other"}}
=============================================================================
