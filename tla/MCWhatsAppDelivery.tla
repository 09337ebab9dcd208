-------------------------- MODULE MCWhatsAppDelivery --------------------------
(* WhatsAppDelivery with the scenarios TLC runs. *)
EXTENDS WhatsAppDelivery

\* One turn of WhatsApp and one of the browser.
MCTurn == {"w", "b"}
MCOurs == {"w"}

\* Commands about the turn of WhatsApp, stops, files and a lost app-server; then
\* all that is known to cost a result.
MCScenario == {{"code", "stop", "exit"}, {"files", "stop", "exit"}, {"code", "files"},
               {"code", "code_any", "ask_again", "stop", "exit"},
               {"code", "stop", "raced", "resume"}, {"code", "overflow", "restart"}}
=============================================================================
