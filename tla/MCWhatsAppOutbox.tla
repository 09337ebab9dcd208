-------------------------- MODULE MCWhatsAppOutbox --------------------------
(* WhatsAppOutbox with the texts and scenarios TLC runs. *)
EXTENDS WhatsAppOutbox

MCBodyOf == <<"same", "same">>
MCWords == {"crash", "throw", "noid", "nack", "operator", "late"}
MCFaults == {{w} : w \in MCWords} \cup {{"media", w} : w \in MCWords}
=============================================================================
