--------------------------- MODULE MCWhatsAppLink ---------------------------
(* WhatsAppLink with the faults TLC runs. *)
EXTENDS WhatsAppLink

MCFaults == {{"initialize", "disconnect", "crash", "logout"},
             {"authfailure", "disconnect", "crash"}, {"factory", "initialize", "crash"}}
=============================================================================
