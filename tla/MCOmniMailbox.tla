--------------------------- MODULE MCOmniMailbox ---------------------------
(* The daemon and a shell, three messages of the user, one desktop chat. *)
EXTENDS OmniMailbox

CONSTANTS daemon, shell, chat

MCMessage == 1..3
=============================================================================
