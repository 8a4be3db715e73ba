-------------------------- MODULE MCWhatsappOutbox --------------------------
(***************************************************************************)
(* An instance of WhatsappOutbox.                                         *)
(***************************************************************************)
EXTENDS WhatsappOutbox

CONSTANTS r1, r2, a1

AllAskedByFirst == [a \in Approvals |-> r1]
=============================================================================
