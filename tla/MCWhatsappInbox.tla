-------------------------- MODULE MCWhatsappInbox --------------------------
(***************************************************************************)
(* Instances of WhatsappInbox.  Every message belongs to one conversation: *)
(* rows of different conversations only meet in the choice of the oldest.  *)
(***************************************************************************)
EXTENDS WhatsappInbox, TLC

CONSTANTS c1, t1, p1

OneConversation == [m \in Messages |-> c1]
WorkerSymmetry == Permutations(Workers)
=============================================================================
