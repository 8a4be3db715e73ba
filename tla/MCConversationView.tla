------------------------ MODULE MCConversationView -------------------------
(***************************************************************************)
(* A small instance of ConversationView for TLC: two conversations, the    *)
(* message this page sends and one turn of somebody else.                  *)
(***************************************************************************)
EXTENDS ConversationView, TLC

CONSTANTS c1, c2, own, other

Conversations == Permutations(Convs)

=============================================================================
