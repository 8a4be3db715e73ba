------------------------- MODULE MCConversationTurn -------------------------
(***************************************************************************)
(* Instance of ConversationTurn.                                           *)
(***************************************************************************)
EXTENDS ConversationTurn, TLC

CONSTANTS s1, s2, x1, c1

TurnSymmetry == Permutations(Streams)
=============================================================================
