-------------------------- MODULE MCSessionSummary --------------------------
(***************************************************************************)
(* Instance of SessionSummary: two turns in one conversation, one in the   *)
(* other.                                                                  *)
(***************************************************************************)
EXTENDS SessionSummary

CONSTANTS c1, c2

Messages == [c \in Conversations |-> IF c = c1 THEN 4 ELSE 2]
=============================================================================
