---------------------------- MODULE MCSchedules ----------------------------
(***************************************************************************)
(* Instance of Schedules, with the sessions it shares: two messages in     *)
(* the direct chat, a message and a command in the group, and one slot.    *)
(***************************************************************************)
EXTENDS Schedules, TLC

CONSTANTS f1, f2, d1, d2, g1, n1

MCInGroup == {g1, n1}
DirectSymmetry == Permutations({d1, d2})
=============================================================================
