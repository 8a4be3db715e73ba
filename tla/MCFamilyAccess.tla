--------------------------- MODULE MCFamilyAccess ---------------------------
(***************************************************************************)
(* Instance of FamilyAccess.                                               *)
(***************************************************************************)
EXTENDS FamilyAccess, TLC

CONSTANTS u1, u2, f1, f2, e1, c1, p1, i1

AccessSymmetry == Permutations({u1, u2}) \cup Permutations({f1, f2})
=============================================================================
